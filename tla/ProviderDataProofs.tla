-------------------------- MODULE ProviderDataProofs --------------------------
(***************************************************************************)
(* What becomes of the data of two providers.  The comparison: for any     *)
(* observations, any expected keys and any alignment.  Everything there    *)
(* rests on the aligned pairs being one-to-one: an observation that is     *)
(* reported under the other side's key is reported there, and nowhere      *)
(* else.  The normalisation before it: of bars for any page, calendar,     *)
(* length of a bar and precision of the wire, of actions for any records   *)
(* and any timeline.                                                       *)
(***************************************************************************)
EXTENDS Compare, BarNormalization, ActionNormalization, FiniteSetTheorems, SequenceTheorems,
        WellFoundedInduction, TLAPS

\* A right-hand observation that is reported with its partner.
Aside(k) == (\E p \in Shifted : p[2] = k) /\ left[k] = 0

Verdict(k) ==
  IF left[k] > 1 \/ right[Partner(k)] > 1 THEN "duplicate"
  ELSE IF left[k] = 0 \/ right[Partner(k)] = 0 THEN "unavailable" ELSE "matched"

\* Each visited key has its row, or is reported with its partner; each row says of a
\* visited key what the two sides have there.
Shape ==
  /\ left \in [Keys -> Nat] /\ right \in [Keys -> Nat]
  /\ expected \subseteq Keys /\ rest \subseteq Keys
RowOf(r) ==
  /\ r.left \in Keys /\ r.left \notin rest /\ ~Aside(r.left)
  /\ r.right = Partner(r.left) /\ r.verdict = Verdict(r.left)
  /\ r.verdict = "matched" => \E d \in MayDiffer(r.left) : r.diff = d \cup KeyDifference(r.left)
Inv ==
  /\ Shape
  /\ \A r \in rows : RowOf(r)
  /\ \A r, s \in rows : r.left = s.left => r = s
  /\ \A k \in HasRows(left) \cup HasRows(right) \cup expected :
       k \in rest \/ Aside(k) \/ \E r \in rows : r.left = k

------------------------------------------------------------------------------
\* The aligned pairs are one-to-one, between observations the other side lacks.
LEMMA PairsAreOneToOne ==
  ASSUME NEW p \in Shifted, NEW q \in Shifted
  PROVE  /\ p = <<p[1], p[2]>> /\ p[1] \in Keys /\ p[2] \in Keys /\ Near(p[1], p[2])
         /\ left[p[1]] = 1 /\ right[p[1]] = 0 /\ right[p[2]] = 1 /\ left[p[2]] = 0
         /\ p[1] = q[1] <=> p[2] = q[2]
BY DEF Shifted, Pairs

LEMMA PartnerOfPair ==
  ASSUME NEW p \in Shifted
  PROVE  Partner(p[1]) = p[2]
<1>1. PICK q \in Shifted : q = (CHOOSE x \in Shifted : x[1] = p[1]) /\ q[1] = p[1]
  OBVIOUS
<1>. QED BY <1>1, PairsAreOneToOne DEF Partner

\* A key has itself for partner, or is the left one of a pair.
LEMMA PartnerCases ==
  ASSUME NEW k \in Keys
  PROVE  /\ Partner(k) \in Keys
         /\ (Partner(k) = k /\ ~\E p \in Shifted : p[1] = k)
            \/ \E p \in Shifted : p[1] = k /\ p[2] = Partner(k) /\ p[1] # p[2]
<1>1. CASE \E p \in Shifted : p[1] = k
  <2>1. PICK p \in Shifted : p[1] = k
    BY <1>1
  <2>2. p[1] # p[2] /\ p[2] \in Keys
    BY PairsAreOneToOne DEF Near
  <2>. QED BY <2>1, <2>2, PartnerOfPair
<1>2. CASE ~\E p \in Shifted : p[1] = k
  BY <1>2 DEF Partner
<1>. QED BY <1>1, <1>2

\* No two keys that get a row have the same partner.
LEMMA PartnersDiffer ==
  ASSUME NEW k \in Keys, NEW l \in Keys, Shape, ~Aside(k), ~Aside(l), Partner(k) = Partner(l)
  PROVE  k = l
<1>1. CASE Partner(k) = k /\ Partner(l) = l
  BY <1>1
<1>2. ASSUME NEW p \in Shifted, NEW q \in Shifted, p[1] = k, p[2] = Partner(k),
             q[1] = l, q[2] = Partner(l)
      PROVE  k = l
  BY <1>2, PairsAreOneToOne
<1>3. ASSUME NEW p \in Shifted, p[1] = k, p[2] = Partner(k), Partner(l) = l PROVE FALSE
  BY <1>3, PairsAreOneToOne DEF Aside
<1>4. ASSUME NEW p \in Shifted, p[1] = l, p[2] = Partner(l), Partner(k) = k PROVE FALSE
  BY <1>4, PairsAreOneToOne DEF Aside
<1>. QED BY <1>1, <1>2, <1>3, <1>4, PartnerCases

LEMMA InitInv == Init => Inv
<1>. SUFFICES ASSUME Init PROVE Inv
  OBVIOUS
<1>1. \A K \in SUBSET Keys : Sides(K) \subseteq [Keys -> Nat]
  BY DEF Sides
<1>2. BarKeys \subseteq Keys /\ ActionKeys \subseteq Keys
  BY DEF BarKeys, ActionKeys
<1>3. left \in [Keys -> Nat] /\ right \in [Keys -> Nat] /\ expected \subseteq Keys
  BY <1>1, <1>2 DEF Init
<1>4. Shape
  BY <1>3 DEF Init, Shape, HasRows
<1>. QED BY <1>4 DEF Init, Inv

\* The two sides never change, and with them the pairs.
LEMMA SidesStay ==
  ASSUME UNCHANGED <<left, right>>
  PROVE  /\ Shifted' = Shifted
         /\ \A k : Partner(k)' = Partner(k)
         /\ \A k : (Aside(k)' <=> Aside(k)) /\ Verdict(k)' = Verdict(k)
         /\ \A k : KeyDifference(k)' = KeyDifference(k)
<1>1. Shifted' = Shifted
  BY DEF Shifted, Pairs
<1>2. \A k : Partner(k)' = Partner(k)
  BY <1>1 DEF Partner
<1>. QED BY <1>1, <1>2 DEF Aside, Verdict, KeyDifference

\* A visited key other than one that is set aside gets the row that is due to it.
LEMMA RowIsDue ==
  ASSUME Inv, NEW key \in rest, NEW verdict, NEW diff,
         ~Aside(key), verdict = Verdict(key),
         verdict = "matched" => \E d \in MayDiffer(key) : diff = d \cup KeyDifference(key),
         rows' = rows \cup {[left |-> key, right |-> Partner(key),
                             verdict |-> verdict, diff |-> diff]},
         rest' = rest \ {key}, UNCHANGED <<left, right, expected>>
  PROVE  Inv'
<1>. DEFINE new == [left |-> key, right |-> Partner(key), verdict |-> verdict, diff |-> diff]
<1>1. /\ new.left = key /\ new.right = Partner(key) /\ new.verdict = verdict
      /\ new.diff = diff /\ rows' = rows \cup {new}
  OBVIOUS
<1>. HIDE DEF new
<1>2. Shape'
  BY DEF Inv, Shape
<1>3. key \in Keys
  BY DEF Inv, Shape
<1>4. \A r \in rows : r.left \notin rest /\ r.left # key
  BY DEF Inv, RowOf
<1>5. \A k : MayDiffer(k)' = MayDiffer(k)
  BY DEF MayDiffer
<1>6. \A r \in rows : RowOf(r)'
  BY <1>5, SidesStay DEF Inv, RowOf
<1>7. \A r : r = new => RowOf(r)'
  <2>. SUFFICES ASSUME NEW r, r = new PROVE RowOf(r)'
    OBVIOUS
  <2>1. /\ r.left = key /\ r.verdict = verdict /\ r.diff = diff /\ key \notin rest'
        /\ r.right = Partner(key)
    BY <1>1
  <2>. QED BY <1>3, <1>5, <2>1, SidesStay DEF RowOf
<1>8. \A r \in rows' : RowOf(r)'
  BY <1>1, <1>6, <1>7
<1>9. \A r, s \in rows' : r.left = s.left => r = s
  BY <1>1, <1>4 DEF Inv
<1>10. \A k \in (HasRows(left) \cup HasRows(right) \cup expected)' :
         k \in rest' \/ Aside(k)' \/ \E r \in rows' : r.left = k
  <2>1. (HasRows(left) \cup HasRows(right) \cup expected)'
          = HasRows(left) \cup HasRows(right) \cup expected
    BY DEF HasRows
  <2>. QED BY <1>1, <2>1, SidesStay DEF Inv
<1>. QED BY <1>2, <1>8, <1>9, <1>10 DEF Inv

LEMMA InvStep == Inv /\ [Next]_vars => Inv'
<1>. SUFFICES ASSUME Inv, [Next]_vars PROVE Inv'
  OBVIOUS
<1>1. CASE UNCHANGED vars
  <2>1. /\ UNCHANGED <<left, right, expected, rest, rows>>
        /\ (HasRows(left) \cup HasRows(right) \cup expected)'
             = HasRows(left) \cup HasRows(right) \cup expected
    BY <1>1 DEF vars, HasRows
  <2>2. \A k : MayDiffer(k)' = MayDiffer(k)
    BY DEF MayDiffer
  <2>3. \A r \in rows : RowOf(r)'
    BY <2>1, <2>2, SidesStay DEF Inv, RowOf
  <2>4. Shape'
    BY <2>1 DEF Inv, Shape
  <2>. QED BY <2>1, <2>3, <2>4, SidesStay DEF Inv
<1>2. CASE Next
  <2>1. Key \in rest /\ Key \in Keys
    BY <1>2 DEF Next, Key, Inv, Shape
  <2>2. Skipped <=> Aside(Key)
    BY DEF Skipped, Aside
  <2>3. left[Key] \in Nat /\ right[Partner(Key)] \in Nat
    BY <2>1, PartnerCases DEF Inv, Shape
  <2>4. CASE Visit(Skip)
    <3>1. /\ rest' = rest \ {Key} /\ UNCHANGED <<left, right, expected, rows>> /\ Aside(Key)
          /\ (HasRows(left) \cup HasRows(right) \cup expected)'
               = HasRows(left) \cup HasRows(right) \cup expected
      BY <2>2, <2>4 DEF Visit, Skip, HasRows
    <3>2. \A k : MayDiffer(k)' = MayDiffer(k)
      BY DEF MayDiffer
    <3>3. \A r \in rows : RowOf(r)'
      BY <3>1, <3>2, SidesStay DEF Inv, RowOf
    <3>4. Shape'
      BY <3>1 DEF Inv, Shape
    <3>. QED BY <3>1, <3>3, <3>4, SidesStay DEF Inv
  <2>5. CASE Visit(Duplicate)
    <3>1. Verdict(Key) = "duplicate"
      BY <2>5 DEF Visit, Duplicate, Verdict
    <3>. QED BY <2>1, <2>2, <2>5, <3>1, RowIsDue DEF Visit, Duplicate, Row
  <2>6. CASE Visit(Unavailable)
    <3>1. Verdict(Key) = "unavailable"
      BY <2>3, <2>6 DEF Visit, Unavailable, Verdict
    <3>. QED BY <2>1, <2>2, <2>6, <3>1, RowIsDue DEF Visit, Unavailable, Row
  <2>7. CASE Visit(Matched)
    <3>1. Verdict(Key) = "matched" /\ ~Aside(Key)
      BY <2>2, <2>7 DEF Visit, Matched, Verdict
    <3>2. PICK d \in MayDiffer(Key) : Row(Key, "matched", d \cup KeyDifference(Key))
      BY <2>7 DEF Visit, Matched
    <3>. QED BY <2>1, <2>7, <3>1, <3>2, RowIsDue DEF Visit, Row
  <2>. QED BY <1>2, <2>4, <2>5, <2>6, <2>7 DEF Next
<1>. QED BY <1>1, <1>2

LEMMA Invariance == Spec => []Inv
BY InitInv, InvStep, PTL DEF Spec

------------------------------------------------------------------------------
\* At the end, what the left side has under a key is in the row of that key.
LEMMA LeftRow ==
  ASSUME Inv, Done, NEW k \in HasRows(left)
  PROVE  k \in Keys /\ ~Aside(k) /\ \E r \in rows : r.left = k
<1>1. k \in Keys /\ left[k] > 0 /\ ~Aside(k)
  BY DEF HasRows, Aside
<1>. QED BY <1>1 DEF Inv, Done

\* ... and what the right side has is in the row that has it for partner.
LEMMA RightRow ==
  ASSUME Inv, Done, NEW k \in HasRows(right)
  PROVE  \E r \in rows : r.right = k
<1>1. k \in Keys /\ right[k] > 0
  BY DEF HasRows
<1>2. CASE Aside(k)
  <2>1. PICK p \in Shifted : p[2] = k
    BY <1>2 DEF Aside
  <2>2. p[1] \in HasRows(left)
    BY PairsAreOneToOne DEF HasRows
  <2>3. PICK r \in rows : r.left = p[1]
    BY <2>2, LeftRow
  <2>. QED BY <2>1, <2>3, PartnerOfPair DEF Inv, RowOf
<1>3. CASE ~Aside(k)
  <2>1. PICK r \in rows : r.left = k
    BY <1>3 DEF Inv, Done
  <2>2. Partner(k) = k
    BY <1>1, PartnerCases, PairsAreOneToOne
  <2>. QED BY <2>1, <2>2 DEF Inv, RowOf
<1>. QED BY <1>2, <1>3

LEMMA RowsHaveOnePartner ==
  ASSUME Inv, NEW r \in rows, NEW s \in rows, r.right = s.right
  PROVE  r = s
<1>1. r.left = s.left
  BY PartnersDiffer DEF Inv, RowOf
<1>. QED BY <1>1 DEF Inv

\* The aligned pairs are the lone observations that can only mean each other.
LEMMA AlignedMayMatch ==
  ASSUME NEW l \in Keys, NEW r \in Keys
  PROVE  <<l, r>> \in Shifted <=>
           /\ {k \in Lone(right, left) : Near(l, k)} = {r}
           /\ {k \in Lone(left, right) : Near(k, r)} = {l}
BY DEF Shifted, Pairs, Lone

\* Each observation is in one row, duplicates are called so, and exactly those rows are
\* matched that may be.
LEMMA InvImpliesEveryObservationOnce == Inv => EveryObservationOnce
<1>. SUFFICES ASSUME Inv, Done PROVE EveryObservationOnce
  BY DEF EveryObservationOnce
<1>1. ASSUME NEW k \in HasRows(left) PROVE Cardinality({r \in rows : r.left = k}) = 1
  <2>1. PICK r \in rows : r.left = k
    BY LeftRow
  <2>2. {s \in rows : s.left = k} = {r}
    BY <2>1 DEF Inv
  <2>. QED BY <2>2, FS_Singleton
<1>2. ASSUME NEW k \in HasRows(right) PROVE Cardinality({r \in rows : r.right = k}) = 1
  <2>1. PICK r \in rows : r.right = k
    BY RightRow
  <2>2. {s \in rows : s.right = k} = {r}
    BY <2>1, RowsHaveOnePartner
  <2>. QED BY <2>2, FS_Singleton
<1>3. ASSUME NEW r \in rows
      PROVE  /\ (r.verdict = "duplicate") = (left[r.left] > 1 \/ right[r.right] > 1)
             /\ (r.verdict = "matched") => MayMatch(r.left, r.right)
  <2>1. /\ r.left \in Keys /\ r.right \in Keys /\ r.right = Partner(r.left)
        /\ r.verdict = Verdict(r.left) /\ left[r.left] \in Nat /\ right[r.right] \in Nat
    BY PartnerCases DEF Inv, Shape, RowOf
  <2>2. (r.verdict = "duplicate") = (left[r.left] > 1 \/ right[r.right] > 1)
    BY <2>1 DEF Verdict
  <2>3. ASSUME r.verdict = "matched" PROVE MayMatch(r.left, r.right)
    <3>1. left[r.left] = 1 /\ right[r.right] = 1
      BY <2>1, <2>3 DEF Verdict
    <3>2. CASE r.right = r.left
      BY <3>1, <3>2 DEF MayMatch
    <3>3. ASSUME NEW p \in Shifted, p[1] = r.left, p[2] = r.right
          PROVE  MayMatch(r.left, r.right)
      <4>1. <<r.left, r.right>> \in Shifted
        BY <3>3, PairsAreOneToOne
      <4>. QED BY <2>1, <4>1, AlignedMayMatch DEF MayMatch
    <3>. QED BY <2>1, <3>2, <3>3, PartnerCases
  <2>. QED BY <2>2, <2>3
<1>4. ASSUME NEW l \in Keys, NEW r \in Keys, MayMatch(l, r), left[l] = 1, right[r] = 1
      PROVE  \E row \in rows : row.left = l /\ row.right = r /\ row.verdict = "matched"
  <2>1. PICK row \in rows : row.left = l
    BY <1>4, LeftRow DEF HasRows
  <2>2. Partner(l) = r
    <3>1. CASE l = r
      BY <1>4, <3>1, PartnerCases, PairsAreOneToOne
    <3>2. CASE <<l, r>> \in Shifted
      BY <3>2, PartnerOfPair
    <3>. QED BY <1>4, <3>1, <3>2, AlignedMayMatch DEF MayMatch
  <2>3. Verdict(l) = "matched"
    BY <1>4, <2>2 DEF Verdict
  <2>. QED BY <2>1, <2>2, <2>3 DEF Inv, RowOf
<1>. QED BY <1>1, <1>2, <1>3, <1>4 DEF EveryObservationOnce

------------------------------------------------------------------------------
\* A row without a finding about timing, dates, duplicates or availability compares the
\* two lone rows of one key.
LEMMA QuietRows ==
  ASSUME Inv, NEW r \in rows,
         \A f \in Findings(r) :
           /\ f[2] \notin {"timing_session", "likely_provider_issue", "missing_observation"}
           /\ f[1] # "effective_date"
  PROVE  /\ r.left \in Keys /\ r.right = r.left /\ r.verdict = "matched"
         /\ left[r.left] = 1 /\ right[r.left] = 1
<1>1. /\ r.left \in Keys /\ r.right = Partner(r.left) /\ r.verdict = Verdict(r.left)
      /\ left[r.left] \in Nat /\ right[r.right] \in Nat
  BY PartnerCases DEF Inv, Shape, RowOf
<1>2. r.verdict # "duplicate"
  BY DEF Findings
<1>3. r.verdict # "unavailable"
  BY DEF Findings
<1>4. r.verdict = "matched" /\ left[r.left] = 1 /\ right[r.right] = 1
  BY <1>1, <1>2, <1>3 DEF Verdict
<1>5. \A m \in r.diff \ Excluded : <<m, Class(r, m)>> \in Findings(r)
  BY <1>4 DEF Findings
<1>6. KeyDifference(r.left) \subseteq r.diff
  BY <1>4 DEF Inv, RowOf
<1>7. "interval" \notin r.diff \/ r.left.group \in Action
  <2>1. "interval" \notin Excluded
    BY ConstantsAssumption DEF Numeric
  <2>2. r.left.group \notin Action => Class(r, "interval") = "timing_session"
    BY DEF Class, BarClass
  <2>3. Class(r, "interval") # "timing_session" \/ <<"interval", "timing_session">> \notin Findings(r)
    <3>1. ASSUME <<"interval", "timing_session">> \in Findings(r) PROVE FALSE
      <4>1. <<"interval", "timing_session">>[2] \notin {"timing_session"}
        BY <3>1
      <4>. QED BY <4>1
    <3>. QED BY <3>1
  <2>. QED BY <1>5, <2>1, <2>2, <2>3
<1>8. "effective_date" \notin r.diff
  <2>1. "effective_date" \notin Excluded
    BY ConstantsAssumption DEF Numeric
  <2>. SUFFICES ASSUME "effective_date" \in r.diff PROVE FALSE
    OBVIOUS
  <2>2. <<"effective_date", Class(r, "effective_date")>> \in Findings(r)
    BY <1>5, <2>1
  <2>3. <<"effective_date", Class(r, "effective_date")>>[1] # "effective_date"
    BY <2>2
  <2>. QED BY <2>3
<1>9. Partner(r.left) = r.left
  BY <1>6, <1>7, <1>8 DEF KeyDifference
<1>. QED BY <1>1, <1>4, <1>9

\* If every row is such a row, the two sides and the schedule have the same keys.
LEMMA QuietReport ==
  ASSUME Inv, Done,
         \A r \in rows : \A f \in Findings(r) :
           /\ f[2] \notin {"timing_session", "likely_provider_issue", "missing_observation"}
           /\ f[1] # "effective_date"
  PROVE  /\ left = right /\ expected \subseteq HasRows(left)
         /\ \A k \in Keys : left[k] <= 1
         /\ Missing(left) = 0 /\ Missing(right) = 0
<1>1. \A k : ~Aside(k)
  <2>1. ASSUME NEW p \in Shifted PROVE FALSE
    <3>1. p[1] \in HasRows(left) /\ p[1] # p[2]
      BY PairsAreOneToOne DEF HasRows, Near
    <3>2. PICK r \in rows : r.left = p[1]
      BY <3>1, LeftRow
    <3>. QED BY <3>1, <3>2, QuietRows, PartnerOfPair DEF Inv, RowOf
  <2>. QED BY <2>1 DEF Aside
<1>2. \A k \in HasRows(left) \cup HasRows(right) \cup expected :
         k \in Keys /\ left[k] = 1 /\ right[k] = 1
  BY <1>1, QuietRows DEF Inv, Done
<1>3. left \in [Keys -> Nat] /\ right \in [Keys -> Nat]
  BY DEF Inv, Shape
<1>4. \A k \in Keys : left[k] = right[k] /\ left[k] <= 1
  BY <1>2, <1>3 DEF HasRows
<1>5. left = right
  BY <1>3, <1>4
<1>6. expected \subseteq HasRows(left) /\ expected \subseteq HasRows(right)
  BY <1>2 DEF HasRows
<1>7. ASSUME NEW side, expected \subseteq HasRows(side) PROVE Missing(side) = 0
  <2>1. expected \ HasRows(side) = {}
    BY <1>7
  <2>2. Pairs({}, HasRows(side) \ expected) = {}
    BY DEF Pairs
  <2>. QED BY <2>1, <2>2, FS_EmptySet DEF Missing
<1>. QED BY <1>4, <1>5, <1>6, <1>7

\* A numeric finding against the venue, or an unresolved one, is about two bars with
\* one key and the same context.
LEMMA NumericBlame ==
  ASSUME Inv, NEW r \in rows, NEW f \in Findings(r),
         f[1] \in Numeric, f[2] \in {"venue_feed", "unresolved"}
  PROVE  r.left = r.right /\ r.diff \cap {"interval", "session", "adjustment"} = {}
<1>1. r.left \in Keys /\ r.right = Partner(r.left) /\ r.verdict = Verdict(r.left)
  BY DEF Inv, RowOf
<1>2. r.verdict # "duplicate" /\ r.verdict # "unavailable"
  BY DEF Findings, Numeric
<1>3. r.verdict = "matched"
  BY <1>1, <1>2 DEF Verdict
<1>4. PICK m \in r.diff \ Excluded : f = <<m, Class(r, m)>>
  BY <1>2 DEF Findings
<1>5. PICK d \in MayDiffer(r.left) : r.diff = d \cup KeyDifference(r.left)
  BY <1>3 DEF Inv, RowOf
<1>6. r.left.group \notin Action
  <2>1. m \in Numeric /\ m \in d \cup KeyDifference(r.left)
    BY <1>4, <1>5
  <2>. SUFFICES ASSUME r.left.group \in Action PROVE FALSE
    OBVIOUS
  <2>2. d \subseteq {"terms", "currency", "ticker"} /\ KeyDifference(r.left) \subseteq {"effective_date"}
    BY DEF MayDiffer, ActionMetrics, KeyDifference
  <2>. QED BY <2>1, <2>2 DEF Numeric
<1>7. m \in Numeric /\ Class(r, m) = ValueClass(m, r.diff)
  BY <1>4, <1>6 DEF Class, BarClass, Numeric
<1>8. r.diff \cap {"interval", "session", "adjustment"} = {}
  BY <1>4, <1>7 DEF ValueClass
<1>9. Partner(r.left) = r.left
  BY <1>5, <1>6, <1>8 DEF KeyDifference
<1>. QED BY <1>1, <1>8, <1>9

\* A matched split or dividend of a report of definitional differences has none.
LEMMA DefinitionalReport ==
  ASSUME Inv, NEW r \in rows, \A f \in Findings(r) : f[2] = "definitional",
         r.left.group \in Split \cup Dividend
  PROVE  r.left = r.right /\ r.verdict = "matched" /\ r.diff = {}
<1>0. r.left.group \in Action
  BY DEF Action
<1>1. ASSUME NEW f \in Findings(r) PROVE f[1] # "effective_date"
  <2>1. r.verdict # "duplicate" /\ r.verdict # "unavailable"
    BY DEF Findings
  <2>2. PICK m \in r.diff \ Excluded : f = <<m, Class(r, m)>>
    BY <2>1 DEF Findings
  <2>3. Class(r, "effective_date") = "unresolved"
    BY <1>0 DEF Class, ActionClass
  <2>. QED BY <2>2, <2>3
<1>2. r.left \in Keys /\ r.right = r.left /\ r.verdict = "matched"
  BY <1>1, QuietRows
<1>3. PICK d \in MayDiffer(r.left) : r.diff = d \cup KeyDifference(r.left)
  BY <1>2 DEF Inv, RowOf
<1>4. KeyDifference(r.left) = {}
  BY <1>2 DEF Inv, RowOf, KeyDifference
<1>5. d \subseteq {"terms", "currency"}
  BY <1>0, ConstantsAssumption DEF MayDiffer, ActionMetrics
<1>6. ASSUME NEW m \in r.diff PROVE FALSE
  <2>1. m \in {"terms", "currency"} /\ m \notin Excluded
    BY <1>3, <1>4, <1>5, ConstantsAssumption DEF Numeric
  <2>2. <<m, Class(r, m)>> \in Findings(r)
    BY <1>2, <2>1 DEF Findings
  <2>3. Class(r, m) = "unresolved"
    BY <1>0, <2>1 DEF Class, ActionClass
  <2>. QED BY <2>2, <2>3
<1>. QED BY <1>2, <1>6

LEMMA InvImpliesBlameIsEarned == Inv => BlameIsEarned
<1>. SUFFICES ASSUME Inv, Done PROVE BlameIsEarned
  BY DEF BlameIsEarned
<1>. DEFINE findings == UNION {Findings(r) : r \in rows}
            classes == {f[2] : f \in findings}
            metrics == {f[1] : f \in findings}
<1>0. \A r \in rows : \A f \in Findings(r) : f[2] \in classes /\ f[1] \in metrics
  OBVIOUS
<1>. HIDE DEF classes, metrics, findings
<1>1. \A r \in rows : \A f \in Findings(r) :
        (f[1] \in Numeric /\ f[2] \in {"venue_feed", "unresolved"}) =>
          r.left = r.right /\ r.diff \cap {"interval", "session", "adjustment"} = {}
  BY NumericBlame
<1>2. ASSUME classes \cap {"timing_session", "likely_provider_issue", "missing_observation"} = {},
             "effective_date" \notin metrics
      PROVE  /\ left = right /\ expected \subseteq HasRows(left)
             /\ \A k \in Keys : left[k] <= 1
             /\ Missing(left) = 0 /\ Missing(right) = 0
  <2>1. \A r \in rows : \A f \in Findings(r) :
          /\ f[2] \notin {"timing_session", "likely_provider_issue", "missing_observation"}
          /\ f[1] # "effective_date"
    BY <1>0, <1>2
  <2>. QED BY <2>1, QuietReport
<1>3. ASSUME classes \subseteq {"definitional"}, NEW r \in rows, r.left.group \in Split \cup Dividend
      PROVE  r.left = r.right /\ r.verdict = "matched" /\ r.diff = {}
  <2>1. \A f \in Findings(r) : f[2] = "definitional"
    BY <1>0, <1>3
  <2>. QED BY <1>3, <2>1, DefinitionalReport
<1>. QED BY <1>1, <1>2, <1>3 DEF BlameIsEarned, classes, metrics, findings

------------------------------------------------------------------------------
\* What is expected: finitely many keys of bars.
OnSchedule == expected \subseteq {k \in BarKeys : k.at \in Grid}

LEMMA ExpectedIsFinite == OnSchedule => IsFiniteSet(expected)
<1>. SUFFICES ASSUME OnSchedule PROVE IsFiniteSet(expected)
  OBVIOUS
<1>. DEFINE Groups == FiveMinute \cup Daily
            Places == Groups \X Grid
            place == [k \in expected |-> <<k.group, k.at>>]
<1>1. IsFiniteSet(Places)
  BY ConstantsAssumption, FS_Union, FS_Product
<1>2. \A k \in expected : k \in Keys /\ k.group \in Groups /\ k.at \in Grid
  BY DEF OnSchedule, BarKeys
<1>3. \A k, l \in Keys : k.group = l.group /\ k.at = l.at => k = l
  BY DEF Keys
<1>4. place \in Injection(expected, Places)
  BY <1>2, <1>3 DEF Injection, IsInjective
<1>. QED BY <1>1, <1>4, FS_Injection

\* The keys that stand in for expected ones are one-to-one with those they stand in for.
LEMMA StandInsAreOneToOne ==
  ASSUME NEW L, NEW R, NEW p \in Pairs(L, R), NEW q \in Pairs(L, R), p[1] = q[1]
  PROVE  p = q
BY DEF Pairs

\* For an absent key, a stand-in is an unexpected observation near it.
LEMMA NearMeansStandIn ==
  ASSUME Inv, OnSchedule, NEW side \in {left, right}, NEW e \in Absent(side)
  PROVE  /\ e \in Keys /\ e.group \notin Action
         /\ \A k \in HasRows(side) \ expected : Near(e, k) <=> k \in StandIns(side, e)
<1>1. e \in Keys /\ e.group \notin Action /\ e.at \in Int
  BY ConstantsAssumption DEF Absent, OnSchedule, BarKeys, Keys
<1>2. ASSUME NEW k \in HasRows(side) \ expected PROVE Near(e, k) <=> k \in StandIns(side, e)
  <2>1. k \in Keys /\ k.at \in Int
    BY ConstantsAssumption DEF HasRows, Keys
  <2>2. e.at # k.at /\ Distance(e, k) <= MinuteAlignment <=> Distance(e, k) \in 1..MinuteAlignment
    BY <1>1, <2>1, ConstantsAssumption DEF Distance
  <2>. QED BY <1>1, <2>2 DEF Near, StandIns
<1>. QED BY <1>1, <1>2

\* The aligned pairs are one-to-one with the absent keys that are covered.
LEMMA CoveredKeys ==
  ASSUME Inv, OnSchedule, NEW side \in {left, right}
  PROVE  LET pairs == Pairs(Absent(side), HasRows(side) \ expected)
         IN /\ \A p \in pairs : p[1] \in Absent(side) \ Uncovered(side)
            /\ \A e \in Absent(side) \ Uncovered(side) : \E p \in pairs : p[1] = e
<1>. DEFINE pairs == Pairs(Absent(side), HasRows(side) \ expected)
<1>1. ASSUME NEW p \in pairs PROVE p[1] \in Absent(side) \ Uncovered(side)
  <2>1. /\ p[1] \in Absent(side) /\ p[2] \in HasRows(side) \ expected /\ Near(p[1], p[2])
        /\ \A k \in HasRows(side) \ expected : Near(p[1], k) => k = p[2]
        /\ \A e \in Absent(side) : Near(e, p[2]) => e = p[1]
    BY DEF Pairs
  <2>2. StandIns(side, p[1]) = {p[2]}
    BY <2>1, NearMeansStandIn DEF StandIns
  <2>3. \A f \in Absent(side) : p[2] \in StandIns(side, f) => f = p[1]
    BY <2>1, NearMeansStandIn
  <2>. QED BY <2>1, <2>2, <2>3 DEF Uncovered
<1>2. ASSUME NEW e \in Absent(side) \ Uncovered(side) PROVE \E p \in pairs : p[1] = e
  <2>1. PICK k \in StandIns(side, e) :
          /\ StandIns(side, e) = {k}
          /\ \A f \in Absent(side) : k \in StandIns(side, f) => f = e
    BY DEF Uncovered
  <2>2. k \in HasRows(side) \ expected /\ Near(e, k)
    BY <2>1, NearMeansStandIn DEF StandIns
  <2>3. \A l \in HasRows(side) \ expected : Near(e, l) => l = k
    BY <2>1, NearMeansStandIn
  <2>4. \A f \in Absent(side) : Near(f, k) => f = e
    BY <2>1, <2>2, NearMeansStandIn
  <2>5. <<e, k>> \in pairs
    BY <2>2, <2>3, <2>4 DEF Pairs
  <2>. QED BY <2>5
<1>. QED BY <1>1, <1>2

\* So what is counted as missing are the absent keys that nothing covers.
LEMMA MissingIsUncovered ==
  ASSUME Inv, OnSchedule, NEW side \in {left, right}
  PROVE  Missing(side) = Cardinality(Uncovered(side))
<1>. DEFINE pairs == Pairs(Absent(side), HasRows(side) \ expected)
            covered == Absent(side) \ Uncovered(side)
            standsFor == [p \in pairs |-> p[1]]
<1>1. IsFiniteSet(Absent(side)) /\ IsFiniteSet(covered)
  BY ExpectedIsFinite, FS_Difference DEF Absent
<1>2. \A p \in pairs : p[1] \in covered
  BY CoveredKeys
<1>3. \A e \in covered : \E p \in pairs : p[1] = e
  BY CoveredKeys
<1>4. \A p, q \in pairs : p[1] = q[1] => p = q
  BY StandInsAreOneToOne
<1>. HIDE DEF pairs, covered
<1>5. standsFor \in Injection(pairs, covered) /\ standsFor \in Surjection(pairs, covered)
  BY <1>2, <1>3, <1>4 DEF Injection, IsInjective, Surjection
<1>. HIDE DEF standsFor
<1>6. Cardinality(pairs) = Cardinality(covered)
  BY <1>1, <1>5, FS_Injection
<1>7. /\ Cardinality(Absent(side) \ covered)
           = Cardinality(Absent(side)) - Cardinality(Absent(side) \cap covered)
  BY <1>1, FS_Difference
<1>8. Absent(side) \ covered = Uncovered(side) /\ Absent(side) \cap covered = covered
  BY DEF Uncovered, covered
<1>9. Missing(side) = Cardinality(Absent(side)) - Cardinality(pairs)
  BY DEF Missing, Absent, pairs
<1>. QED BY <1>6, <1>7, <1>8, <1>9

\* An absent key with no observation of its side near it has a row of its own.
LEMMA FarKeysAreReported ==
  ASSUME Inv, OnSchedule, Done, NEW side \in {left, right}, NEW e \in Absent(side),
         \A k \in HasRows(side) : ~Near(e, k)
  PROVE  e \in Uncovered(side) \cap ReportedGone
<1>1. e \in Uncovered(side)
  <2>1. StandIns(side, e) = {}
    BY NearMeansStandIn DEF StandIns
  <2>. QED BY <2>1 DEF Uncovered
<1>2. e \in Keys /\ e \in expected /\ side[e] = 0 /\ left[e] \in Nat /\ right[e] \in Nat
  <2>1. e \in Keys /\ e \in expected /\ left[e] \in Nat /\ right[e] \in Nat
    BY DEF Inv, Shape, Absent
  <2>. QED BY <2>1 DEF Absent, HasRows
<1>3. ASSUME NEW p \in Shifted, p[1] = e \/ p[2] = e PROVE FALSE
  <2>1. /\ p[1] \in Keys /\ p[2] \in Keys /\ Near(p[1], p[2])
        /\ left[p[1]] = 1 /\ right[p[1]] = 0 /\ right[p[2]] = 1 /\ left[p[2]] = 0
    BY PairsAreOneToOne
  <2>2. Near(p[2], p[1])
    <3>1. p[1].at \in Int /\ p[2].at \in Int
      BY <2>1, ConstantsAssumption DEF Keys
    <3>2. Distance(p[2], p[1]) = Distance(p[1], p[2])
      BY <3>1 DEF Distance
    <3>. QED BY <2>1, <3>2 DEF Near
  <2>3. CASE p[1] = e
    BY <1>2, <2>1, <2>3 DEF HasRows
  <2>4. CASE p[2] = e
    BY <1>2, <2>1, <2>2, <2>4 DEF HasRows
  <2>. QED BY <1>3, <2>3, <2>4
<1>4. Partner(e) = e /\ ~Aside(e)
  BY <1>2, <1>3, PartnerCases DEF Aside
<1>5. PICK r \in rows : r.left = e
  BY <1>2, <1>4 DEF Inv, Done
<1>6. r.right = e /\ r.verdict \in {"unavailable", "duplicate"}
  BY <1>2, <1>4, <1>5 DEF Inv, RowOf, Verdict
<1>. QED BY <1>1, <1>5, <1>6 DEF ReportedGone

LEMMA InvImpliesStandInsAreHonest == Inv /\ OnSchedule => StandInsAreHonest
BY MissingIsUncovered, FarKeysAreReported DEF StandInsAreHonest

LEMMA AlwaysOnSchedule == Spec => []OnSchedule
<1>1. Init => OnSchedule
  BY DEF Init, OnSchedule
<1>2. OnSchedule /\ [Next]_vars => OnSchedule'
  BY DEF Next, Visit, vars, OnSchedule
<1>. QED BY <1>1, <1>2, PTL DEF Spec

------------------------------------------------------------------------------
\* compare_provider_bars and compare_provider_actions put every observation of either
\* provider in exactly one row and match exactly the rows that may be matched.
THEOREM ObservationsCountOnce == Spec => []EveryObservationOnce
BY Invariance, InvImpliesEveryObservationOnce, PTL

\* For any observations and any schedule: a numeric difference of two bars is blamed on
\* the venue, or left unresolved, only between bars of one key and context; a report
\* without findings of timing, dates, duplicates or availability speaks of complete
\* data; and one of definitional differences only, of splits and dividends that agree.
THEOREM BlameIsAlwaysEarned == Spec => []BlameIsEarned
BY Invariance, InvImpliesBlameIsEarned, PTL

\* For any schedule and any alignment, missing_expected_count is the number of absent keys
\* without a stand-in of their own, and an absent key with no observation of its side
\* near it is both counted and reported in a row of its own.
THEOREM StandInsAreAlwaysHonest == Spec => []StandInsAreHonest
BY Invariance, AlwaysOnSchedule, InvImpliesStandInsAreHonest, PTL
------------------------------------------------------------------------------
(***************************************************************************)
(* What a page of bars becomes: the normalisation of any page accounts for *)
(* everything in it, and an honest page loses nothing of the request.      *)
(***************************************************************************)
\* The page is what a provider can answer with; a later stage is what the page gives.
PageIs ==
  page = HonestPage \/ page \in AnyPages
Reported == RecordIssues \cup SeriesIssues
BarInv ==
  /\ provider \in {"alpaca", "massive", "twelve_data"} /\ request \in BarRequests
  /\ bstage \in {"ask", "page", "done", "refused", "raised"}
  /\ bstage \in {"page", "done", "raised"} => PageIs
  /\ bstage = "done" => bars = Bars /\ bissues = Reported
  /\ bstage = "refused" => Refuses
  /\ bstage = "raised" => Unusable
  /\ bstage = "done" => ~Unusable

\* What a provider may answer does not depend on the state.
LEMMA AnyPagesStay == AnyPages' = AnyPages
BY DEF AnyPages, SeriesPages, Entries, Entry, Record, Malformed

\* The invariant holds of every behaviour: what was asked and answered stays as it is,
\* and a stage is decided by it.
LEMMA BarInvAlways == BarSpec => []BarInv
<1>1. BarInit => BarInv
  BY DEF BarInit, BarInv
<1>2. BarInv /\ [BarNext]_bvars => BarInv'
  <2>. SUFFICES ASSUME BarInv, [BarNext]_bvars PROVE BarInv'
    OBVIOUS
  <2>1. provider' = provider /\ request' = request
    BY DEF BarNext, Ask, NormalizeBars, bvars
  <2>2. Refuses' = Refuses
    BY <2>1 DEF Refuses, Ceiling, Floor, UtcDate
  <2>3. HonestPage' = HonestPage
    BY <2>1 DEF HonestPage, Scheduled, OnWire, Stamp, Bounds, Midnight, EasternDate, UtcDate,
                Ceiling, Floor, Record, Entry
  <2>4. page' = page => /\ PageIs' = PageIs /\ Unusable' = Unusable
                        /\ Bars' = Bars /\ Reported' = Reported
    <3>. SUFFICES ASSUME page' = page PROVE /\ PageIs' = PageIs /\ Unusable' = Unusable
                                            /\ Bars' = Bars /\ Reported' = Reported
      OBVIOUS
    <3>1. PageIs' = PageIs
      BY <2>3, AnyPagesStay DEF PageIs
    <3>2. Series' = Series /\ Erroneous' = Erroneous /\ Mapped' = Mapped
      BY <2>1 DEF Series, Erroneous, Mapped
    <3>3. Unusable' = Unusable /\ Usable' = Usable
      BY <2>1, <3>2 DEF Unusable, Usable
    <3>4. \A r : Canonical(r)' = Canonical(r)
      BY <2>1 DEF Canonical, Interval, Bounds, Midnight, EasternDate, UtcDate
    <3>5. \A s : RecordsOf(s)' = RecordsOf(s)
      BY DEF RecordsOf
    <3>6. Bars' = Bars
      BY <3>3, <3>4, <3>5 DEF Bars
    <3>7. RecordIssues' = RecordIssues
      BY <2>1, <3>2, <3>3, <3>4, <3>5 DEF RecordIssues, Issue
    <3>8. SeriesIssues' = SeriesIssues
      BY <2>1, <3>2 DEF SeriesIssues, Issue, NoRecord, NoSymbol
    <3>. QED BY <3>1, <3>3, <3>6, <3>7, <3>8 DEF Reported
  <2>5. CASE Ask
    <3>1. bstage = "ask" /\ bstage' \in {"page", "refused"}
      BY <2>5 DEF Ask
    <3>2. CASE Refuses
      BY <2>1, <2>2, <2>5, <3>1, <3>2 DEF Ask, BarInv, BarRequests
    <3>3. CASE ~Refuses
      <4>1. bstage' = "page" /\ PageIs'
        BY <2>3, <2>5, <3>3, AnyPagesStay DEF Ask, PageIs
      <4>. QED BY <2>1, <4>1 DEF BarInv, BarRequests
    <3>. QED BY <3>2, <3>3
  <2>6. CASE NormalizeBars
    <3>1. bstage = "page" /\ page' = page
      BY <2>6 DEF NormalizeBars
    <3>2. PageIs'
      BY <2>4, <3>1 DEF BarInv
    <3>3. \/ Unusable /\ bstage' = "raised"
          \/ ~Unusable /\ bstage' = "done" /\ bars' = Bars /\ bissues' = Reported
      BY <2>6 DEF NormalizeBars, Reported
    <3>. QED BY <2>1, <2>4, <3>1, <3>2, <3>3 DEF BarInv, BarRequests
  <2>7. CASE UNCHANGED bvars
    BY <2>1, <2>2, <2>4, <2>7 DEF BarInv, bvars, BarRequests
  <2>. QED BY <2>5, <2>6, <2>7 DEF BarNext
<1>. QED BY <1>1, <1>2, PTL DEF BarSpec

------------------------------------------------------------------------------
\* A request is a half-open interval, of daily bars or of verified intraday bars.
LEMMA RequestInterval ==
  ASSUME BarInv
  PROVE  /\ request.timeframe \in {"5m", "1d"} /\ request.session \in {"regular", "unknown"}
         /\ request.start \in Int /\ request.end \in Int /\ request.start < request.end
         /\ request.timeframe = "5m" => request.verified
         /\ request.verified \in BOOLEAN
<1>1. request \in BarRequests
  BY DEF BarInv
<1>2. request.start \in Points /\ request.end \in Points
  BY <1>1 DEF BarRequests
<1>3. Points \subseteq Int
  BY CalendarAssumption
<1>4. request.verified \in BOOLEAN
  BY <1>1, Zenon DEF BarRequests
<1>. QED BY <1>1, <1>2, <1>3, <1>4 DEF BarRequests

\* The session of a scheduled date is an interval of positive length.
LEMMA SessionIsInterval ==
  ASSUME NEW d \in SessionDates
  PROVE  /\ d \in Int /\ Bounds(d).from \in Int /\ Bounds(d).to \in Int
         /\ Bounds(d).from = d * Day + Offset + Open
         /\ Bounds(d).to \in {d * Day + Offset + EarlyClose, d * Day + Offset + Close}
         /\ Bounds(d).from < Bounds(d).to
BY CalendarAssumption DEF Bounds, Midnight

\* What Interval says of a record without an issue: its session, or its five minutes.
LEMMA IntervalCases ==
  ASSUME BarInv, NEW at, Interval(at).issue = "none"
  PROVE  LET i == Interval(at) IN
         IF request.timeframe = "1d"
           THEN /\ EasternDate(at) \in SessionDates /\ i.session = "regular"
                /\ i.from = Bounds(EasternDate(at)).from /\ i.to = Bounds(EasternDate(at)).to
           ELSE /\ i.from = at /\ i.to = at + Five /\ i.session = request.session
                /\ i.session = "regular" => \E d \in SessionDates :
                     ~(i.from < Bounds(d).from) /\ ~(i.to > Bounds(d).to)
<1>. DEFINE date == IF provider = "twelve_data" /\ request.timeframe = "5m" THEN UtcDate(at)
                    ELSE EasternDate(at)
            five == [from |-> at, to |-> at + Five, session |-> request.session, issue |-> "none"]
<1>1. request.timeframe \in {"5m", "1d"} /\ request.session \in {"regular", "unknown"}
  BY RequestInterval
<1>2. CASE request.timeframe = "5m" /\ request.session = "unknown"
  <2>1. Interval(at) = five
    BY <1>2 DEF Interval
  <2>. QED BY <1>2, <2>1
<1>3. CASE request.timeframe = "1d"
  <2>1. /\ EasternDate(at) \in SessionDates
        /\ Interval(at) = [from |-> Bounds(EasternDate(at)).from, to |-> Bounds(EasternDate(at)).to,
                           session |-> "regular", issue |-> "none"]
    BY <1>3 DEF Interval
  <2>. QED BY <1>3, <2>1
<1>4. CASE request.timeframe = "5m" /\ request.session = "regular"
  <2>1. /\ date \in SessionDates /\ Interval(at) = five
        /\ ~(at < Bounds(date).from) /\ ~(at + Five > Bounds(date).to)
    BY <1>4 DEF Interval
  <2>. HIDE DEF date
  <2>. QED BY <1>4, <2>1
<1>. QED BY <1>1, <1>2, <1>3, <1>4

\* A record that becomes a bar is a valid one, lies in the request, and is as Interval says.
LEMMA CanonicalCases ==
  ASSUME NEW r, r.valid \in BOOLEAN, Canonical(r).issue = "none"
  PROVE  /\ r.valid /\ Interval(r.at).issue = "none"
         /\ ~(Interval(r.at).from < request.start) /\ ~(Interval(r.at).to > request.end)
         /\ Canonical(r) = Interval(r.at)
<1>. DEFINE interval == Interval(r.at)
            outside == interval.from < request.start \/ interval.to > request.end
<1>1. Canonical(r) = CASE ~r.valid -> [interval EXCEPT !.issue = "malformed_record"]
                       [] r.valid /\ interval.issue # "none" -> interval
                       [] OTHER -> IF outside THEN [interval EXCEPT !.issue = "outside_requested_interval"]
                                   ELSE interval
  BY Zenon DEF Canonical
<1>2. "issue" \in DOMAIN interval
  BY DEF Interval
<1>. HIDE DEF interval
<1>3. CASE ~r.valid
  <2>1. Canonical(r) = [interval EXCEPT !.issue = "malformed_record"]
    BY <1>1, <1>3, Zenon
  <2>. QED BY <1>2, <2>1
<1>4. CASE r.valid /\ interval.issue # "none"
  <2>1. Canonical(r) = interval
    BY <1>1, <1>4, Zenon
  <2>. QED BY <1>4, <2>1
<1>5. CASE r.valid /\ interval.issue = "none" /\ outside
  <2>1. Canonical(r) = [interval EXCEPT !.issue = "outside_requested_interval"]
    BY <1>1, <1>5, Zenon
  <2>. QED BY <1>2, <2>1
<1>6. CASE r.valid /\ interval.issue = "none" /\ ~outside
  <2>1. Canonical(r) = interval
    BY <1>1, <1>6, Zenon
  <2>. QED BY <1>6, <2>1 DEF interval
<1>. QED BY <1>3, <1>4, <1>5, <1>6

\* A scheduled bar starts and ends with its session, or is five minutes of the grid.
LEMMA ScheduledBars ==
  ASSUME BarInv, NEW b \in Scheduled
  PROVE  \E d \in SessionDates :
           \/ request.timeframe = "1d" /\ b = Bounds(d)
           \/ /\ request.timeframe = "5m" /\ b = [from |-> b.from, to |-> b.from + Five]
              /\ b.from \in Bounds(d).from .. Bounds(d).to - Five
              /\ (b.from - Bounds(d).from) % Five = 0
<1>. request.timeframe \in {"5m", "1d"}
  BY DEF BarInv, BarRequests
<1>1. CASE request.timeframe = "1d"
  BY <1>1 DEF Scheduled
<1>2. CASE request.timeframe = "5m"
  <2>1. PICK d \in SessionDates : b \in {[from |-> t, to |-> t + Five] :
                 t \in {u \in Bounds(d).from .. Bounds(d).to - Five :
                          (u - Bounds(d).from) % Five = 0}}
    BY <1>2 DEF Scheduled
  <2>. QED BY <1>2, <2>1
<1>. QED BY <1>1, <1>2

\* The records of any page: times and flags.
LEMMA PageRecords ==
  ASSUME BarInv, PageIs
  PROVE  /\ \A s \in Series : \A r \in RecordsOf(s) : r.valid \in BOOLEAN /\ r.at \in Int
         /\ page.shape = "nameless" => Series = {}
<1>1. CASE page = HonestPage
  <2>1. /\ Series = Batch /\ page.shape = "series"
        /\ \A s \in Series : RecordsOf(s) = {Record(Stamp(b)) : b \in {c \in Scheduled : OnWire(Stamp(c))}}
    BY <1>1 DEF Series, HonestPage, RecordsOf, Entry
  <2>2. \A b \in Scheduled : Stamp(b) \in Int
    <3>. SUFFICES ASSUME NEW b \in Scheduled PROVE Stamp(b) \in Int
      OBVIOUS
    <3>1. b.from \in Int
      BY ScheduledBars, SessionIsInterval
    <3>. QED BY <3>1, CalendarAssumption DEF Stamp, Midnight, EasternDate
  <2>3. \A s \in Series : \A r \in RecordsOf(s) : r.valid = TRUE /\ r.at \in Int
    BY <2>1, <2>2 DEF Record
  <2>. QED BY <2>1, <2>3
<1>2. CASE page \in AnyPages
  <2>. DEFINE Some == {Record(u) : u \in Stamps} \cup {Malformed}
  <2>1. \A r \in Some : r.valid \in BOOLEAN /\ r.at \in Int
    <3>1. SUFFICES ASSUME NEW r \in Some PROVE r.valid \in BOOLEAN /\ r.at \in Int
      OBVIOUS
    <3>2. Stamps \subseteq Int
      BY CalendarAssumption
    <3>3. CASE \E u \in Stamps : r = Record(u)
      BY <3>2, <3>3 DEF Record
    <3>4. CASE r = Malformed
      BY <3>4 DEF Malformed
    <3>. QED BY <3>3, <3>4
  <2>2. \A e \in Entries : e.records \subseteq Some
    <3>1. SUFFICES ASSUME NEW e \in Entries PROVE e.records \subseteq Some
      OBVIOUS
    <3>. HIDE DEF Some
    <3>2. CASE \E R \in SUBSET Some : e = Entry("ok", R)
      BY <3>2 DEF Entry
    <3>3. CASE e = Entry("error", {}) \/ e = Entry("not_object", {})
      BY <3>3 DEF Entry
    <3>. QED BY <3>2, <3>3 DEF Entries, Some
  <2>. HIDE DEF Some
  <2>3. CASE \E f \in SeriesPages : page = [honest |-> FALSE, shape |-> "series", series |-> f]
    <3>1. PICK f \in SeriesPages : page = [honest |-> FALSE, shape |-> "series", series |-> f]
      BY <2>3
    <3>2. PICK S \in SUBSET Symbols : f \in [S -> Entries]
      BY DEF SeriesPages
    <3>3. page.series = f /\ page.shape = "series" /\ Series = S
      BY <3>1, <3>2 DEF Series
    <3>4. ASSUME NEW s \in Series PROVE RecordsOf(s) \subseteq Some
      <4>1. page.series[s] \in Entries
        BY <3>2, <3>3
      <4>. QED BY <2>2, <4>1 DEF RecordsOf
    <3>. QED BY <2>1, <3>3, <3>4
  <2>4. CASE \E shape \in {"nameless", "other"} :
                page = [honest |-> FALSE, shape |-> shape, series |-> [s \in {} |-> {}]]
    <3>1. Series = {}
      BY <2>4 DEF Series
    <3>. QED BY <3>1
  <2>. QED BY <1>2, <2>3, <2>4 DEF AnyPages
<1>. QED BY <1>1, <1>2 DEF PageIs

\* Which issues a page gives: of a record that is read, the reason it is no bar; of a
\* record Alpaca cannot map; of a series.
LEMMA ReportedRecords ==
  ASSUME NEW s, NEW r
  PROVE  /\ s \in Usable /\ r \in RecordsOf(s) /\ Canonical(r).issue # "none" =>
              Issue(s, r, Canonical(r).issue) \in Reported
         /\ provider = "alpaca" /\ s \in Series \ Mapped /\ r \in RecordsOf(s) =>
              Issue(s, r, "unmapped_instrument") \in Reported
<1>. DEFINE A == UNION {{Issue(z, x, Canonical(x).issue) :
                            x \in {q \in RecordsOf(z) : Canonical(q).issue # "none"}} : z \in Usable}
            B == UNION {{Issue(z, x, "unmapped_instrument") : x \in RecordsOf(z)} :
                          z \in IF provider = "alpaca" THEN Series \ Mapped ELSE {}}
<1>1. RecordIssues = A \cup B
  BY Zenon DEF RecordIssues
<1>2. s \in Usable /\ r \in RecordsOf(s) /\ Canonical(r).issue # "none" =>
        Issue(s, r, Canonical(r).issue) \in A
  OBVIOUS
<1>3. provider = "alpaca" /\ s \in Series \ Mapped /\ r \in RecordsOf(s) =>
        Issue(s, r, "unmapped_instrument") \in B
  OBVIOUS
<1>. HIDE DEF A, B
<1>. QED BY <1>1, <1>2, <1>3 DEF Reported

LEMMA ReportedSeries ==
  ASSUME provider = "twelve_data", NEW s
  PROVE  /\ s \in Series \ Mapped => Issue(s, NoRecord, "unmapped_instrument") \in Reported
         /\ s \in Erroneous \cap Mapped => Issue(s, NoRecord, "provider_response_error") \in Reported
         /\ s \in Batch \ Series => Issue(s, NoRecord, "provider_response_error") \in Reported
         /\ page.shape = "nameless" => Issue(NoSymbol, NoRecord, "provider_response_error") \in Reported
<1>. DEFINE T == (Erroneous \cap Mapped) \cup (Batch \ Series)
                   \cup (IF page.shape = "nameless" THEN {NoSymbol} ELSE {})
            U == {Issue(z, NoRecord, "unmapped_instrument") : z \in Series \ Mapped}
            E == {Issue(z, NoRecord, "provider_response_error") : z \in T}
<1>1. SeriesIssues = U \cup E
  BY Zenon DEF SeriesIssues
<1>2. /\ s \in Erroneous \cap Mapped => s \in T
      /\ s \in Batch \ Series => s \in T
      /\ page.shape = "nameless" => NoSymbol \in T
  OBVIOUS
<1>. HIDE DEF T
<1>3. s \in Series \ Mapped => Issue(s, NoRecord, "unmapped_instrument") \in U
  OBVIOUS
<1>4. \A z \in T : Issue(z, NoRecord, "provider_response_error") \in E
  OBVIOUS
<1>. HIDE DEF U, E
<1>. QED BY <1>1, <1>2, <1>3, <1>4 DEF Reported

\* An issue of a series that is read is of a record that is no bar.
LEMMA IssueOfRead ==
  ASSUME NEW i \in Reported, i.symbol \in Usable, page.shape = "nameless" => Series = {}
  PROVE  Canonical(i.record).issue # "none"
<1>1. /\ i.symbol \in Series /\ i.symbol \in Mapped /\ i.symbol \notin Erroneous
      /\ page.shape # "nameless"
  BY DEF Usable
<1>2. CASE i \in UNION {{Issue(z, x, Canonical(x).issue) :
                x \in {q \in RecordsOf(z) : Canonical(q).issue # "none"}} : z \in Usable}
  <2>1. PICK z \in Usable : i \in {Issue(z, x, Canonical(x).issue) :
                x \in {q \in RecordsOf(z) : Canonical(q).issue # "none"}}
    BY <1>2
  <2>2. PICK x \in RecordsOf(z) : Canonical(x).issue # "none" /\ i = Issue(z, x, Canonical(x).issue)
    BY <2>1
  <2>3. i.record = x
    BY <2>2 DEF Issue
  <2>. QED BY <2>2, <2>3
<1>3. CASE i \in UNION {{Issue(z, x, "unmapped_instrument") : x \in RecordsOf(z)} :
                          z \in IF provider = "alpaca" THEN Series \ Mapped ELSE {}}
  <2>1. PICK z \in Series \ Mapped : i \in {Issue(z, x, "unmapped_instrument") : x \in RecordsOf(z)}
    BY <1>3
  <2>2. i.symbol = z
    BY <2>1 DEF Issue
  <2>. QED BY <1>1, <2>2
<1>4. CASE i \in SeriesIssues
  <2>1. \/ i \in {Issue(z, NoRecord, "unmapped_instrument") : z \in Series \ Mapped}
        \/ i \in {Issue(z, NoRecord, "provider_response_error") :
                    z \in (Erroneous \cap Mapped) \cup (Batch \ Series)}
    BY <1>1, <1>4 DEF SeriesIssues
  <2>. QED BY <1>1, <2>1 DEF Issue
<1>. QED BY <1>2, <1>3, <1>4 DEF Reported, RecordIssues

\* What a page becomes accounts for it.
LEMMA BarsAccountForThePage ==
  ASSUME BarInv PROVE BarsAccounted
<1>. SUFFICES ASSUME bstage = "done"
              PROVE  BarsAccounted
  BY DEF BarsAccounted
<1>1. PageIs /\ bars = Bars /\ bissues = Reported
  BY DEF BarInv
<1>. DEFINE bar(s, r) == [symbol |-> s, record |-> r, from |-> Canonical(r).from,
                          to |-> Canonical(r).to, session |-> Canonical(r).session]
<1>2. \A b \in bars : \E s \in Usable : \E r \in RecordsOf(s) :
        Canonical(r).issue = "none" /\ b = bar(s, r)
  BY <1>1 DEF Bars
<1>3. \A s \in Usable : \A r \in RecordsOf(s) :
        Canonical(r).issue = "none" => bar(s, r) \in bars
  BY <1>1 DEF Bars
<1>4. \A s, r : bar(s, r).symbol = s /\ bar(s, r).record = r
  OBVIOUS
<1>5. /\ \A s \in Series : \A r \in RecordsOf(s) : r.valid \in BOOLEAN /\ r.at \in Int
      /\ page.shape = "nameless" => Series = {}
  BY <1>1, PageRecords
<1>6. Usable \subseteq Series
  BY DEF Usable
<1>7. \A s, r, code : /\ Issue(s, r, code).symbol = s
                      /\ Issue(s, r, code).record = r
  BY DEF Issue
<1>8. ASSUME NEW b \in bars
      PROVE  /\ b.symbol \in Usable /\ b.record \in RecordsOf(b.symbol) /\ b.record.valid
             /\ request.start <= b.from /\ b.to <= request.end
             /\ Own(b)
  <2>1. PICK s \in Usable : \E r \in RecordsOf(s) : Canonical(r).issue = "none" /\ b = bar(s, r)
    BY <1>2
  <2>2. PICK r \in RecordsOf(s) : Canonical(r).issue = "none" /\ b = bar(s, r)
    BY <2>1
  <2>3. r.valid \in BOOLEAN /\ r.at \in Int
    BY <1>5, <1>6
  <2>4. /\ r.valid /\ Interval(r.at).issue = "none" /\ Canonical(r) = Interval(r.at)
        /\ ~(Interval(r.at).from < request.start) /\ ~(Interval(r.at).to > request.end)
    BY <2>2, <2>3, CanonicalCases
  <2>5. /\ b.symbol = s /\ b.record = r
        /\ b.from = Interval(r.at).from /\ b.to = Interval(r.at).to
        /\ b.session = Interval(r.at).session
    BY <2>2, <2>4
  <2>. HIDE DEF bar
  <2>6. IF request.timeframe = "1d"
          THEN /\ EasternDate(r.at) \in SessionDates /\ b.session = "regular"
               /\ b.from = Bounds(EasternDate(r.at)).from /\ b.to = Bounds(EasternDate(r.at)).to
          ELSE /\ b.from = r.at /\ b.to = r.at + Five /\ b.session = request.session
               /\ b.session = "regular" => \E d \in SessionDates :
                    ~(b.from < Bounds(d).from) /\ ~(b.to > Bounds(d).to)
    BY <2>4, <2>5, IntervalCases
  <2>7. request.start \in Int /\ request.end \in Int /\ Five \in Nat
    BY RequestInterval, CalendarAssumption
  <2>8. b.from \in Int /\ b.to \in Int
    BY <2>3, <2>6, <2>7, SessionIsInterval
  <2>9. request.start <= b.from /\ b.to <= request.end
    BY <2>4, <2>5, <2>7, <2>8
  <2>10. Own(b)
    <3>1. CASE request.timeframe = "1d"
      <4>1. [from |-> b.from, to |-> b.to] = Bounds(EasternDate(r.at))
        BY <2>6, <3>1 DEF Bounds
      <4>. QED BY <2>5, <2>6, <3>1, <4>1 DEF Own
    <3>2. CASE request.timeframe # "1d"
      <4>1. \A d \in SessionDates : ~(b.from < Bounds(d).from) /\ ~(b.to > Bounds(d).to) =>
                                     Bounds(d).from <= b.from /\ b.to <= Bounds(d).to
        BY <2>8, SessionIsInterval
      <4>. QED BY <2>5, <2>6, <3>2, <4>1 DEF Own
    <3>. QED BY <3>1, <3>2
  <2>. QED BY <2>2, <2>4, <2>5, <2>9, <2>10
<1>. HIDE DEF bar
<1>9. ASSUME NEW s \in Usable, NEW r \in RecordsOf(s)
      PROVE  HasBar(s, r) <=> ~HasIssue(s, r)
  <2>1. CASE Canonical(r).issue = "none"
    <3>1. HasBar(s, r)
      BY <1>3, <1>4, <2>1 DEF HasBar
    <3>2. ~HasIssue(s, r)
      BY <1>1, <1>5, <2>1, IssueOfRead DEF HasIssue
    <3>. QED BY <3>1, <3>2
  <2>2. CASE Canonical(r).issue # "none"
    <3>1. HasIssue(s, r)
      BY <1>1, <1>7, <2>2, ReportedRecords DEF HasIssue
    <3>2. ~HasBar(s, r)
      BY <1>2, <1>4, <2>2 DEF HasBar
    <3>. QED BY <3>1, <3>2
  <2>. QED BY <2>1, <2>2
<1>10. ~Unusable
  BY DEF BarInv
<1>11. ASSUME NEW s \in Series \ Usable
       PROVE  IF provider = "alpaca" THEN \A r \in RecordsOf(s) : HasIssue(s, r)
                                     ELSE HasIssue(s, NoRecord)
  <2>1. s \in Series \ Mapped \/ s \in Erroneous \cap Mapped
    BY DEF Usable, Erroneous
  <2>2. CASE provider = "alpaca"
    <3>1. Erroneous = {}
      BY <1>10, <2>2 DEF Unusable
    <3>2. \A r \in RecordsOf(s) : HasIssue(s, r)
      BY <1>1, <1>7, <2>1, <2>2, <3>1, ReportedRecords DEF HasIssue
    <3>. QED BY <2>2, <3>2
  <2>3. CASE provider = "massive"
    <3>1. Erroneous = {} /\ Series = Batch /\ Mapped = Batch
      BY <1>10, <2>3 DEF Unusable, Mapped
    <3>. QED BY <2>1, <3>1
  <2>4. CASE provider = "twelve_data"
    <3>1. HasIssue(s, NoRecord)
      BY <1>1, <1>7, <2>1, <2>4, ReportedSeries DEF HasIssue
    <3>. QED BY <2>4, <3>1
  <2>. QED BY <2>2, <2>3, <2>4 DEF BarInv
<1>12. ASSUME provider = "twelve_data", NEW s \in Batch \ Series
       PROVE  HasIssue(s, NoRecord)
  BY <1>1, <1>7, <1>12, ReportedSeries DEF HasIssue
<1>13. ASSUME page.shape = "nameless"
       PROVE  HasIssue(NoSymbol, NoRecord)
  <2>1. provider = "twelve_data"
    <3>1. provider # "alpaca"
      BY <1>10, <1>13 DEF Unusable
    <3>2. provider # "massive"
      <4>1. Series = {} /\ Batch # {}
        BY <1>5, <1>13, CalendarAssumption
      <4>. QED BY <1>10, <4>1 DEF Unusable
    <3>. QED BY <3>1, <3>2 DEF BarInv
  <2>. QED BY <1>1, <1>7, <1>13, <2>1, ReportedSeries DEF HasIssue
<1>. QED BY <1>8, <1>9, <1>11, <1>12, <1>13 DEF BarsAccounted

\* BarsAccounted for every calendar and every page: a bar is the one its record may become
\* and lies in the request, a record that is read has that bar or an issue and never both,
\* and a series, a symbol or an envelope that gives nothing is reported.
THEOREM EverythingIsAccountedFor == BarSpec => []BarsAccounted
BY BarInvAlways, BarsAccountForThePage, PTL

------------------------------------------------------------------------------
\* Quotients and remainders.
LEMMA Division ==
  ASSUME NEW t \in Int, NEW u \in Nat \ {0}
  PROVE  /\ t \div u \in Int /\ t % u \in Int
         /\ u * (t \div u) <= t /\ t < u * (t \div u) + u /\ t % u = t - u * (t \div u)
OBVIOUS

LEMMA Quotient ==
  ASSUME NEW t \in Int, NEW u \in Nat \ {0}, NEW k \in Int, u * k <= t, t < u * k + u
  PROVE  t \div u = k
OBVIOUS

LEMMA Products ==
  ASSUME NEW u \in Nat \ {0}, NEW k \in Int, NEW l \in Int
  PROVE  /\ k * u = u * k /\ u * k \in Int /\ (k - 1) * u = u * k - u
         /\ k <= l => u * k <= u * l
OBVIOUS

LEMMA Quotients ==
  ASSUME NEW u \in Nat \ {0}, NEW k \in Int, NEW l \in Int, u * k < u * l + u
  PROVE  k <= l
OBVIOUS

LEMMA Multiples ==
  ASSUME NEW t \in Int, NEW u \in Nat \ {0}, t % u = 0
  PROVE  \E k \in Int : t = u * k
<1>1. t \div u \in Int /\ u * (t \div u) \in Int /\ t % u = t - u * (t \div u)
  BY Division, Products
<1>2. t = u * (t \div u)
  BY <1>1
<1>. QED BY <1>1, <1>2

\* Times that are a multiple of the unit apart leave the same remainder from a third.
LEMMA SameGrid ==
  ASSUME NEW t \in Int, NEW a \in Int, NEW b \in Int, NEW u \in Nat \ {0}, (b - a) % u = 0
  PROVE  (t - a) % u = 0 <=> (t - b) % u = 0
<1>1. PICK k \in Int : b - a = u * k
  BY Multiples
<1>2. ASSUME (t - a) % u = 0 PROVE (t - b) % u = 0
  <2>1. PICK l \in Int : t - a = u * l
    BY <1>2, Multiples
  <2>2. t - b = u * (l - k)
    <3>1. u * (l - k) = u * l - u * k
      OBVIOUS
    <3>. QED BY <1>1, <2>1, <3>1
  <2>3. (t - b) \div u = l - k
    BY <2>2, Quotient
  <2>. QED BY <2>2, <2>3, Division
<1>3. ASSUME (t - b) % u = 0 PROVE (t - a) % u = 0
  <2>1. PICK l \in Int : t - b = u * l
    BY <1>3, Multiples
  <2>2. t - a = u * (l + k)
    <3>1. u * (l + k) = u * l + u * k
      OBVIOUS
    <3>. QED BY <1>1, <2>1, <3>1
  <2>3. (t - a) \div u = l + k
    BY <2>2, Quotient
  <2>. QED BY <2>2, <2>3, Division
<1>. QED BY <1>2, <1>3

\* The precision of the wire rounds the start down and the end up, by less than a unit.
LEMMA Rounding ==
  ASSUME NEW t \in Int, NEW u \in Nat \ {0}
  PROVE  /\ Floor(t, u) \in Int /\ Floor(t, u) * u \in Int /\ Floor(t, u) * u <= t
         /\ Ceiling(t, u) \in Int /\ Ceiling(t, u) * u \in Int /\ t <= Ceiling(t, u) * u
         /\ (Ceiling(t, u) - 1) * u \in Int /\ t - u <= (Ceiling(t, u) - 1) * u
<1>1. /\ Floor(t, u) \in Int /\ Floor(t, u) * u = u * Floor(t, u)
      /\ u * Floor(t, u) \in Int /\ u * Floor(t, u) <= t
  BY Division, Products DEF Floor
<1>2. /\ Ceiling(t, u) \in Int /\ u * Ceiling(t, u) <= t + u - 1 /\ t + u - 1 < u * Ceiling(t, u) + u
  BY Division DEF Ceiling
<1>3. /\ Ceiling(t, u) * u = u * Ceiling(t, u) /\ u * Ceiling(t, u) \in Int
      /\ (Ceiling(t, u) - 1) * u = u * Ceiling(t, u) - u
  BY <1>2, Products
<1>. HIDE DEF Floor, Ceiling
<1>. QED BY <1>1, <1>2, <1>3

\* The hours of a session have the same date in New York and in UTC.
LEMMA SameDate ==
  ASSUME NEW d \in Int, NEW x \in Int, 0 <= x, x + Offset < Day
  PROVE  /\ Midnight(d) + x \in Int /\ EasternDate(Midnight(d) + x) = d
         /\ UtcDate(Midnight(d) + x) = d
<1>1. Day \in Nat \ {0} /\ Offset \in Nat
  BY CalendarAssumption
<1>2. d * Day = Day * d /\ Day * d \in Int
  BY <1>1, Products
<1>3. (Day * d + x) \div Day = d
  BY <1>1, <1>2, Quotient
<1>4. (Day * d + Offset + x) \div Day = d
  BY <1>1, <1>2, Quotient
<1>5. Midnight(d) + x - Offset = Day * d + x
  BY <1>1, <1>2 DEF Midnight
<1>. QED BY <1>1, <1>2, <1>3, <1>4, <1>5 DEF Midnight, EasternDate, UtcDate

\* The stamp of a scheduled bar, on the date of its session.
LEMMA StampOf ==
  ASSUME BarInv, NEW b \in Scheduled
  PROVE  \E d \in SessionDates :
           /\ d \in Int /\ Midnight(d) \in Int /\ UtcDate(Midnight(d)) = d /\ EasternDate(Midnight(d)) = d
           /\ Bounds(d).from \in Int /\ Bounds(d).to \in Int
           /\ Bounds(d).from = Midnight(d) + Open /\ Bounds(d).from < Bounds(d).to
           /\ b.from \in Int /\ b.to \in Int /\ b.from < b.to /\ Stamp(b) \in Int
           /\ EasternDate(b.from) = d /\ UtcDate(b.from) = d /\ EasternDate(Stamp(b)) = d
           /\ \/ request.timeframe = "1d" /\ b = Bounds(d) /\ Stamp(b) = Midnight(d)
              \/ /\ request.timeframe = "5m" /\ Stamp(b) = b.from /\ b.to = b.from + Five
                 /\ Bounds(d).from <= b.from /\ b.to <= Bounds(d).to
                 /\ (b.from - Bounds(d).from) % Five = 0
<1>1. PICK d \in SessionDates :
           \/ request.timeframe = "1d" /\ b = Bounds(d)
           \/ /\ request.timeframe = "5m" /\ b = [from |-> b.from, to |-> b.from + Five]
              /\ b.from \in Bounds(d).from .. Bounds(d).to - Five
              /\ (b.from - Bounds(d).from) % Five = 0
  BY ScheduledBars
<1>2. /\ d \in Int /\ Bounds(d).from \in Int /\ Bounds(d).to \in Int
      /\ Bounds(d).from < Bounds(d).to
      /\ Bounds(d).from = d * Day + Offset + Open /\ Bounds(d).to <= d * Day + Offset + Close
  BY SessionIsInterval, CalendarAssumption
<1>3. /\ Day \in Nat \ {0} /\ Offset \in Nat /\ Five \in Nat \ {0} /\ Open \in Nat /\ Close \in Nat
      /\ 0 < Open /\ Open < Close /\ Close + Offset <= Day
  BY CalendarAssumption
<1>4. Midnight(d) = d * Day + Offset /\ Midnight(d) \in Int
  BY <1>2, <1>3 DEF Midnight
<1>5. EasternDate(Midnight(d)) = d /\ UtcDate(Midnight(d)) = d
  <2>1. EasternDate(Midnight(d) + 0) = d /\ UtcDate(Midnight(d) + 0) = d
    BY <1>2, <1>3, SameDate
  <2>. QED BY <1>4, <2>1
<1>6. CASE request.timeframe = "1d" /\ b = Bounds(d)
  <2>1. EasternDate(b.from) = d /\ UtcDate(b.from) = d
    <3>1. EasternDate(Midnight(d) + Open) = d /\ UtcDate(Midnight(d) + Open) = d
      BY <1>2, <1>3, SameDate
    <3>. QED BY <1>2, <1>4, <1>6, <3>1
  <2>2. Stamp(b) = Midnight(d)
    BY <1>6, <2>1 DEF Stamp
  <2>. QED BY <1>2, <1>4, <1>5, <1>6, <2>1, <2>2
<1>7. CASE /\ request.timeframe = "5m" /\ b = [from |-> b.from, to |-> b.from + Five]
           /\ b.from \in Bounds(d).from .. Bounds(d).to - Five
           /\ (b.from - Bounds(d).from) % Five = 0
  <2>1. b.from \in Int /\ b.to = b.from + Five /\ Bounds(d).from <= b.from /\ b.to <= Bounds(d).to
    BY <1>2, <1>3, <1>7
  <2>2. EasternDate(b.from) = d /\ UtcDate(b.from) = d
    <3>. DEFINE x == b.from - Midnight(d)
    <3>1. x \in Int /\ 0 <= x /\ x + Offset < Day /\ Midnight(d) + x = b.from
      BY <1>2, <1>3, <1>4, <2>1
    <3>. HIDE DEF x
    <3>2. EasternDate(Midnight(d) + x) = d /\ UtcDate(Midnight(d) + x) = d
      BY <1>2, <3>1, SameDate
    <3>. QED BY <3>1, <3>2
  <2>3. Stamp(b) = b.from
    BY <1>7 DEF Stamp
  <2>4. b.to \in Int /\ b.from < b.to
    BY <2>1, <1>3
  <2>5. /\ d \in Int /\ Midnight(d) \in Int /\ UtcDate(Midnight(d)) = d /\ EasternDate(Midnight(d)) = d
        /\ Bounds(d).from = Midnight(d) + Open
    BY <1>2, <1>4, <1>5
  <2>. QED BY <1>2, <1>7, <2>1, <2>2, <2>3, <2>4, <2>5
<1>. QED BY <1>1, <1>6, <1>7

\* The normaliser reads a scheduled bar back from its stamp.
LEMMA ScheduledIsRead ==
  ASSUME BarInv, request.verified, NEW b \in Scheduled
  PROVE  /\ Interval(Stamp(b)).issue = "none"
         /\ Interval(Stamp(b)).from = b.from /\ Interval(Stamp(b)).to = b.to
<1>1. PICK d \in SessionDates :
           /\ EasternDate(b.from) = d /\ UtcDate(b.from) = d /\ EasternDate(Stamp(b)) = d
           /\ Bounds(d).from \in Int /\ Bounds(d).to \in Int
           /\ b.from \in Int /\ b.to \in Int
           /\ \/ request.timeframe = "1d" /\ b = Bounds(d) /\ Stamp(b) = Midnight(d)
              \/ /\ request.timeframe = "5m" /\ Stamp(b) = b.from /\ b.to = b.from + Five
                 /\ Bounds(d).from <= b.from /\ b.to <= Bounds(d).to
  BY StampOf
<1>. DEFINE at == Stamp(b)
            date == IF provider = "twelve_data" /\ request.timeframe = "5m" THEN UtcDate(at)
                    ELSE EasternDate(at)
            five == [from |-> at, to |-> at + Five, session |-> request.session, issue |-> "none"]
<1>2. CASE request.timeframe = "1d"
  <2>1. date = d
    BY <1>1, <1>2
  <2>. HIDE DEF date
  <2>2. Interval(at) = [from |-> Bounds(d).from, to |-> Bounds(d).to,
                        session |-> "regular", issue |-> "none"]
    BY <1>2, <2>1 DEF Interval, date
  <2>. QED BY <1>1, <1>2, <2>2
<1>3. CASE request.timeframe = "5m"
  <2>1. date = d /\ at = b.from /\ at + Five = b.to
    BY <1>1, <1>3
  <2>2. Interval(at) = five
    <3>1. CASE request.session = "unknown"
      BY <1>3, <3>1 DEF Interval
    <3>2. CASE request.session = "regular"
      <4>1. date \in SessionDates /\ ~(at < Bounds(date).from) /\ ~(at + Five > Bounds(date).to)
        BY <1>1, <1>3, <2>1
      <4>. QED BY <1>3, <3>2, <4>1 DEF Interval
    <3>. QED BY <3>1, <3>2, RequestInterval
  <2>. QED BY <2>1, <2>2
<1>. QED BY <1>2, <1>3, RequestInterval

\* Nothing of the request is lost on the wire but a daily bar stamped before it.
LEMMA WireReaches ==
  ASSUME BarInv, NEW w \in Wanted,
         request.timeframe = "5m" \/ provider = "twelve_data" \/ request.start <= Stamp(w)
  PROVE  OnWire(Stamp(w))
<1>. DEFINE at == Stamp(w)
            start == request.start
            end == request.end
<1>1. w \in Scheduled /\ start <= w.from /\ w.to <= end
  BY DEF Wanted
<1>2. PICK d \in SessionDates :
           /\ d \in Int /\ Midnight(d) \in Int /\ UtcDate(Midnight(d)) = d /\ EasternDate(Midnight(d)) = d
           /\ Bounds(d).from \in Int /\ Bounds(d).to \in Int
           /\ Bounds(d).from = Midnight(d) + Open /\ Bounds(d).from < Bounds(d).to
           /\ w.from \in Int /\ w.to \in Int /\ at \in Int /\ EasternDate(at) = d /\ UtcDate(w.from) = d
           /\ \/ request.timeframe = "1d" /\ w = Bounds(d) /\ at = Midnight(d)
              \/ request.timeframe = "5m" /\ at = w.from /\ w.to = w.from + Five
  BY <1>1, StampOf
<1>3. /\ start \in Int /\ end \in Int /\ request.timeframe \in {"5m", "1d"}
      /\ provider \in {"alpaca", "massive", "twelve_data"}
  BY RequestInterval DEF BarInv
<1>4. /\ Five \in Nat \ {0} /\ Milli \in Nat \ {0} /\ Second \in Nat \ {0} /\ Day \in Nat \ {0}
      /\ Open \in Nat /\ Milli <= Five /\ Milli <= Open /\ 0 < Open
  BY CalendarAssumption
<1>5. at <= end - Milli /\ at < end
  BY <1>1, <1>2, <1>3, <1>4
<1>6. CASE provider = "alpaca"
  <2>1. start <= at /\ at <= end - 1
    BY <1>1, <1>2, <1>3, <1>5, <1>6
  <2>. QED BY <1>6, <2>1 DEF OnWire
<1>7. CASE provider = "massive"
  <2>1. start <= at
    BY <1>1, <1>2, <1>7
  <2>0. /\ Floor(start, Milli) * Milli \in Int /\ Floor(start, Milli) * Milli <= start
        /\ (Ceiling(end, Milli) - 1) * Milli \in Int /\ end - Milli <= (Ceiling(end, Milli) - 1) * Milli
    BY <1>3, <1>4, Rounding
  <2>2. Floor(start, Milli) * Milli <= at
    BY <1>2, <1>3, <2>0, <2>1
  <2>3. at <= (Ceiling(end, Milli) - 1) * Milli
    BY <1>2, <1>3, <1>4, <1>5, <2>0
  <2>. QED BY <1>7, <2>2, <2>3 DEF OnWire
<1>8. CASE provider = "twelve_data" /\ request.timeframe = "1d"
  <2>1. /\ UtcDate(start) \in Int /\ UtcDate(end - 1) \in Int
        /\ Day * UtcDate(start) <= start /\ end - 1 < Day * UtcDate(end - 1) + Day
        /\ Day * d <= w.from /\ w.from < Day * d + Day /\ Day * d <= Midnight(d)
    <3>1. UtcDate(start) \in Int /\ Day * UtcDate(start) <= start
      BY <1>3, <1>4, Division DEF UtcDate
    <3>2. end - 1 \in Int
      BY <1>3
    <3>3. UtcDate(end - 1) \in Int /\ end - 1 < Day * UtcDate(end - 1) + Day
      BY <1>4, <3>2, Division DEF UtcDate
    <3>4. Day * d <= w.from /\ w.from < Day * d + Day
      BY <1>2, <1>4, Division DEF UtcDate
    <3>5. Day * d <= Midnight(d)
      BY <1>2, <1>4, Division DEF UtcDate
    <3>. QED BY <3>1, <3>3, <3>4, <3>5
  <2>2. UtcDate(start) <= d
    <3>1. Day * UtcDate(start) < Day * d + Day
      BY <1>1, <1>2, <1>3, <1>4, <2>1, Products
    <3>. QED BY <1>2, <1>4, <2>1, <3>1, Quotients
  <2>3. d <= UtcDate(end - 1)
    <3>1. Midnight(d) <= end - 1
      BY <1>2, <1>3, <1>5, <1>8
    <3>2. Day * d < Day * UtcDate(end - 1) + Day
      BY <1>2, <1>3, <1>4, <2>1, <3>1, Products
    <3>. QED BY <1>2, <1>4, <2>1, <3>2, Quotients
  <2>. QED BY <1>2, <1>8, <2>1, <2>2, <2>3 DEF OnWire
<1>9. CASE provider = "twelve_data" /\ request.timeframe = "5m"
  <2>1. start <= at /\ at < end
    BY <1>1, <1>2, <1>5, <1>9
  <2>0. /\ Floor(start, Second) * Second \in Int /\ Floor(start, Second) * Second <= start
        /\ Ceiling(end, Second) * Second \in Int /\ end <= Ceiling(end, Second) * Second
    BY <1>3, <1>4, Rounding
  <2>2. Floor(start, Second) * Second <= at /\ at < Ceiling(end, Second) * Second
    BY <1>2, <1>3, <2>0, <2>1
  <2>. QED BY <1>9, <2>2 DEF OnWire
<1>. QED BY <1>3, <1>6, <1>7, <1>8, <1>9

\* What the comparison expects of a window on the grid are the bars the request wants.
LEMMA ExpectedIsWanted ==
  ASSUME BarInv, Aligned
  PROVE  Expected = {w.from : w \in Wanted}
<1>1. request.start \in Int /\ request.end \in Int /\ request.timeframe \in {"5m", "1d"}
  BY RequestInterval
<1>2. CASE request.timeframe = "1d"
  <2>1. Scheduled = {Bounds(d) : d \in SessionDates}
    BY <1>2 DEF Scheduled
  <2>2. ASSUME NEW d \in SessionDates
        PROVE  /\ request.start <= Bounds(d).from /\ Bounds(d).from < request.end
                  /\ Bounds(d).to <= request.end
               <=> request.start <= Bounds(d).from /\ Bounds(d).to <= request.end
    BY <1>1, SessionIsInterval
  <2>3. Expected = {Bounds(d).from : d \in {e \in SessionDates :
            /\ request.start <= Bounds(e).from /\ Bounds(e).from < request.end
            /\ Bounds(e).to <= request.end}}
    BY <1>2 DEF Expected
  <2>4. ASSUME NEW t \in Expected PROVE t \in {w.from : w \in Wanted}
    <3>1. PICK d \in SessionDates : /\ t = Bounds(d).from /\ request.start <= Bounds(d).from
                                    /\ Bounds(d).to <= request.end
      BY <2>3
    <3>2. Bounds(d) \in Wanted
      BY <2>1, <3>1 DEF Wanted
    <3>. QED BY <3>1, <3>2
  <2>5. ASSUME NEW w \in Wanted PROVE w.from \in Expected
    <3>1. w \in Scheduled /\ request.start <= w.from /\ w.to <= request.end
      BY DEF Wanted
    <3>2. PICK d \in SessionDates : w = Bounds(d)
      BY <2>1, <3>1
    <3>. QED BY <2>2, <2>3, <3>1, <3>2
  <2>. QED BY <2>4, <2>5
<1>3. CASE request.timeframe = "5m"
  <2>1. Five \in Nat \ {0}
    BY CalendarAssumption
  <2>2. ASSUME NEW d \in SessionDates
        PROVE  /\ Bounds(d).from \in Int /\ Bounds(d).to \in Int
               /\ Overlap(d).from \in Int /\ Overlap(d).to \in Int
               /\ Overlap(d).from >= request.start /\ Overlap(d).from >= Bounds(d).from
               /\ Overlap(d).to <= request.end /\ Overlap(d).to <= Bounds(d).to
               /\ Overlap(d).from \in {request.start, Bounds(d).from}
               /\ Overlap(d).to \in {request.end, Bounds(d).to}
               /\ Overlap(d).from < Overlap(d).to => (Overlap(d).from - Bounds(d).from) % Five = 0
    <3>1. Bounds(d).from \in Int /\ Bounds(d).to \in Int
      BY SessionIsInterval
    <3>2. Overlap(d).from < Overlap(d).to => (Overlap(d).from - Bounds(d).from) % Five = 0
      BY <1>3 DEF Aligned
    <3>3. /\ Overlap(d).from = IF request.start > Bounds(d).from THEN request.start ELSE Bounds(d).from
          /\ Overlap(d).to = IF request.end < Bounds(d).to THEN request.end ELSE Bounds(d).to
      BY DEF Overlap
    <3>. QED BY <1>1, <3>1, <3>2, <3>3
  <2>3. Expected = UNION {{t \in Overlap(d).from .. Overlap(d).to - Five :
                             (t - Overlap(d).from) % Five = 0} : d \in SessionDates}
    BY <1>3 DEF Expected
  <2>4. Scheduled = UNION {{[from |-> t, to |-> t + Five] :
                 t \in {u \in Bounds(d).from .. Bounds(d).to - Five :
                          (u - Bounds(d).from) % Five = 0}} : d \in SessionDates}
    BY <1>3 DEF Scheduled
  <2>5. ASSUME NEW t \in Expected PROVE t \in {w.from : w \in Wanted}
    <3>1. PICK d \in SessionDates : /\ t \in Overlap(d).from .. Overlap(d).to - Five
                                    /\ (t - Overlap(d).from) % Five = 0
      BY <2>3
    <3>2. t \in Int /\ t >= Overlap(d).from /\ t + Five <= Overlap(d).to
      BY <2>1, <2>2, <3>1
    <3>3. (Overlap(d).from - Bounds(d).from) % Five = 0
      BY <2>1, <2>2, <3>2
    <3>4. (t - Bounds(d).from) % Five = 0
      BY <2>1, <2>2, <3>1, <3>2, <3>3, SameGrid
    <3>5. t \in Bounds(d).from .. Bounds(d).to - Five /\ request.start <= t /\ t + Five <= request.end
      BY <1>1, <2>1, <2>2, <3>2
    <3>. DEFINE w == [from |-> t, to |-> t + Five]
    <3>6. w \in Scheduled
      BY <2>4, <3>4, <3>5
    <3>7. w \in Wanted /\ w.from = t
      BY <3>5, <3>6 DEF Wanted
    <3>. QED BY <3>7
  <2>6. ASSUME NEW w \in Wanted PROVE w.from \in Expected
    <3>1. w \in Scheduled /\ request.start <= w.from /\ w.to <= request.end
      BY DEF Wanted
    <3>2. PICK d \in SessionDates : /\ w.from \in Int /\ w.to = w.from + Five
                                    /\ Bounds(d).from <= w.from /\ w.to <= Bounds(d).to
                                    /\ (w.from - Bounds(d).from) % Five = 0
      BY <1>3, <3>1, StampOf
    <3>3. w.from >= Overlap(d).from /\ w.from + Five <= Overlap(d).to
      BY <1>1, <2>1, <2>2, <3>1, <3>2
    <3>4. (Overlap(d).from - Bounds(d).from) % Five = 0
      BY <2>1, <2>2, <3>2, <3>3
    <3>5. (w.from - Overlap(d).from) % Five = 0
      BY <2>1, <2>2, <3>2, <3>4, SameGrid
    <3>6. w.from \in Overlap(d).from .. Overlap(d).to - Five
      BY <2>1, <2>2, <3>2, <3>3
    <3>. QED BY <2>3, <3>5, <3>6
  <2>. QED BY <2>5, <2>6
<1>. QED BY <1>1, <1>2, <1>3

LEMMA HonestPages ==
  ASSUME PageIs, page.honest PROVE page = HonestPage
<1>1. ASSUME NEW p \in AnyPages PROVE p.honest = FALSE
  BY DEF AnyPages
<1>. QED BY <1>1, Zenon DEF PageIs

\* The bars an honest page gives a symbol: the wanted ones the wire asks for.
Arrived(s) == {b.from : b \in {c \in bars : c.symbol = s}}

LEMMA ArrivedBars ==
  ASSUME BarInv, bstage = "done", page.honest, request.verified, NEW s \in Batch
  PROVE  Arrived(s) = {w.from : w \in {v \in Wanted : OnWire(Stamp(v))}}
<1>1. page = HonestPage /\ bars = Bars
  BY HonestPages DEF BarInv
<1>2. /\ Series = Batch
      /\ \A z \in Batch : /\ page.series[z].status = "ok"
                          /\ RecordsOf(z) = {Record(Stamp(b)) : b \in {c \in Scheduled : OnWire(Stamp(c))}}
  BY <1>1 DEF Series, HonestPage, RecordsOf, Entry
<1>3. Erroneous = {}
  BY <1>2 DEF Erroneous
<1>4. Batch \subseteq Mapped
  BY CalendarAssumption DEF Mapped
<1>5. Usable = Batch
  BY <1>2, <1>3, <1>4 DEF Usable
<1>. DEFINE bar(z, r) == [symbol |-> z, record |-> r, from |-> Canonical(r).from,
                          to |-> Canonical(r).to, session |-> Canonical(r).session]
<1>6. \A c : c \in bars <=> \E z \in Batch : \E r \in RecordsOf(z) :
                              Canonical(r).issue = "none" /\ c = bar(z, r)
  BY <1>1, <1>5 DEF Bars
<1>7. \A z, r : bar(z, r).symbol = z /\ bar(z, r).from = Canonical(r).from
  OBVIOUS
<1>. HIDE DEF bar
<1>8. \A t : t \in Arrived(s) <=> \E r \in RecordsOf(s) :
                                     Canonical(r).issue = "none" /\ t = Canonical(r).from
  BY <1>6, <1>7 DEF Arrived
<1>9. \A t : t \in Arrived(s) <=> \E b \in Scheduled :
                /\ OnWire(Stamp(b)) /\ Canonical(Record(Stamp(b))).issue = "none"
                /\ t = Canonical(Record(Stamp(b))).from
  <2>1. \A r : r \in RecordsOf(s) <=> \E b \in Scheduled : OnWire(Stamp(b)) /\ r = Record(Stamp(b))
    BY <1>2
  <2>. QED BY <1>8, <2>1
<1>10. ASSUME NEW b \in Scheduled
       PROVE  /\ Canonical(Record(Stamp(b))).issue = "none" <=> b \in Wanted
              /\ b \in Wanted => Canonical(Record(Stamp(b))).from = b.from
  <2>. DEFINE i == Interval(Stamp(b))
              r == Record(Stamp(b))
  <2>1. /\ i.issue = "none" /\ i.from = b.from /\ i.to = b.to
    BY ScheduledIsRead
  <2>2. r.at = Stamp(b) /\ r.valid = TRUE
    BY DEF Record
  <2>3. b.from \in Int /\ b.to \in Int /\ request.start \in Int /\ request.end \in Int
    BY StampOf, RequestInterval
  <2>4. b \in Wanted <=> ~(i.from < request.start) /\ ~(i.to > request.end)
    BY <2>1, <2>3 DEF Wanted
  <2>. HIDE DEF i, r
  <2>5. ASSUME b \in Wanted PROVE Canonical(r) = i
    BY <2>1, <2>2, <2>4, <2>5, Zenon DEF Canonical, i
  <2>6. ASSUME Canonical(r).issue = "none" PROVE b \in Wanted
    <3>1. Interval(r.at) = i
      BY <2>2 DEF i
    <3>2. r.valid \in BOOLEAN
      BY <2>2, Zenon
    <3>3. ~(Interval(r.at).from < request.start) /\ ~(Interval(r.at).to > request.end)
      BY <2>6, <3>2, CanonicalCases
    <3>. QED BY <2>4, <3>1, <3>3
  <2>. QED BY <2>1, <2>5, <2>6 DEF r
<1>. QED BY <1>9, <1>10 DEF Wanted

\* An honest page is no reason to raise, and no request is empty on the wire of Massive.
LEMMA HonestIsUsable ==
  ASSUME PageIs, page.honest PROVE ~Unusable
<1>1. page = HonestPage
  BY HonestPages
<1>2. Series = Batch /\ page.shape = "series" /\ \A z \in Batch : page.series[z].status = "ok"
  BY <1>1 DEF Series, HonestPage, Entry
<1>3. Erroneous = {}
  BY <1>2 DEF Erroneous
<1>. QED BY <1>2, <1>3 DEF Unusable

LEMMA MassiveAsks ==
  ASSUME BarInv, Refuses PROVE provider = "twelve_data"
<1>. SUFFICES ASSUME provider = "massive" PROVE FALSE
  BY DEF Refuses
<1>. DEFINE c == Ceiling(request.end, Milli)
            f == Floor(request.start, Milli)
<1>1. Milli \in Nat \ {0} /\ request.start \in Int /\ request.end \in Int /\ request.start < request.end
  BY CalendarAssumption, RequestInterval
<1>2. /\ c \in Int /\ f \in Int /\ c * Milli \in Int /\ f * Milli \in Int
      /\ f * Milli <= request.start /\ request.end <= c * Milli
  BY <1>1, Rounding
<1>3. c - 1 < f
  BY DEF Refuses
<1>. HIDE DEF c, f
<1>4. c * Milli <= f * Milli
  <2>1. c <= f
    BY <1>2, <1>3
  <2>. QED BY <1>1, <1>2, <2>1, Products
<1>. QED BY <1>1, <1>2, <1>4

LEMMA NothingAskedForIsLost ==
  ASSUME BarInv PROVE RequestedBarsArrive
<1>1. ASSUME bstage = "done", page.honest, request.verified, NEW s \in Batch
      PROVE  LET arrived == {b.from : b \in {c \in bars : c.symbol = s}}
                 stampless == {w.from : w \in {v \in Wanted : /\ request.timeframe = "1d"
                                                              /\ provider # "twelve_data"
                                                              /\ Stamp(v) < request.start}}
             IN /\ \A w \in Wanted : w.from \in arrived \cup stampless
                /\ Aligned => Expected \ stampless \subseteq arrived /\ arrived \subseteq Expected
  <2>. DEFINE stampless == {w.from : w \in {v \in Wanted : /\ request.timeframe = "1d"
                                                           /\ provider # "twelve_data"
                                                           /\ Stamp(v) < request.start}}
  <2>1. Arrived(s) = {w.from : w \in {v \in Wanted : OnWire(Stamp(v))}}
    BY <1>1, ArrivedBars
  <2>2. ASSUME NEW w \in Wanted PROVE w.from \in Arrived(s) \cup stampless
    <3>1. CASE OnWire(Stamp(w))
      BY <2>1, <3>1
    <3>2. CASE ~OnWire(Stamp(w))
      <4>1. request.timeframe # "5m" /\ provider # "twelve_data" /\ ~(request.start <= Stamp(w))
        BY <3>2, WireReaches
      <4>2. request.timeframe = "1d" /\ request.start \in Int
        BY <4>1, RequestInterval
      <4>3. w \in Scheduled
        BY DEF Wanted
      <4>4. Stamp(w) \in Int
        BY <4>3, StampOf
      <4>5. Stamp(w) < request.start
        BY <4>1, <4>2, <4>4
      <4>. QED BY <4>1, <4>2, <4>5
    <3>. QED BY <3>1, <3>2
  <2>3. Aligned => Expected \ stampless \subseteq Arrived(s) /\ Arrived(s) \subseteq Expected
    <3>. SUFFICES ASSUME Aligned
                  PROVE  Expected \ stampless \subseteq Arrived(s) /\ Arrived(s) \subseteq Expected
      OBVIOUS
    <3>1. Expected = {w.from : w \in Wanted}
      BY ExpectedIsWanted
    <3>. HIDE DEF stampless
    <3>. QED BY <2>1, <2>2, <3>1
  <2>. HIDE DEF stampless
  <2>4. /\ \A w \in Wanted : w.from \in Arrived(s) \cup stampless
        /\ Aligned => Expected \ stampless \subseteq Arrived(s) /\ Arrived(s) \subseteq Expected
    BY <2>2, <2>3
  <2>. QED BY <2>4, Zenon DEF Arrived, stampless
<1>2. ASSUME bstage = "raised" PROVE ~page.honest
  BY <1>2, HonestIsUsable DEF BarInv
<1>3. ASSUME bstage = "refused" PROVE provider = "twelve_data"
  BY <1>3, MassiveAsks DEF BarInv
<1>. QED BY <1>1, <1>2, <1>3, Zenon DEF RequestedBarsArrive

\* RequestedBarsArrive for every calendar, every request and every precision of the wire:
\* an honest page loses no bar of the request but a daily bar stamped before it, and what
\* arrives is what the comparison expects.
THEOREM HonestPagesLoseNothing == BarSpec => []RequestedBarsArrive
BY BarInvAlways, NothingAskedForIsLost, PTL

------------------------------------------------------------------------------
(***************************************************************************)
(* What a page of corporate actions becomes: every action is one the       *)
(* request asked for, and the changes inferred from a timeline say what    *)
(* the timeline says, for any number of events in any order.               *)
(***************************************************************************)
RecordsDone ==
  /\ actions = [i \in {n \in 1..Len(answer) : Maps(answer[n])} |->
                  CanonicalAction(answer[i].type, answer[i].ticker, answer[i].old, answer[i].date)]
  /\ aissues = {i \in 1..Len(answer) : ~Maps(answer[i])}
EventsDone ==
  /\ UsableEvents = {} \/ ~Ambiguous
  /\ \E t \in SortedEvents : actions = Changes(t)

\* The request and its answer stay as they are, and the result is what the answer gives.
ActionInv ==
  /\ source \in {"alpaca", "splits", "dividends", "events"}
  /\ from \in Dates /\ until \in Dates
  /\ source = "events" => answer \in Seq(Events)
  /\ source # "events" => answer \in Seq(Records)
  /\ (astage = "done" /\ source # "events") => RecordsDone
  /\ (astage = "done" /\ source = "events") => EventsDone

LEMMA ActionInvAlways == ActionSpec => []ActionInv
<1>1. ActionInit => ActionInv
  <2>. SUFFICES ASSUME ActionInit PROVE ActionInv
    OBVIOUS
  <2>1. source # "events" => answer \in Seq(Records)
    <3>1. SUFFICES ASSUME source # "events" PROVE answer \in Seq(Records)
      OBVIOUS
    <3>2. PICK n \in 0..MaxRecords : answer \in [1..n -> Records]
      BY <3>1 DEF ActionInit, Pages
    <3>3. n \in Nat
      BY <3>2, TickersAssumption
    <3>. HIDE DEF Records
    <3>. QED BY <3>2, <3>3
  <2>2. source = "events" => answer \in Seq(Events)
    <3>1. SUFFICES ASSUME source = "events" PROVE answer \in Seq(Events)
      OBVIOUS
    <3>2. PICK n \in 0..MaxEvents : answer \in [1..n -> Events]
      BY <3>1 DEF ActionInit, Timelines
    <3>3. n \in Nat
      BY <3>2, TickersAssumption
    <3>. HIDE DEF Events
    <3>. QED BY <3>2, <3>3
  <2>3. astage = "page" /\ from \in Dates /\ until \in Dates
        /\ source \in {"alpaca", "splits", "dividends", "events"}
    BY DEF ActionInit
  <2>. QED BY <2>1, <2>2, <2>3 DEF ActionInv
<1>2. ActionInv /\ [ActionNext]_avars => ActionInv'
  <2>. SUFFICES ASSUME ActionInv, [ActionNext]_avars PROVE ActionInv'
    OBVIOUS
  <2>. HIDE DEF Events, Records
  <2>1. UNCHANGED <<source, from, until, answer>>
    BY DEF ActionNext, NormalizeRecords, NormalizeTickerEvents, avars
  <2>2. /\ \A r : Maps(r)' <=> Maps(r)
        /\ UsableEvents' = UsableEvents /\ Ambiguous' = Ambiguous
    BY <2>1 DEF Maps, AlpacaMaps, SplitMaps, DividendMaps, InRange, UsableEvents, Ambiguous
  <2>3. SortedEvents' = SortedEvents
    BY <2>1, <2>2 DEF SortedEvents, InOrder
  <2>4. \A t : Changes(t)' = Changes(t)
    BY <2>1 DEF Changes, InRange
  <2>5. CASE NormalizeRecords
    <3>1. source # "events" /\ RecordsDone'
      BY <2>1, <2>2, <2>5 DEF NormalizeRecords, RecordsDone
    <3>. QED BY <2>1, <3>1 DEF ActionInv
  <2>6. CASE NormalizeTickerEvents
    <3>1. source = "events" /\ (astage' = "done" => EventsDone')
      BY <2>1, <2>2, <2>3, <2>4, <2>6 DEF NormalizeTickerEvents, EventsDone
    <3>. QED BY <2>1, <3>1 DEF ActionInv
  <2>7. CASE UNCHANGED avars
    <3>1. UNCHANGED <<actions, aissues, astage>>
      BY <2>7 DEF avars
    <3>2. RecordsDone => RecordsDone'
      BY <2>1, <2>2, <3>1 DEF RecordsDone
    <3>3. EventsDone => EventsDone'
      BY <2>2, <2>3, <2>4, <3>1 DEF EventsDone
    <3>. QED BY <2>1, <3>1, <3>2, <3>3 DEF ActionInv
  <2>. QED BY <2>5, <2>6, <2>7 DEF ActionNext
<1>. QED BY <1>1, <1>2, PTL DEF ActionSpec

\* What maps is wanted, whatever the family.
LEMMA MappedIsWanted ==
  ASSUME source \in {"alpaca", "splits", "dividends"}, NEW r \in Records, Maps(r)
  PROVE  /\ from <= r.date /\ r.date < until
         /\ {r.ticker, r.old} \cap ({Ticker} \cup Others) # {}
         /\ source = "splits" => r.type = "split" /\ r.ticker = Ticker
         /\ source = "dividends" => r.type = "dividend" /\ r.ticker = Ticker
         /\ r.type # "other"
         /\ r.type = "name_change" => Folded(r.old) # Folded(r.ticker)
<1>1. CASE source = "alpaca"
  <2>1. AlpacaMaps(r)
    BY <1>1 DEF Maps
  <2>. QED BY <1>1, <2>1 DEF AlpacaMaps, InRange, Asked
<1>2. CASE source = "splits"
  <2>1. SplitMaps(r)
    BY <1>2 DEF Maps
  <2>. QED BY <1>2, <2>1 DEF SplitMaps, InRange
<1>3. CASE source = "dividends"
  <2>1. DividendMaps(r)
    BY <1>3 DEF Maps
  <2>. QED BY <1>3, <2>1 DEF DividendMaps, InRange
<1>. QED BY <1>1, <1>2, <1>3

\* Every action of a page of records is one that was asked for, and every other record
\* leaves an issue: for any tickers, dates and request.
THEOREM ActionsAreAskedFor == ActionSpec => []ActionsAccounted
<1>1. ActionInv => ActionsAccounted
  <2>. SUFFICES ASSUME ActionInv, astage = "done", source # "events" PROVE ActionsAccounted
    BY DEF ActionsAccounted
  <2>. HIDE DEF Records
  <2>1. RecordsDone /\ answer \in Seq(Records) /\ source \in {"alpaca", "splits", "dividends"}
    BY DEF ActionInv
  <2>2. DOMAIN actions = {i \in 1..Len(answer) : Maps(answer[i])}
    BY <2>1 DEF RecordsDone
  <2>3. DOMAIN actions = (1..Len(answer)) \ aissues
    BY <2>1, <2>2 DEF RecordsDone
  <2>4. ASSUME NEW i \in DOMAIN actions
        PROVE  /\ answer[i] \in Records /\ Maps(answer[i])
               /\ actions[i].type = answer[i].type /\ actions[i].ticker = answer[i].ticker
               /\ actions[i].old = answer[i].old /\ actions[i].date = answer[i].date
    <3>1. answer[i] \in Records /\ Maps(answer[i])
      BY <2>1, <2>2
    <3>2. actions[i] = CanonicalAction(answer[i].type, answer[i].ticker, answer[i].old, answer[i].date)
      BY <2>1, <2>2 DEF RecordsDone
    <3>. QED BY <3>1, <3>2 DEF CanonicalAction
  <2>5. ASSUME NEW i \in DOMAIN actions
        PROVE  /\ from <= actions[i].date /\ actions[i].date < until
               /\ {actions[i].ticker, actions[i].old} \cap ({Ticker} \cup Others) # {}
               /\ source = "splits" => actions[i].type = "split" /\ actions[i].ticker = Ticker
               /\ source = "dividends" => actions[i].type = "dividend" /\ actions[i].ticker = Ticker
               /\ actions[i].type # "other"
               /\ actions[i].type = "name_change" => Folded(actions[i].old) # Folded(actions[i].ticker)
    <3>. DEFINE r == answer[i]
    <3>1. r \in Records /\ Maps(r)
      BY <2>4
    <3>2. /\ actions[i].type = r.type /\ actions[i].ticker = r.ticker
          /\ actions[i].old = r.old /\ actions[i].date = r.date
      BY <2>4
    <3>. HIDE DEF r
    <3>3. /\ from <= r.date /\ r.date < until
          /\ {r.ticker, r.old} \cap ({Ticker} \cup Others) # {}
          /\ source = "splits" => r.type = "split" /\ r.ticker = Ticker
          /\ source = "dividends" => r.type = "dividend" /\ r.ticker = Ticker
          /\ r.type # "other"
          /\ r.type = "name_change" => Folded(r.old) # Folded(r.ticker)
      BY <2>1, <3>1, MappedIsWanted
    <3>. QED BY <3>2, <3>3
  <2>. QED BY <2>3, <2>5 DEF ActionsAccounted
<1>. QED BY <1>1, ActionInvAlways, PTL

------------------------------------------------------------------------------
\* A set of positions that is not empty has a first and a last one: among its parts up
\* to a position, one has no strict part.
LEMMA FirstPosition ==
  ASSUME NEW n \in Nat, NEW S \in SUBSET (0..n), S # {}
  PROVE  \E p \in S : \A q \in S : p <= q
<1>. DEFINE Part(p) == {q \in S : q <= p}
            T == {Part(p) : p \in S}
<1>1. IsFiniteSet(0..n)
  BY FS_Interval
<1>2. T \subseteq FiniteSubsetsOf(0..n)
  BY <1>1, FS_Subset DEF FiniteSubsetsOf
<1>3. \E U \in T : \A V \in T : <<V, U>> \notin StrictSubsetOrdering(0..n)
  <2>1. T # {}
    OBVIOUS
  <2>. HIDE DEF T
  <2>. QED BY <1>1, <1>2, <2>1, FS_StrictSubsetOrderingWellFounded, WFMin
<1>4. PICK p \in S : \A q \in S : <<Part(q), Part(p)>> \notin StrictSubsetOrdering(0..n)
  BY <1>3
<1>5. ASSUME NEW q \in S, q < p PROVE FALSE
  <2>1. Part(q) \subseteq Part(p)
    <3>1. q \in Nat /\ p \in Nat /\ \A x \in S : x \in Nat
      OBVIOUS
    <3>2. \A x \in S : x <= q => x <= p
      BY <1>5, <3>1
    <3>. QED BY <3>2
  <2>2. p \in Part(p) /\ p \notin Part(q)
    BY <1>5
  <2>3. Part(p) \in SUBSET (0..n) /\ Part(q) \in SUBSET (0..n)
    OBVIOUS
  <2>. QED BY <1>4, <2>1, <2>2, <2>3 DEF StrictSubsetOrdering
<1>. QED BY <1>5

LEMMA LastPosition ==
  ASSUME NEW n \in Nat, NEW S \in SUBSET (0..n), S # {}
  PROVE  \E p \in S : \A q \in S : q <= p
<1>. DEFINE T == {n - p : p \in S}
<1>0. \A p \in S : p \in 0..n /\ n - p \in 0..n
  <2>1. \A p \in S : p \in 0..n
    OBVIOUS
  <2>. QED BY <2>1
<1>1. T \in SUBSET (0..n) /\ T # {}
  BY <1>0
<1>2. PICK t \in T : \A u \in T : t <= u
  <2>. HIDE DEF T
  <2>. QED BY <1>1, FirstPosition
<1>3. PICK p \in S : t = n - p
  OBVIOUS
<1>4. \A q \in S : n - p <= n - q
  BY <1>2, <1>3
<1>. QED BY <1>0, <1>4

\* What does not change from one position to the next does not change at all.
LEMMA Steady ==
  ASSUME NEW i \in Nat, NEW j \in Nat, i <= j, NEW f,
         \A k \in i + 1..j : f[k - 1] = f[k]
  PROVE  f[i] = f[j]
<1>. DEFINE S == {k \in i..j : f[k] # f[i]}
<1>1. SUFFICES ASSUME f[i] # f[j] PROVE FALSE
  OBVIOUS
<1>2. S \in SUBSET (0..j) /\ S # {}
  BY <1>1
<1>3. PICK m \in S : \A k \in S : m <= k
  <2>. HIDE DEF S
  <2>. QED BY <1>2, FirstPosition
<1>4. m \in i + 1..j /\ m - 1 \in i..j /\ m - 1 < m
  BY <1>3
<1>5. m - 1 \notin S
  BY <1>3, <1>4
<1>6. f[m - 1] = f[i]
  BY <1>4, <1>5
<1>. QED BY <1>3, <1>4, <1>6

------------------------------------------------------------------------------
\* The date of an event of a timeline, and the ticker it says.
DateOf(t, k) == answer[t[k]].date
Says(t, k) == Folded(answer[t[k]].ticker)

\* A sorted timeline: the events in the order of their dates, one ticker at a date.
LEMMA TimelineSorted ==
  ASSUME answer \in Seq(Events), UsableEvents = {} \/ ~Ambiguous, NEW t \in SortedEvents
  PROVE  \E n \in Nat :
           /\ DOMAIN t = 1..n
           /\ \A k \in 1..n : t[k] \in UsableEvents /\ DateOf(t, k) \in Int
           /\ \A k, m \in 1..n : k <= m => DateOf(t, k) <= DateOf(t, m)
           /\ \A k, m \in 1..n : DateOf(t, k) = DateOf(t, m) => Says(t, k) = Says(t, m)
           /\ \A i \in UsableEvents : answer[i].date \in Int /\ \E k \in 1..n : t[k] = i
<1>. DEFINE n == Cardinality(UsableEvents)
<1>1. Len(answer) \in Nat
  OBVIOUS
<1>2. n \in Nat
  <2>1. IsFiniteSet(1..Len(answer))
    BY <1>1, FS_Interval
  <2>2. UsableEvents \in SUBSET (1..Len(answer))
    BY DEF UsableEvents
  <2>. QED BY <2>1, <2>2, FS_Subset, FS_CardinalityType
<1>3. /\ t \in [1..n -> UsableEvents] /\ InOrder(t)
      /\ \A i \in UsableEvents : \E k \in DOMAIN t : t[k] = i
  BY DEF SortedEvents
<1>4. \A i \in UsableEvents : answer[i].date \in Int
  <2>1. \A i \in UsableEvents : answer[i] \in Events
    <3>. HIDE DEF Events
    <3>. QED BY DEF UsableEvents
  <2>2. \A e \in Events : e.date \in Int
    BY TickersAssumption DEF Events
  <2>. QED BY <2>1, <2>2
<1>. HIDE DEF n
<1>5. DOMAIN t = 1..n /\ \A k \in 1..n : t[k] \in UsableEvents /\ DateOf(t, k) \in Int
  BY <1>3, <1>4 DEF DateOf
<1>6. ASSUME NEW k \in 1..n, NEW m \in 1..n, k <= m PROVE DateOf(t, k) <= DateOf(t, m)
  <2>1. CASE k = m
    BY <1>5, <2>1
  <2>2. CASE k < m
    BY <1>3, <1>5, <2>2 DEF InOrder, DateOf
  <2>. QED BY <1>2, <1>6, <2>1, <2>2
<1>7. ASSUME NEW k \in 1..n, NEW m \in 1..n, DateOf(t, k) = DateOf(t, m) PROVE Says(t, k) = Says(t, m)
  <2>1. t[k] \in UsableEvents /\ t[m] \in UsableEvents
    BY <1>5
  <2>2. answer[t[k]].ticker = answer[t[m]].ticker
    BY <1>7, <2>1 DEF Ambiguous, DateOf
  <2>. QED BY <2>2 DEF Says
<1>. QED BY <1>2, <1>3, <1>4, <1>5, <1>6, <1>7

\* The changes of a timeline.
LEMMA ChangesOfTimeline ==
  ASSUME NEW t, NEW n \in Nat, DOMAIN t = 1..n
  PROVE  /\ DOMAIN Changes(t)
              = {k \in 1..n : k > 1 /\ InRange(DateOf(t, k)) /\ Says(t, k - 1) # Says(t, k)}
         /\ \A k \in DOMAIN Changes(t) : /\ Changes(t)[k].date = DateOf(t, k)
                                         /\ Folded(Changes(t)[k].ticker) = Says(t, k)
                                         /\ Folded(Changes(t)[k].old) = Says(t, k - 1)
<1>1. DOMAIN Changes(t) = {k \in 1..n : k > 1 /\ InRange(DateOf(t, k)) /\ Says(t, k - 1) # Says(t, k)}
  BY DEF Changes, DateOf, Says
<1>2. ASSUME NEW k \in DOMAIN Changes(t)
      PROVE  Changes(t)[k] = [type |-> "name_change", ticker |-> answer[t[k]].ticker,
                              old |-> answer[t[k - 1]].ticker, date |-> answer[t[k]].date]
  BY DEF Changes, CanonicalAction
<1>3. ASSUME NEW k \in DOMAIN Changes(t)
      PROVE  /\ Changes(t)[k].date = DateOf(t, k)
             /\ Folded(Changes(t)[k].ticker) = Says(t, k)
             /\ Folded(Changes(t)[k].old) = Says(t, k - 1)
  <2>1. /\ Changes(t)[k].date = answer[t[k]].date
        /\ Changes(t)[k].ticker = answer[t[k]].ticker
        /\ Changes(t)[k].old = answer[t[k - 1]].ticker
    BY <1>2
  <2>. QED BY <2>1 DEF DateOf, Says
<1>. QED BY <1>1, <1>3

\* The ticker in force at a date is what the last event up to that date says.
LEMMA InForceIsLast ==
  ASSUME NEW t, NEW n \in Nat, NEW e \in Int, NEW m \in 1..n, DateOf(t, m) <= e,
         \A k \in 1..n : t[k] \in UsableEvents /\ DateOf(t, k) \in Int,
         \A k \in 1..n : DateOf(t, k) <= e => k <= m,
         \A k, l \in 1..n : k <= l => DateOf(t, k) <= DateOf(t, l),
         \A k, l \in 1..n : DateOf(t, k) = DateOf(t, l) => Says(t, k) = Says(t, l),
         \A i \in UsableEvents : answer[i].date \in Int /\ \E k \in 1..n : t[k] = i
  PROVE  InForce(e) = Says(t, m)
<1>. DEFINE last == CHOOSE i \in UpTo(e) : \A j \in UpTo(e) : answer[j].date <= answer[i].date
<1>1. \A i \in UpTo(e) : \E k \in 1..n : t[k] = i /\ DateOf(t, k) <= e /\ k <= m
  BY DEF UpTo, DateOf
<1>2. t[m] \in UpTo(e) /\ \A j \in UpTo(e) : answer[j].date <= answer[t[m]].date
  BY <1>1 DEF UpTo, DateOf
<1>3. last \in UpTo(e) /\ \A j \in UpTo(e) : answer[j].date <= answer[last].date
  BY <1>2
<1>. HIDE DEF last
<1>4. PICK k \in 1..n : t[k] = last
  BY <1>1, <1>3
<1>5. DateOf(t, k) = DateOf(t, m)
  BY <1>2, <1>3, <1>4 DEF DateOf
<1>6. Folded(answer[last].ticker) = Says(t, m)
  BY <1>4, <1>5 DEF Says
<1>. QED BY <1>6 DEF InForce, last

\* The changes of a timeline are what TimelineHolds says of them: they follow each other.
LEMMA ChangesAreChained ==
  ASSUME NEW t, NEW n \in Nat, from \in Int, until \in Int, actions = Changes(t), DOMAIN t = 1..n,
         \A k \in 1..n : DateOf(t, k) \in Int,
         \A k, l \in 1..n : k <= l => DateOf(t, k) <= DateOf(t, l),
         \A k, l \in 1..n : DateOf(t, k) = DateOf(t, l) => Says(t, k) = Says(t, l)
  PROVE  Chained
<1>1. /\ DOMAIN actions = {k \in 1..n : k > 1 /\ InRange(DateOf(t, k)) /\ Says(t, k - 1) # Says(t, k)}
      /\ \A k \in DOMAIN actions : /\ actions[k].date = DateOf(t, k)
                                   /\ Folded(actions[k].ticker) = Says(t, k)
                                   /\ Folded(actions[k].old) = Says(t, k - 1)
  BY ChangesOfTimeline
<1>2. SUFFICES ASSUME NEW i \in DOMAIN actions, NEW j \in DOMAIN actions, i < j
               PROVE  /\ actions[i].date < actions[j].date
                      /\ \/ Folded(actions[i].ticker) = Folded(actions[j].old)
                         \/ \E k \in DOMAIN actions : i < k /\ k < j
  BY DEF Chained
<1>3. /\ i \in 1..n /\ j \in 1..n /\ j - 1 \in 1..n /\ i <= j - 1 /\ j - 1 <= j /\ i <= j
      /\ InRange(DateOf(t, i)) /\ InRange(DateOf(t, j)) /\ Says(t, j - 1) # Says(t, j)
  BY <1>1, <1>2
<1>4. DateOf(t, i) < DateOf(t, j)
  <2>1. DateOf(t, i) <= DateOf(t, j - 1) /\ DateOf(t, j - 1) <= DateOf(t, j)
    BY <1>3
  <2>2. DateOf(t, j - 1) # DateOf(t, j)
    BY <1>3
  <2>3. DateOf(t, i) \in Int /\ DateOf(t, j) \in Int /\ DateOf(t, j - 1) \in Int
    BY <1>3
  <2>. QED BY <2>1, <2>2, <2>3
<1>5. ASSUME ~\E k \in DOMAIN actions : i < k /\ k < j PROVE Says(t, i) = Says(t, j - 1)
  <2>. DEFINE f == [k \in 1..n |-> Says(t, k)]
  <2>1. ASSUME NEW k \in i + 1..j - 1 PROVE f[k - 1] = f[k]
    <3>1. k \in 1..n /\ k - 1 \in 1..n /\ k > 1 /\ i < k /\ k < j /\ i <= k /\ k <= j
      BY <1>3
    <3>2. InRange(DateOf(t, k))
      <4>1. DateOf(t, i) <= DateOf(t, k) /\ DateOf(t, k) <= DateOf(t, j)
        BY <1>3, <3>1
      <4>2. DateOf(t, i) \in Int /\ DateOf(t, j) \in Int /\ DateOf(t, k) \in Int
        BY <1>3, <3>1
      <4>. QED BY <1>3, <4>1, <4>2 DEF InRange
    <3>3. Says(t, k - 1) = Says(t, k)
      BY <1>1, <1>5, <3>1, <3>2
    <3>. QED BY <3>1, <3>3
  <2>2. i \in Nat /\ j - 1 \in Nat /\ i <= j - 1
    BY <1>3
  <2>3. f[i] = Says(t, i) /\ f[j - 1] = Says(t, j - 1)
    BY <1>3
  <2>. HIDE DEF f
  <2>4. f[i] = f[j - 1]
    BY <2>1, <2>2, Steady
  <2>. QED BY <2>3, <2>4
<1>6. actions[i].date < actions[j].date
  BY <1>1, <1>4
<1>7. Folded(actions[i].ticker) = Says(t, i) /\ Folded(actions[j].old) = Says(t, j - 1)
  BY <1>1
<1>. QED BY <1>5, <1>6, <1>7

\* They say of every date what the timeline says of it.
LEMMA ChangesSayTheTimeline ==
  ASSUME NEW t, NEW n \in Nat, from \in Int, until \in Int, actions = Changes(t), DOMAIN t = 1..n,
         \A k \in 1..n : t[k] \in UsableEvents /\ DateOf(t, k) \in Int,
         \A k, l \in 1..n : k <= l => DateOf(t, k) <= DateOf(t, l),
         \A k, l \in 1..n : DateOf(t, k) = DateOf(t, l) => Says(t, k) = Says(t, l),
         \A i \in UsableEvents : answer[i].date \in Int /\ \E k \in 1..n : t[k] = i,
         NEW d \in Int, InRange(d), UpTo(d - 1) # {}
  PROVE  IF InForce(d - 1) = InForce(d)
           THEN ChangesAt(d) = {}
           ELSE \E i \in ChangesAt(d) : /\ Folded(actions[i].old) = InForce(d - 1)
                                        /\ Folded(actions[i].ticker) = InForce(d)
<1>. DEFINE Until(e) == {k \in 1..n : DateOf(t, k) <= e}
<1>1. /\ DOMAIN actions = {k \in 1..n : k > 1 /\ InRange(DateOf(t, k)) /\ Says(t, k - 1) # Says(t, k)}
      /\ \A k \in DOMAIN actions : /\ actions[k].date = DateOf(t, k)
                                   /\ Folded(actions[k].ticker) = Says(t, k)
                                   /\ Folded(actions[k].old) = Says(t, k - 1)
  BY ChangesOfTimeline
<1>2. PICK i \in UpTo(d - 1) : TRUE
  OBVIOUS
<1>3. PICK z \in 1..n : t[z] = i /\ DateOf(t, z) <= d - 1
  BY <1>2 DEF UpTo, DateOf
<1>4. z \in Until(d - 1) /\ Until(d - 1) \in SUBSET (0..n)
  BY <1>3
<1>5. PICK m \in Until(d - 1) : \A k \in Until(d - 1) : k <= m
  <2>. HIDE DEF Until
  <2>. QED BY <1>4, LastPosition
<1>6. m \in 1..n /\ DateOf(t, m) <= d - 1 /\ d - 1 \in Int /\ \A k \in 1..n : DateOf(t, k) <= d - 1 => k <= m
  BY <1>5
<1>7. m \in Until(d) /\ Until(d) \in SUBSET (0..n)
  <2>1. DateOf(t, m) \in Int
    BY <1>6
  <2>. QED BY <1>6, <2>1
<1>8. PICK w \in Until(d) : \A k \in Until(d) : k <= w
  <2>. HIDE DEF Until
  <2>. QED BY <1>7, LastPosition
<1>9. w \in 1..n /\ DateOf(t, w) <= d /\ m <= w /\ \A k \in 1..n : DateOf(t, k) <= d => k <= w
  BY <1>7, <1>8
<1>. HIDE DEF Until
<1>10. InForce(d - 1) = Says(t, m)
  BY <1>6, InForceIsLast
<1>11. InForce(d) = Says(t, w)
  BY <1>9, InForceIsLast
<1>12. ASSUME NEW k \in m + 1..w PROVE k \in 1..n /\ DateOf(t, k) = d
  <2>1. k \in 1..n /\ k <= w /\ ~(k <= m)
    BY <1>6, <1>9
  <2>2. DateOf(t, k) <= DateOf(t, w) /\ ~(DateOf(t, k) <= d - 1)
    BY <1>6, <1>9, <2>1
  <2>3. DateOf(t, k) \in Int /\ DateOf(t, w) \in Int
    BY <1>9, <2>1
  <2>. QED BY <1>9, <2>1, <2>2, <2>3
<1>13. ASSUME NEW k \in ChangesAt(d) PROVE m < w /\ k = m + 1 /\ Says(t, m) # Says(t, m + 1)
  <2>1. k \in 1..n /\ k > 1 /\ DateOf(t, k) = d /\ Says(t, k - 1) # Says(t, k)
    BY <1>1 DEF ChangesAt
  <2>2. k <= w
    BY <1>9, <2>1
  <2>3. ~(k <= m)
    <3>1. SUFFICES ASSUME k <= m PROVE FALSE
      OBVIOUS
    <3>2. DateOf(t, k) <= DateOf(t, m) /\ DateOf(t, m) \in Int
      BY <1>6, <2>1, <3>1
    <3>. QED BY <1>6, <2>1, <3>2
  <2>4. k = m + 1
    <3>1. SUFFICES ASSUME k # m + 1 PROVE FALSE
      OBVIOUS
    <3>2. k - 1 \in m + 1..w
      BY <1>6, <1>9, <2>1, <2>2, <2>3, <3>1
    <3>3. k - 1 \in 1..n /\ DateOf(t, k - 1) = d
      BY <1>12, <3>2
    <3>4. Says(t, k - 1) = Says(t, k)
      BY <2>1, <3>3
    <3>. QED BY <2>1, <3>4
  <2>5. k - 1 = m
    BY <1>6, <2>4
  <2>. QED BY <1>6, <1>9, <2>1, <2>2, <2>4, <2>5
<1>14. m < w => /\ m + 1 \in 1..n /\ m + 1 > 1 /\ (m + 1) - 1 = m /\ DateOf(t, m + 1) = d
                /\ Says(t, m + 1) = Says(t, w)
  <2>1. SUFFICES ASSUME m < w PROVE /\ m + 1 \in 1..n /\ m + 1 > 1 /\ (m + 1) - 1 = m
                                    /\ DateOf(t, m + 1) = d /\ Says(t, m + 1) = Says(t, w)
    OBVIOUS
  <2>2. m + 1 \in m + 1..w /\ w \in m + 1..w
    BY <1>6, <1>9, <2>1
  <2>3. m + 1 \in 1..n /\ DateOf(t, m + 1) = d /\ DateOf(t, w) = d
    BY <1>12, <2>2
  <2>. QED BY <1>6, <1>9, <2>3
<1>15. CASE InForce(d - 1) = InForce(d)
  <2>1. ChangesAt(d) = {}
    BY <1>10, <1>11, <1>13, <1>14, <1>15
  <2>. QED BY <1>15, <2>1
<1>16. CASE InForce(d - 1) # InForce(d)
  <2>1. m < w
    BY <1>6, <1>9, <1>10, <1>11, <1>16
  <2>2. m + 1 \in DOMAIN actions
    BY <1>1, <1>10, <1>11, <1>14, <1>16, <2>1
  <2>3. /\ actions[m + 1].date = d /\ Folded(actions[m + 1].ticker) = InForce(d)
        /\ Folded(actions[m + 1].old) = InForce(d - 1)
    BY <1>1, <1>10, <1>11, <1>14, <2>1, <2>2
  <2>4. m + 1 \in ChangesAt(d)
    BY <2>2, <2>3 DEF ChangesAt
  <2>. QED BY <1>16, <2>3, <2>4
<1>. QED BY <1>15, <1>16

\* For any number of events in any order, on any dates, and for any request: the changes
\* inferred from a timeline say of every date what the timeline says.
THEOREM TimelineIsKept == ActionSpec => []TimelineHolds
<1>1. ActionInv => TimelineHolds
  <2>. SUFFICES ASSUME ActionInv, astage = "done", source = "events" PROVE TimelineHolds
    BY DEF TimelineHolds
  <2>. HIDE DEF Events
  <2>1. EventsDone /\ answer \in Seq(Events) /\ from \in Int /\ until \in Int
    BY TickersAssumption DEF ActionInv
  <2>2. PICK t \in SortedEvents : actions = Changes(t)
    BY <2>1 DEF EventsDone
  <2>3. PICK n \in Nat :
           /\ DOMAIN t = 1..n
           /\ \A k \in 1..n : t[k] \in UsableEvents /\ DateOf(t, k) \in Int
           /\ \A k, m \in 1..n : k <= m => DateOf(t, k) <= DateOf(t, m)
           /\ \A k, m \in 1..n : DateOf(t, k) = DateOf(t, m) => Says(t, k) = Says(t, m)
           /\ \A i \in UsableEvents : answer[i].date \in Int /\ \E k \in 1..n : t[k] = i
    BY <2>1, TimelineSorted DEF EventsDone
  <2>4. \A i \in DOMAIN actions : InRange(actions[i].date)
    <3>1. DOMAIN t = 1..n
      BY <2>3
    <3>2. \A k \in DOMAIN Changes(t) : InRange(DateOf(t, k)) /\ Changes(t)[k].date = DateOf(t, k)
      BY <3>1, ChangesOfTimeline
    <3>. QED BY <2>2, <3>2
  <2>5. Chained
    BY <2>1, <2>2, <2>3, ChangesAreChained
  <2>6. ASSUME NEW d \in Dates, InRange(d), UpTo(d - 1) # {}
        PROVE  IF InForce(d - 1) = InForce(d)
                 THEN ChangesAt(d) = {}
                 ELSE \E i \in ChangesAt(d) : /\ Folded(actions[i].old) = InForce(d - 1)
                                              /\ Folded(actions[i].ticker) = InForce(d)
    <3>1. d \in Int
      BY TickersAssumption
    <3>. QED BY <2>1, <2>2, <2>3, <2>6, <3>1, ChangesSayTheTimeline, Zenon
  <2>. QED BY <2>4, <2>5, <2>6 DEF TimelineHolds
<1>. QED BY <1>1, ActionInvAlways, PTL
===============================================================================
