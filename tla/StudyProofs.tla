------------------------------ MODULE StudyProofs ------------------------------
(***************************************************************************)
(* What a study promises, for any number of securities, any batch sizes    *)
(* and any budget that covers the plan.                                    *)
(***************************************************************************)
EXTENDS Study, SequenceTheorems, TLAPS

\* The private root: it is there from its creation to the deletion, nothing is written
\* to it before it is known to lie outside the repository, and a run that ends without
\* having deleted it was killed or says so.
RootInv ==
  /\ pc = "begin" => root = "none"
  /\ pc = "assert" => root = "empty"
  /\ pc \in {"plan", "ask"} => ~inside
  /\ pc \in {"plan", "ask", "delete"} => root \in {"empty", "written"}
  /\ pc = "verdict" => root = "gone"
  /\ pc = "over" => root \in {"none", "gone"} \/ exit = "killed" \/ cause = "deletion"
  /\ inside => root # "written"
  /\ cleanup => root = "gone" /\ pc \in {"verdict", "over"}
  /\ cause = "deletion" => exit = "1" /\ pc = "over"

LEMMA RootInvAlways == Spec => []RootInv
<1>1. Init => RootInv
  BY DEF Init, RootInv
<1>2. RootInv /\ [Next]_vars => RootInv'
  <2>. SUFFICES ASSUME RootInv, [Next]_vars PROVE RootInv'
    OBVIOUS
  <2>1. CASE Begin
    BY <2>1 DEF RootInv, Begin
  <2>2. CASE AssertExternal
    BY <2>2 DEF RootInv, AssertExternal, Abort
  <2>3. CASE Plan
    BY <2>3 DEF RootInv, Plan, Abort
  <2>4. CASE RequestFails
    BY <2>4 DEF RootInv, RequestFails, Abort
  <2>5. CASE Request
    <3>1. /\ pc = "ask" /\ pc' \in {"plan", "ask"} /\ root' = "written"
          /\ UNCHANGED <<inside, cause, cleanup, exit>>
      BY <2>5 DEF Request
    <3>. QED BY <3>1 DEF RootInv
  <2>6. CASE Conclude
    BY <2>6 DEF RootInv, Conclude
  <2>7. CASE Delete
    BY <2>7 DEF RootInv, Delete
  <2>8. CASE Verdict
    <3>1. /\ pc = "verdict" /\ pc' = "over"
          /\ UNCHANGED <<root, inside, cause, cleanup>>
      BY <2>8 DEF Verdict
    <3>. QED BY <3>1 DEF RootInv
  <2>9. CASE Kill
    BY <2>9 DEF RootInv, Kill
  <2>10. CASE UNCHANGED vars
    BY <2>10 DEF RootInv, vars
  <2>. QED BY <2>1, <2>2, <2>3, <2>4, <2>5, <2>6, <2>7, <2>8, <2>9, <2>10 DEF Next
<1>. QED BY <1>1, <1>2, PTL DEF Spec

\* NothingLeftBehind for every study: private data does not outlive the run, and none is
\* written inside the repository.
THEOREM PrivateDataIsDeleted == Spec => []NothingLeftBehind
<1>1. RootInv => NothingLeftBehind
  BY DEF RootInv, NothingLeftBehind
<1>. QED BY <1>1, RootInvAlways, PTL

------------------------------------------------------------------------------
\* The parts of the work, and where they begin.
Items ==
  {i \in [provider: Providers, kind: {"reference", "bars", "actions", "evidence"},
          segment: Segments \cup {"none"}, targets: Nat \ {0}, batch: Nat \ {0}] :
     i.kind = "bars" => i.segment \in Segments}

LEMMA WindowTargets ==
  ASSUME NEW i \in 1..22
  PROVE  /\ Windows[i].segment \in Segments
         /\ Windows[i].targets = IF i <= 8 THEN Securities ELSE 1
<1>1. CASE i = 1
  BY <1>1 DEF Windows, Window, Segments
<1>2. CASE i = 2
  BY <1>2 DEF Windows, Window, Segments
<1>3. CASE i \in 3..8
  BY <1>3 DEF Windows, Window, Segments
<1>4. CASE i \in 9..20
  BY <1>4 DEF Windows, Window, Segments
<1>5. CASE i \in 21..22
  BY <1>5 DEF Windows, Window, Segments
<1>. QED BY <1>1, <1>2, <1>3, <1>4, <1>5

LEMMA PartsAreSequences ==
  /\ \A p \in Providers : References(p) \in Seq(Items) /\ Len(References(p)) = Securities
  /\ \A p \in Providers, last \in {20, 22} :
       BarPlan(p, last) \in Seq(Items) /\ Len(BarPlan(p, last)) = last
  /\ TickerControl \in Seq(Items) /\ Len(TickerControl) = 2
  /\ Actions \in Seq(Items) /\ Len(Actions) = 1
  /\ \A p \in Providers : Evidence(p) \in Seq(Items) /\ Len(Evidence(p)) = 2
<1>1. Securities \in Nat \ {0} /\ AlpacaBatch \in Nat \ {0} /\ TwelveBatch \in Nat \ {0}
  BY ConstantsAssumption
<1>2. ASSUME NEW p \in Providers
      PROVE  /\ References(p) \in Seq(Items) /\ Len(References(p)) = Securities
             /\ Evidence(p) \in Seq(Items) /\ Len(Evidence(p)) = 2
  <2>1. Item(p, "reference", "none", 1, 1) \in Items /\ Item(p, "evidence", "none", 1, 1) \in Items
    BY DEF Item, Items
  <2>. QED BY <1>1, <2>1 DEF References, Evidence
<1>3. ASSUME NEW p \in Providers, NEW last \in {20, 22}
      PROVE  BarPlan(p, last) \in Seq(Items) /\ Len(BarPlan(p, last)) = last
  <2>1. ASSUME NEW i \in 1..last
        PROVE  Item(p, "bars", Windows[i].segment, Windows[i].targets, BatchSizes(p)) \in Items
    <3>1. Windows[i].segment \in Segments /\ Windows[i].targets \in Nat \ {0}
      BY <1>1, WindowTargets
    <3>2. BatchSizes(p) \in Nat \ {0}
      BY <1>1 DEF BatchSizes
    <3>. QED BY <3>1, <3>2 DEF Item, Items
  <2>. QED BY <2>1 DEF BarPlan
<1>4. TickerControl \in Seq(Items) /\ Len(TickerControl) = 2
  <2>1. /\ Item("alpaca", "bars", "ticker", 1, 1) \in Items
        /\ Item("alpaca", "evidence", "none", 1, 1) \in Items
    BY DEF Item, Items, Providers, Segments
  <2>. QED BY <2>1 DEF TickerControl
<1>5. Actions \in Seq(Items) /\ Len(Actions) = 1
  <2>1. Item("alpaca", "actions", "none", Securities, Securities) \in Items
    BY <1>1 DEF Item, Items, Providers
  <2>. QED BY <2>1 DEF Actions
<1>. QED BY <1>2, <1>3, <1>4, <1>5

\* Concatenation, element by element.
LEMMA Joined ==
  ASSUME NEW s \in Seq(Items), NEW t \in Seq(Items)
  PROVE  /\ s \o t \in Seq(Items) /\ Len(s \o t) = Len(s) + Len(t)
         /\ \A i \in 1..Len(s) : (s \o t)[i] = s[i]
         /\ \A i \in 1..Len(t) : (s \o t)[Len(s) + i] = t[i]
OBVIOUS

\* The position after the first k securities of both providers.
After(k) == 2 * Securities + k

\* Which item of the work is where.
LEMMA WorkAt ==
  /\ Work \in Seq(Items) /\ Len(Work) = After(49)
  /\ \A i \in 1..Securities : Work[i] = References("alpaca")[i]
  /\ \A i \in 1..Securities : Work[Securities + i] = References("twelve_data")[i]
  /\ \A i \in 1..20 : Work[After(i)] = BarPlan("alpaca", 20)[i]
  /\ \A i \in 1..2 : Work[After(20 + i)] = TickerControl[i]
  /\ \A i \in 1..22 : Work[After(22 + i)] = BarPlan("twelve_data", 22)[i]
  /\ Work[After(45)] = Actions[1]
  /\ \A i \in 1..2 : Work[After(45 + i)] = Evidence("alpaca")[i]
  /\ \A i \in 1..2 : Work[After(47 + i)] = Evidence("twelve_data")[i]
<1>. DEFINE a == References("alpaca")
            b == References("twelve_data")
            c == BarPlan("alpaca", 20)
            d == TickerControl
            e == BarPlan("twelve_data", 22)
            f == Actions
            g == Evidence("alpaca")
            h == Evidence("twelve_data")
            ab == a \o b
            ac == ab \o c
            ad == ac \o d
            ae == ad \o e
            af == ae \o f
            ag == af \o g
            ah == ag \o h
<1>0. Work = ah
  BY DEF Work
<1>1. /\ a \in Seq(Items) /\ b \in Seq(Items) /\ c \in Seq(Items) /\ d \in Seq(Items)
      /\ e \in Seq(Items) /\ f \in Seq(Items) /\ g \in Seq(Items) /\ h \in Seq(Items)
      /\ Len(a) = Securities /\ Len(b) = Securities /\ Len(c) = 20 /\ Len(d) = 2 /\ Len(e) = 22
      /\ Len(f) = 1 /\ Len(g) = 2 /\ Len(h) = 2
  BY PartsAreSequences DEF Providers
<1>. HIDE DEF a, b, c, d, e, f, g, h
<1>2. Securities \in Nat
  BY ConstantsAssumption
<1>3. /\ ab \in Seq(Items) /\ Len(ab) = After(0)
      /\ \A i \in 1..Securities : ab[i] = a[i]
      /\ \A i \in 1..Securities : ab[Securities + i] = b[i]
  <2>1. /\ ab \in Seq(Items) /\ Len(ab) = Len(a) + Len(b)
        /\ \A i \in 1..Len(a) : ab[i] = a[i]
        /\ \A i \in 1..Len(b) : ab[Len(a) + i] = b[i]
    <3>1. a \in Seq(Items) /\ b \in Seq(Items)
      BY <1>1
    <3>. QED BY <3>1, Joined, Zenon
  <2>. HIDE DEF ab
  <2>2. After(0) = Securities + Securities
    BY <1>2 DEF After
  <2>. QED BY <1>1, <2>1, <2>2
<1>. HIDE DEF ab
<1>4. /\ ac \in Seq(Items) /\ Len(ac) = After(20)
      /\ \A i \in 1..After(0) : ac[i] = ab[i]
      /\ \A i \in 1..20 : ac[After(i)] = c[i]
  <2>1. /\ ac \in Seq(Items) /\ Len(ac) = Len(ab) + Len(c)
        /\ \A i \in 1..Len(ab) : ac[i] = ab[i]
        /\ \A i \in 1..Len(c) : ac[Len(ab) + i] = c[i]
    <3>1. ab \in Seq(Items) /\ c \in Seq(Items)
      BY <1>1, <1>3
    <3>. QED BY <3>1, Joined, Zenon
  <2>. HIDE DEF ac
  <2>2. /\ ac \in Seq(Items) /\ Len(ac) = After(0) + 20
        /\ \A i \in 1..After(0) : ac[i] = ab[i]
        /\ \A i \in 1..20 : ac[After(0) + i] = c[i]
    BY <1>1, <1>3, <2>1
  <2>3. After(0) + 20 = After(20) /\ \A i \in 1..20 : After(0) + i = After(i)
    BY <1>2 DEF After
  <2>. QED BY <2>2, <2>3, Zenon
<1>. HIDE DEF ac
<1>5. /\ ad \in Seq(Items) /\ Len(ad) = After(22)
      /\ \A i \in 1..After(20) : ad[i] = ac[i]
      /\ \A i \in 1..2 : ad[After(20 + i)] = d[i]
  <2>1. /\ ad \in Seq(Items) /\ Len(ad) = Len(ac) + Len(d)
        /\ \A i \in 1..Len(ac) : ad[i] = ac[i]
        /\ \A i \in 1..Len(d) : ad[Len(ac) + i] = d[i]
    <3>1. ac \in Seq(Items) /\ d \in Seq(Items)
      BY <1>1, <1>4
    <3>. QED BY <3>1, Joined, Zenon
  <2>. HIDE DEF ad
  <2>2. /\ ad \in Seq(Items) /\ Len(ad) = After(20) + 2
        /\ \A i \in 1..After(20) : ad[i] = ac[i]
        /\ \A i \in 1..2 : ad[After(20) + i] = d[i]
    BY <1>1, <1>4, <2>1
  <2>3. After(20) + 2 = After(22) /\ \A i \in 1..2 : After(20) + i = After(20 + i)
    BY <1>2 DEF After
  <2>. QED BY <2>2, <2>3, Zenon
<1>. HIDE DEF ad
<1>6. /\ ae \in Seq(Items) /\ Len(ae) = After(44)
      /\ \A i \in 1..After(22) : ae[i] = ad[i]
      /\ \A i \in 1..22 : ae[After(22 + i)] = e[i]
  <2>1. /\ ae \in Seq(Items) /\ Len(ae) = Len(ad) + Len(e)
        /\ \A i \in 1..Len(ad) : ae[i] = ad[i]
        /\ \A i \in 1..Len(e) : ae[Len(ad) + i] = e[i]
    <3>1. ad \in Seq(Items) /\ e \in Seq(Items)
      BY <1>1, <1>5
    <3>. QED BY <3>1, Joined, Zenon
  <2>. HIDE DEF ae
  <2>2. /\ ae \in Seq(Items) /\ Len(ae) = After(22) + 22
        /\ \A i \in 1..After(22) : ae[i] = ad[i]
        /\ \A i \in 1..22 : ae[After(22) + i] = e[i]
    BY <1>1, <1>5, <2>1
  <2>3. After(22) + 22 = After(44) /\ \A i \in 1..22 : After(22) + i = After(22 + i)
    BY <1>2 DEF After
  <2>. QED BY <2>2, <2>3, Zenon
<1>. HIDE DEF ae
<1>7. /\ af \in Seq(Items) /\ Len(af) = After(45)
      /\ \A i \in 1..After(44) : af[i] = ae[i]
      /\ af[After(45)] = f[1]
  <2>1. /\ af \in Seq(Items) /\ Len(af) = Len(ae) + Len(f)
        /\ \A i \in 1..Len(ae) : af[i] = ae[i]
        /\ \A i \in 1..Len(f) : af[Len(ae) + i] = f[i]
    <3>1. ae \in Seq(Items) /\ f \in Seq(Items)
      BY <1>1, <1>6
    <3>. QED BY <3>1, Joined, Zenon
  <2>. HIDE DEF af
  <2>2. /\ af \in Seq(Items) /\ Len(af) = After(44) + 1
        /\ \A i \in 1..After(44) : af[i] = ae[i]
        /\ af[After(44) + 1] = f[1]
    BY <1>1, <1>6, <2>1
  <2>3. After(44) + 1 = After(45)
    BY <1>2 DEF After
  <2>. QED BY <2>2, <2>3, Zenon
<1>. HIDE DEF af
<1>8. /\ ag \in Seq(Items) /\ Len(ag) = After(47)
      /\ \A i \in 1..After(45) : ag[i] = af[i]
      /\ \A i \in 1..2 : ag[After(45 + i)] = g[i]
  <2>1. /\ ag \in Seq(Items) /\ Len(ag) = Len(af) + Len(g)
        /\ \A i \in 1..Len(af) : ag[i] = af[i]
        /\ \A i \in 1..Len(g) : ag[Len(af) + i] = g[i]
    <3>1. af \in Seq(Items) /\ g \in Seq(Items)
      BY <1>1, <1>7
    <3>. QED BY <3>1, Joined, Zenon
  <2>. HIDE DEF ag
  <2>2. /\ ag \in Seq(Items) /\ Len(ag) = After(45) + 2
        /\ \A i \in 1..After(45) : ag[i] = af[i]
        /\ \A i \in 1..2 : ag[After(45) + i] = g[i]
    BY <1>1, <1>7, <2>1
  <2>3. After(45) + 2 = After(47) /\ \A i \in 1..2 : After(45) + i = After(45 + i)
    BY <1>2 DEF After
  <2>. QED BY <2>2, <2>3, Zenon
<1>. HIDE DEF ag
<1>9. /\ ah \in Seq(Items) /\ Len(ah) = After(49)
      /\ \A i \in 1..After(47) : ah[i] = ag[i]
      /\ \A i \in 1..2 : ah[After(47 + i)] = h[i]
  <2>1. /\ ah \in Seq(Items) /\ Len(ah) = Len(ag) + Len(h)
        /\ \A i \in 1..Len(ag) : ah[i] = ag[i]
        /\ \A i \in 1..Len(h) : ah[Len(ag) + i] = h[i]
    <3>1. ag \in Seq(Items) /\ h \in Seq(Items)
      BY <1>1, <1>8
    <3>. QED BY <3>1, Joined, Zenon
  <2>. HIDE DEF ah
  <2>2. /\ ah \in Seq(Items) /\ Len(ah) = After(47) + 2
        /\ \A i \in 1..After(47) : ah[i] = ag[i]
        /\ \A i \in 1..2 : ah[After(47) + i] = h[i]
    BY <1>1, <1>8, <2>1
  <2>3. After(47) + 2 = After(49) /\ \A i \in 1..2 : After(47) + i = After(47 + i)
    BY <1>2 DEF After
  <2>. QED BY <2>2, <2>3, Zenon
<1>. HIDE DEF ah
<1>10. /\ \A i \in 1..After(45) : i \in 1..After(47)
       /\ \A i \in 1..After(44) : i \in 1..After(45)
       /\ \A i \in 1..After(22) : i \in 1..After(44)
       /\ \A i \in 1..After(20) : i \in 1..After(22)
       /\ \A i \in 1..After(0) : i \in 1..After(20)
  BY <1>2 DEF After
<1>11. /\ \A i \in 1..After(45) : ah[i] = af[i]
       /\ \A i \in 1..After(44) : ah[i] = ae[i]
       /\ \A i \in 1..After(22) : ah[i] = ad[i]
       /\ \A i \in 1..After(20) : ah[i] = ac[i]
       /\ \A i \in 1..After(0) : ah[i] = ab[i]
  <2>1. \A i \in 1..After(45) : ah[i] = af[i]
    BY <1>8, <1>9, <1>10, Zenon
  <2>2. \A i \in 1..After(44) : ah[i] = ae[i]
    BY <1>7, <1>10, <2>1, Zenon
  <2>3. \A i \in 1..After(22) : ah[i] = ad[i]
    BY <1>6, <1>10, <2>2, Zenon
  <2>4. \A i \in 1..After(20) : ah[i] = ac[i]
    BY <1>5, <1>10, <2>3, Zenon
  <2>5. \A i \in 1..After(0) : ah[i] = ab[i]
    BY <1>4, <1>10, <2>4, Zenon
  <2>. QED BY <2>1, <2>2, <2>3, <2>4, <2>5
<1>12. /\ \A i \in 1..20 : After(i) \in 1..After(20)
       /\ \A i \in 1..2 : After(20 + i) \in 1..After(22)
       /\ \A i \in 1..22 : After(22 + i) \in 1..After(44)
       /\ After(45) \in 1..After(45)
       /\ \A i \in 1..2 : After(45 + i) \in 1..After(47)
       /\ \A i \in 1..Securities : i \in 1..After(0) /\ Securities + i \in 1..After(0)
  BY <1>2 DEF After
<1>13. /\ \A i \in 1..Securities : ah[i] = a[i]
       /\ \A i \in 1..Securities : ah[Securities + i] = b[i]
  BY <1>3, <1>11, <1>12
<1>14. \A i \in 1..20 : ah[After(i)] = c[i]
  BY <1>4, <1>11, <1>12
<1>15. \A i \in 1..2 : ah[After(20 + i)] = d[i]
  BY <1>5, <1>11, <1>12
<1>16. \A i \in 1..22 : ah[After(22 + i)] = e[i]
  BY <1>6, <1>11, <1>12
<1>17. ah[After(45)] = f[1]
  BY <1>7, <1>11, <1>12
<1>18. \A i \in 1..2 : ah[After(45 + i)] = g[i]
  BY <1>8, <1>9, <1>12
<1>. QED BY <1>0, <1>9, <1>13, <1>14, <1>15, <1>16, <1>17, <1>18 DEF a, b, c, d, e, f, g, h

\* Requests or credits of Twelve Data that come before an item, when a window of all
\* securities counts c and everything else 1.
Before(u, c) ==
  IF u <= Securities THEN 0
  ELSE IF u <= After(0) THEN u - Securities - 1
  ELSE IF u <= After(22) THEN Securities
  ELSE IF u <= After(30) THEN Securities + (u - After(22) - 1) * c
  ELSE IF u <= After(44) THEN Securities + 8 * c + (u - After(30) - 1)
  ELSE IF u <= After(47) THEN Securities + 8 * c + 14
  ELSE Securities + 8 * c + 14 + (u - After(47) - 1)

LEMMA Multiply ==
  ASSUME NEW c \in Nat, NEW k \in Int
  PROVE  /\ k * c \in Int /\ (k + 1) * c = k * c + c /\ 0 * c = 0 /\ 1 * c = c
         /\ k \in 0..8 => 0 <= k * c /\ k * c <= 8 * c
OBVIOUS

\* What Twelve Data is asked for at a position: one target, or all in batches of the plan.
LEMMA PaidItem ==
  ASSUME NEW c \in Nat, NEW u \in 1..Len(Work)
  PROVE  /\ Work[u] \in Items /\ Before(u, c) \in Nat
         /\ \/ Work[u].provider = "alpaca" /\ Before(u + 1, c) = Before(u, c)
            \/ /\ Work[u].provider = "twelve_data" /\ Work[u].targets = 1
               /\ Work[u].batch \in {1, TwelveBatch} /\ Before(u + 1, c) = Before(u, c) + 1
            \/ /\ Work[u].provider = "twelve_data" /\ Work[u].targets = Securities
               /\ Work[u].batch = TwelveBatch /\ Before(u + 1, c) = Before(u, c) + c
<1>. DEFINE Right ==
         \/ Work[u].provider = "alpaca" /\ Before(u + 1, c) = Before(u, c)
         \/ /\ Work[u].provider = "twelve_data" /\ Work[u].targets = 1
            /\ Work[u].batch \in {1, TwelveBatch} /\ Before(u + 1, c) = Before(u, c) + 1
         \/ /\ Work[u].provider = "twelve_data" /\ Work[u].targets = Securities
            /\ Work[u].batch = TwelveBatch /\ Before(u + 1, c) = Before(u, c) + c
<1>1. Securities \in Nat \ {0}
  BY ConstantsAssumption
<1>2. Work \in Seq(Items) /\ Len(Work) = After(49) /\ u \in Nat \ {0}
  BY WorkAt
<1>3. CASE u \in 1..Securities
  <2>1. Work[u].provider = "alpaca"
    <3>1. Work[u] = References("alpaca")[u]
      BY <1>3, WorkAt
    <3>. QED BY <1>3, <3>1 DEF References, Item
  <2>2. Before(u, c) = 0 /\ Before(u + 1, c) = 0
    BY <1>1, <1>3 DEF Before, After
  <2>. QED BY <1>2, <2>1, <2>2
<1>4. CASE u \in Securities + 1..After(0)
  <2>1. PICK i \in 1..Securities : u = Securities + i
    <3>1. u - Securities \in 1..Securities /\ u = Securities + (u - Securities)
      BY <1>1, <1>4 DEF After
    <3>. QED BY <3>1
  <2>2. Work[u].provider = "twelve_data" /\ Work[u].targets = 1 /\ Work[u].batch = 1
    <3>1. Work[u] = References("twelve_data")[i]
      BY <2>1, WorkAt
    <3>. QED BY <3>1 DEF References, Item
  <2>3. Before(u, c) = i - 1 /\ Before(u + 1, c) = i
    BY <1>1, <2>1 DEF Before, After
  <2>. QED BY <1>2, <2>2, <2>3
<1>5. CASE u \in After(1)..After(22)
  <2>1. PICK i \in 1..22 : u = After(i)
    <3>1. u - After(0) \in 1..22 /\ u = After(u - After(0))
      BY <1>1, <1>5 DEF After
    <3>. QED BY <3>1
  <2>2. Work[u].provider = "alpaca"
    <3>1. CASE i \in 1..20
      <4>1. Work[u] = BarPlan("alpaca", 20)[i]
        BY <2>1, <3>1, WorkAt
      <4>. QED BY <3>1, <4>1 DEF BarPlan, Item
    <3>2. CASE i \in 21..22
      <4>1. PICK j \in 1..2 : u = After(20 + j)
        <5>1. i - 20 \in 1..2 /\ u = After(20 + (i - 20))
          BY <1>1, <2>1, <3>2 DEF After
        <5>. QED BY <5>1
      <4>2. Work[u] = TickerControl[j]
        BY <4>1, WorkAt
      <4>. QED BY <4>2 DEF TickerControl, Item
    <3>. QED BY <3>1, <3>2
  <2>3. Before(u, c) = Securities /\ Before(u + 1, c) = Securities
    <3>1. u = After(22) => (u + 1 - After(22) - 1) * c = 0
      <4>1. u = After(22) => u + 1 - After(22) - 1 = 0
        BY <1>1 DEF After
      <4>. QED BY <4>1, Multiply
    <3>. QED BY <1>1, <1>5, <3>1 DEF Before, After
  <2>. QED BY <1>1, <1>2, <2>2, <2>3
<1>6. CASE u \in After(23)..After(44)
  <2>1. PICK i \in 1..22 : u = After(22 + i)
    <3>1. u - After(22) \in 1..22 /\ u = After(22 + (u - After(22)))
      BY <1>1, <1>6 DEF After
    <3>. QED BY <3>1
  <2>2. /\ Work[u].provider = "twelve_data" /\ Work[u].batch = TwelveBatch
        /\ Work[u].targets = IF i <= 8 THEN Securities ELSE 1
    <3>1. Work[u] = BarPlan("twelve_data", 22)[i]
      BY <2>1, WorkAt
    <3>2. Work[u] = Item("twelve_data", "bars", Windows[i].segment, Windows[i].targets, TwelveBatch)
      <4>1. BatchSizes("twelve_data") = TwelveBatch
        BY DEF BatchSizes
      <4>. QED BY <3>1, <4>1 DEF BarPlan
    <3>3. /\ Work[u].provider = "twelve_data" /\ Work[u].batch = TwelveBatch
          /\ Work[u].targets = Windows[i].targets
      BY <3>2 DEF Item
    <3>4. Windows[i].targets = IF i <= 8 THEN Securities ELSE 1
      BY WindowTargets
    <3>. QED BY <3>3, <3>4, Zenon
  <2>3. CASE i \in 1..8
    <3>1. Before(u, c) = Securities + (i - 1) * c
      <4>1. u - After(22) - 1 = i - 1
        BY <1>1, <2>1 DEF After
      <4>2. ~(u <= Securities) /\ ~(u <= After(0)) /\ ~(u <= After(22)) /\ u <= After(30)
        BY <1>1, <2>1, <2>3 DEF After
      <4>. QED BY <4>1, <4>2 DEF Before
    <3>2. Before(u + 1, c) = Securities + i * c
      <4>1. CASE i # 8
        <5>1. u + 1 - After(22) - 1 = i
          BY <1>1, <2>1 DEF After
        <5>2. /\ ~(u + 1 <= Securities) /\ ~(u + 1 <= After(0)) /\ ~(u + 1 <= After(22))
              /\ u + 1 <= After(30)
          BY <1>1, <2>1, <2>3, <4>1 DEF After
        <5>. DEFINE v == u + 1
        <5>3. v - After(22) - 1 = i
          BY <1>1, <1>2, <5>1 DEF After
        <5>4. /\ ~(v <= Securities) /\ ~(v <= After(0)) /\ ~(v <= After(22)) /\ v <= After(30)
          BY <5>2
        <5>. HIDE DEF v
        <5>5. Before(v, c) = Securities + i * c
          BY <5>3, <5>4 DEF Before
        <5>. QED BY <5>5 DEF v
      <4>2. CASE i = 8
        <5>1. u + 1 - After(30) - 1 = 0
          BY <1>1, <2>1, <4>2 DEF After
        <5>2. /\ ~(u + 1 <= Securities) /\ ~(u + 1 <= After(0)) /\ ~(u + 1 <= After(22))
              /\ ~(u + 1 <= After(30)) /\ u + 1 <= After(44)
          BY <1>1, <2>1, <4>2 DEF After
        <5>3. Before(u + 1, c) = Securities + 8 * c + 0
          <6>. DEFINE v == u + 1
          <6>1. v - After(30) - 1 = 0
            BY <1>1, <1>2, <5>1 DEF After
          <6>2. /\ ~(v <= Securities) /\ ~(v <= After(0)) /\ ~(v <= After(22))
                /\ ~(v <= After(30)) /\ v <= After(44)
            BY <5>2
          <6>. HIDE DEF v
          <6>3. Before(v, c) = Securities + 8 * c + 0
            BY <6>1, <6>2 DEF Before
          <6>. QED BY <6>3 DEF v
        <5>. QED BY <1>1, <4>2, <5>3, Multiply
      <4>. QED BY <4>1, <4>2
    <3>3. /\ (i - 1) * c \in Nat /\ i * c = (i - 1) * c + c
      <4>1. i - 1 \in 0..8 /\ i - 1 + 1 = i
        BY <2>3
      <4>2. (i - 1) * c \in Int /\ 0 <= (i - 1) * c /\ (i - 1 + 1) * c = (i - 1) * c + c
        BY <4>1, Multiply
      <4>. QED BY <4>1, <4>2
    <3>4. Before(u, c) \in Nat /\ Before(u + 1, c) = Before(u, c) + c
      BY <1>1, <3>1, <3>2, <3>3
    <3>. QED BY <1>2, <2>2, <2>3, <3>4
  <2>4. CASE i \in 9..22
    <3>1. 8 * c \in Nat
      OBVIOUS
    <3>2. Before(u, c) = Securities + 8 * c + (i - 9)
      BY <1>1, <2>1, <2>4, <3>1 DEF Before, After
    <3>3. Before(u + 1, c) = Securities + 8 * c + (i - 8)
      BY <1>1, <2>1, <2>4, <3>1 DEF Before, After
    <3>4. Before(u, c) \in Nat /\ Before(u + 1, c) = Before(u, c) + 1
      BY <1>1, <2>4, <3>1, <3>2, <3>3
    <3>5. Work[u].targets = 1
      BY <2>2, <2>4
    <3>. QED BY <1>2, <2>2, <3>4, <3>5
  <2>. QED BY <2>3, <2>4
<1>7. CASE u \in After(45)..After(47)
  <2>1. Work[u].provider = "alpaca"
    <3>1. CASE u = After(45)
      BY <3>1, WorkAt DEF Actions, Item
    <3>2. CASE u # After(45)
      <4>1. PICK i \in 1..2 : u = After(45 + i)
        <5>1. u - After(45) \in 1..2 /\ u = After(45 + (u - After(45)))
          BY <1>1, <1>7, <3>2 DEF After
        <5>. QED BY <5>1
      <4>2. Work[u] = Evidence("alpaca")[i]
        BY <4>1, WorkAt
      <4>. QED BY <4>2 DEF Evidence, Item
    <3>. QED BY <3>1, <3>2
  <2>2. 8 * c \in Nat
    OBVIOUS
  <2>3. Before(u, c) = Securities + 8 * c + 14 /\ Before(u + 1, c) = Securities + 8 * c + 14
    BY <1>1, <1>7, <2>2 DEF Before, After
  <2>. QED BY <1>1, <1>2, <2>1, <2>2, <2>3
<1>8. CASE u \in After(48)..After(49)
  <2>1. PICK i \in 1..2 : u = After(47 + i)
    <3>1. u - After(47) \in 1..2 /\ u = After(47 + (u - After(47)))
      BY <1>1, <1>8 DEF After
    <3>. QED BY <3>1
  <2>2. Work[u].provider = "twelve_data" /\ Work[u].targets = 1 /\ Work[u].batch = 1
    <3>1. Work[u] = Evidence("twelve_data")[i]
      BY <2>1, WorkAt
    <3>. QED BY <3>1 DEF Evidence, Item
  <2>3. 8 * c \in Nat
    OBVIOUS
  <2>4. Before(u, c) = Securities + 8 * c + 14 + (i - 1) /\ Before(u + 1, c) = Securities + 8 * c + 14 + i
    BY <1>1, <2>1, <2>3 DEF Before, After
  <2>. QED BY <1>1, <1>2, <2>2, <2>3, <2>4
<1>9. \/ u \in 1..Securities \/ u \in Securities + 1..After(0) \/ u \in After(1)..After(22)
      \/ u \in After(23)..After(44) \/ u \in After(45)..After(47) \/ u \in After(48)..After(49)
  BY <1>1, <1>2 DEF After
<1>. QED BY <1>3, <1>4, <1>5, <1>6, <1>7, <1>8, <1>9

\* The whole work.
LEMMA PaidInAll ==
  ASSUME NEW c \in Nat
  PROVE  /\ Before(1, c) = 0 /\ Before(Len(Work) + 1, c) = Securities + 8 * c + 16
         /\ \A u \in 1..Len(Work) + 1 : /\ Before(u, c) \in Nat
                                        /\ Before(u, c) <= Securities + 8 * c + 16
<1>1. Securities \in Nat \ {0} /\ 8 * c \in Nat /\ Len(Work) = After(49)
  BY ConstantsAssumption, WorkAt
<1>2. Before(1, c) = 0 /\ Before(Len(Work) + 1, c) = Securities + 8 * c + 16
  BY <1>1 DEF Before, After
<1>3. ASSUME NEW u \in 1..Len(Work)
      PROVE  Before(u, c) \in Nat /\ Before(u, c) <= Securities + 8 * c + 16
  <2>1. Before(u, c) \in Nat
    BY PaidItem
  <2>2. CASE u \in After(23)..After(30)
    <3>. DEFINE k == u - After(22) - 1
    <3>1. k \in 0..8 /\ ~(u <= Securities) /\ ~(u <= After(0)) /\ ~(u <= After(22)) /\ u <= After(30)
      BY <1>1, <2>2 DEF After
    <3>2. Before(u, c) = Securities + k * c
      BY <3>1 DEF Before
    <3>. HIDE DEF k
    <3>3. k * c \in Int /\ k * c <= 8 * c
      BY <3>1, Multiply
    <3>. QED BY <1>1, <2>1, <3>2, <3>3
  <2>3. CASE u \notin After(23)..After(30)
    BY <1>1, <2>3 DEF Before, After
  <2>. QED BY <2>1, <2>2, <2>3
<1>4. Before(Len(Work) + 1, c) \in Nat /\ Before(Len(Work) + 1, c) <= Securities + 8 * c + 16
  BY <1>1, <1>2
<1>. QED BY <1>1, <1>2, <1>3, <1>4 DEF After

------------------------------------------------------------------------------
\* The verdict: what it looks at, and the way to it.
EarnedInv ==
  /\ at \in 1..Len(Work) + 1 /\ (pc = "ask" => at <= Len(Work))
  /\ resolved \in [Providers -> Nat] /\ flagged \subseteq Providers
  /\ seen \in [Providers -> SUBSET Segments] /\ twice \in [Providers -> SUBSET Segments]
  /\ pc \in {"begin", "assert", "plan", "ask"} => cause = "none"
  /\ pc = "delete" /\ cause = "none" => at > Len(Work)
  /\ pc = "verdict" => at > Len(Work) /\ cause = "none" /\ root = "gone" /\ cleanup
  /\ pc # "over" => exit = "running"
  /\ ExitZeroIsEarned

\* What a page adds stays of its type.
LEMMA RecordKeepsTypes ==
  ASSUME EarnedInv, NEW item \in Items, NEW outcome \in Outcomes(item.kind), Record(item, outcome)
  PROVE  /\ resolved' \in [Providers -> Nat] /\ flagged' \subseteq Providers
         /\ seen' \in [Providers -> SUBSET Segments] /\ twice' \in [Providers -> SUBSET Segments]
<1>1. /\ item.provider \in Providers /\ item.segment \in Segments \cup {"none"}
      /\ item.kind \in {"reference", "bars", "actions", "evidence"}
  BY DEF Items
<1>2. /\ resolved \in [Providers -> Nat] /\ flagged \subseteq Providers
      /\ seen \in [Providers -> SUBSET Segments] /\ twice \in [Providers -> SUBSET Segments]
  BY DEF EarnedInv
<1>3. outcome = "repeat" => item.kind = "bars"
  BY <1>1 DEF Outcomes
<1>4. (item.kind = "bars" /\ outcome # "empty") \/ outcome = "repeat" => item.segment \in Segments
  <2>1. item.kind = "bars" => item.segment \in Segments
    BY DEF Items
  <2>. QED BY <1>3, <2>1
<1>. DEFINE p == item.provider
<1>5. resolved' \in [Providers -> Nat]
  <2>1. resolved' = [resolved EXCEPT ![p] =
          @ + (IF item.kind = "reference" /\ outcome = "usual" THEN 1 ELSE 0)]
    BY DEF Record
  <2>. QED BY <1>1, <1>2, <2>1
<1>6. flagged' \subseteq Providers
  BY <1>1, <1>2 DEF Record
<1>7. seen' \in [Providers -> SUBSET Segments]
  <2>1. seen' = [seen EXCEPT ![p] =
          IF item.kind = "bars" /\ outcome # "empty" THEN @ \cup {item.segment} ELSE @]
    BY DEF Record
  <2>. QED BY <1>1, <1>2, <1>4, <2>1
<1>8. twice' \in [Providers -> SUBSET Segments]
  <2>1. twice' = [twice EXCEPT ![p] = IF outcome = "repeat" THEN @ \cup {item.segment} ELSE @]
    BY DEF Record
  <2>. QED BY <1>1, <1>2, <1>4, <2>1
<1>. QED BY <1>5, <1>6, <1>7, <1>8

LEMMA EarnedInvAlways == Spec => []EarnedInv
<1>1. Init => EarnedInv
  <2>1. Len(Work) \in Nat
    BY WorkAt
  <2>2. 1 \in 1..Len(Work) + 1
    BY <2>1
  <2>. QED BY <2>2 DEF Init, EarnedInv, ExitZeroIsEarned
<1>2. EarnedInv /\ [Next]_vars => EarnedInv'
  <2>. SUFFICES ASSUME EarnedInv, [Next]_vars PROVE EarnedInv'
    OBVIOUS
  <2>0. Len(Work) \in Nat
    BY WorkAt
  <2>1. CASE Begin
    BY <2>1 DEF EarnedInv, ExitZeroIsEarned, Begin, evidence, credit
  <2>2. CASE AssertExternal
    BY <2>2 DEF EarnedInv, ExitZeroIsEarned, AssertExternal, Abort, evidence, credit
  <2>3. CASE Plan
    <3>1. /\ pc = "plan" /\ at <= Len(Work) /\ UNCHANGED <<root, at, evidence, cleanup, exit>>
          /\ \/ pc' = "ask" /\ cause' = cause
             \/ pc' = "delete" /\ cause' = "budget"
      BY <2>3 DEF Plan, Abort
    <3>. QED BY <3>1 DEF EarnedInv, ExitZeroIsEarned, evidence
  <2>4. CASE RequestFails
    <3>1. /\ pc = "ask" /\ pc' = "delete" /\ cause' = "request"
          /\ UNCHANGED <<at, evidence, cleanup, exit>>
      BY <2>4 DEF RequestFails, Abort
    <3>. QED BY <3>1 DEF EarnedInv, ExitZeroIsEarned, evidence
  <2>5. CASE Request
    <3>1. /\ pc = "ask" /\ pc' \in {"plan", "ask"} /\ UNCHANGED <<cause, cleanup, exit>>
          /\ \/ at' = at + 1 /\ pc' = "plan"
             \/ at' = at
      BY <2>5 DEF Request
    <3>2. PICK outcome \in Outcomes(Work[at].kind) : Record(Work[at], outcome)
      BY <2>5 DEF Request
    <3>3. at \in 1..Len(Work)
      BY <2>0, <3>1 DEF EarnedInv
    <3>4. Work[at] \in Items
      <4>1. Work \in Seq(Items)
        BY WorkAt, Zenon
      <4>. QED BY <3>3, <4>1
    <3>5. /\ resolved' \in [Providers -> Nat] /\ flagged' \subseteq Providers
          /\ seen' \in [Providers -> SUBSET Segments] /\ twice' \in [Providers -> SUBSET Segments]
      BY <3>2, <3>4, RecordKeepsTypes
    <3>6. at' \in 1..Len(Work) + 1 /\ (pc' = "ask" => at' <= Len(Work))
      BY <2>0, <3>1, <3>3
    <3>7. exit' = "running" /\ cause' = "none"
      BY <3>1 DEF EarnedInv
    <3>. QED BY <3>1, <3>5, <3>6, <3>7 DEF EarnedInv, ExitZeroIsEarned
  <2>6. CASE Conclude
    <3>1. /\ pc = "plan" /\ at > Len(Work) /\ pc' = "delete"
          /\ UNCHANGED <<root, at, evidence, cause, cleanup, exit>>
      BY <2>6 DEF Conclude
    <3>. QED BY <3>1 DEF EarnedInv, ExitZeroIsEarned, evidence
  <2>7. CASE Delete
    <3>1. /\ pc = "delete" /\ UNCHANGED <<at, evidence>>
          /\ \/ cause = "none" /\ root' = "gone" /\ pc' = "verdict" /\ cleanup' = TRUE
                /\ UNCHANGED <<cause, exit>>
             \/ pc' = "over" /\ exit' = "1"
      BY <2>7 DEF Delete
    <3>. QED BY <3>1 DEF EarnedInv, ExitZeroIsEarned, evidence
  <2>8. CASE Verdict
    <3>1. /\ pc = "verdict" /\ pc' = "over" /\ UNCHANGED <<root, at, evidence, cause, cleanup>>
          /\ exit' \in {"0", "1"}
          /\ exit' = "0" => ComparisonPass /\
               \A p \in Providers : resolved[p] = Securities /\ PipelinePass(p)
      BY <2>8 DEF Verdict
    <3>2. ASSUME exit' = "0" PROVE ExitZeroIsEarned'
      <4>1. /\ \A s \in Segments : /\ s \in seen["alpaca"] \cap seen["twelve_data"]
                                   /\ s \notin twice["alpaca"] \cup twice["twelve_data"]
            /\ \A p \in Providers : resolved[p] = Securities /\ p \notin flagged
        BY <3>1, <3>2 DEF ComparisonPass, PipelinePass
      <4>2. resolved = [p \in Providers |-> Securities] /\ flagged = {}
        BY <4>1 DEF EarnedInv
      <4>3. \A p \in Providers : seen[p] = Segments /\ twice[p] = {}
        <5>1. \A p \in Providers : seen[p] \subseteq Segments /\ twice[p] \subseteq Segments
          BY DEF EarnedInv
        <5>. QED BY <4>1, <5>1 DEF Providers
      <4>. QED BY <3>1, <4>2, <4>3 DEF EarnedInv, ExitZeroIsEarned, evidence
    <3>3. ASSUME exit' # "0" PROVE ExitZeroIsEarned'
      BY <3>3 DEF ExitZeroIsEarned
    <3>. QED BY <3>1, <3>2, <3>3 DEF EarnedInv, evidence
  <2>9. CASE Kill
    BY <2>9 DEF EarnedInv, ExitZeroIsEarned, Kill, evidence
  <2>10. CASE UNCHANGED vars
    BY <2>10 DEF EarnedInv, ExitZeroIsEarned, vars, evidence
  <2>. QED BY <2>1, <2>2, <2>3, <2>4, <2>5, <2>6, <2>7, <2>8, <2>9, <2>10 DEF Next
<1>. QED BY <1>1, <1>2, PTL DEF Spec

\* ExitZeroIsEarned for every study: an exit code of zero is reached only with all of the
\* work done, every reference matched and rows of both providers in every segment.
THEOREM SuccessIsEarned == Spec => []ExitZeroIsEarned
<1>1. EarnedInv => ExitZeroIsEarned
  BY DEF EarnedInv
<1>. QED BY <1>1, EarnedInvAlways, PTL

------------------------------------------------------------------------------
\* Batches: how many it takes, and what one more covers.
Batches(k, b) == (k + b - 1) \div b
Next1(t, k, b) == IF t - k < b THEN t - k ELSE b     \* the targets of the next batch

LEMMA Divided ==
  ASSUME NEW t \in Int, NEW b \in Nat \ {0}
  PROVE  /\ t \div b \in Int /\ b * (t \div b) <= t /\ t < b * (t \div b) + b
         /\ \A q \in Int : /\ b * q \in Int /\ b * (q + 1) = b * q + b
                           /\ b * q <= t /\ t < b * q + b => t \div b = q
                           /\ b * q <= t => q <= t \div b
OBVIOUS

LEMMA OneMoreBatch ==
  ASSUME NEW t \in Nat \ {0}, NEW b \in Nat \ {0}, NEW k \in Nat, k < t,
         NEW q \in Nat, k = b * q
  PROVE  LET w == Next1(t, k, b) IN
         /\ w \in Nat \ {0} /\ w <= b /\ k + w <= t
         /\ k + w = t \/ k + w = b * (q + 1)
         /\ Batches(k, b) \in Nat /\ Batches(k + w, b) = Batches(k, b) + 1
         /\ Batches(k, b) + 1 <= Batches(t, b) /\ Batches(t, b) \in Nat
<1>. DEFINE w == Next1(t, k, b)
<1>1. w \in Nat \ {0} /\ w <= b /\ k + w <= t /\ (w = b \/ k + w = t)
  BY DEF Next1
<1>. HIDE DEF w
<1>2. b * q \in Int /\ b * (q + 1) = b * q + b
  BY Divided
<1>3. Batches(k, b) = q
  <2>1. k + b - 1 \in Int /\ b * q <= k + b - 1 /\ k + b - 1 < b * q + b
    BY <1>2
  <2>. QED BY <2>1, Divided DEF Batches
<1>4. Batches(k + w, b) = q + 1
  <2>. DEFINE t2 == (k + w) + b - 1
  <2>1. t2 \in Int /\ q + 1 \in Int /\ b * (q + 1) <= t2 /\ t2 < b * (q + 1) + b
    BY <1>1, <1>2
  <2>2. Batches(k + w, b) = t2 \div b
    BY DEF Batches
  <2>. HIDE DEF t2
  <2>. QED BY <2>1, <2>2, Divided
<1>5. Batches(t, b) \in Int /\ q + 1 <= Batches(t, b)
  <2>1. t + b - 1 \in Int /\ b * (q + 1) <= t + b - 1
    BY <1>2
  <2>. QED BY <2>1, Divided DEF Batches
<1>. QED BY <1>1, <1>2, <1>3, <1>4, <1>5 DEF w

LEMMA FewBatches ==
  ASSUME NEW b \in Nat \ {0}
  PROVE  Batches(0, b) = 0 /\ Batches(1, b) = 1 /\ \A t \in Nat : Batches(t, b) \in Nat
<1>1. Batches(0, b) = 0
  <2>1. 0 + b - 1 \in Int /\ b * 0 <= 0 + b - 1 /\ 0 + b - 1 < b * 0 + b
    OBVIOUS
  <2>. QED BY <2>1, Divided DEF Batches
<1>2. Batches(1, b) = 1
  <2>1. 1 + b - 1 \in Int /\ b * 1 <= 1 + b - 1 /\ 1 + b - 1 < b * 1 + b
    OBVIOUS
  <2>. QED BY <2>1, Divided DEF Batches
<1>3. ASSUME NEW t \in Nat PROVE Batches(t, b) \in Nat
  <2>1. t + b - 1 \in Int /\ b * 0 <= t + b - 1
    OBVIOUS
  <2>2. Batches(t, b) \in Int /\ 0 <= Batches(t, b)
    BY <2>1, Divided DEF Batches
  <2>. QED BY <2>2
<1>. QED BY <1>1, <1>2, <1>3

\* The requests and credits of the plan, and what an item of Twelve Data adds to them.
WindowBatches == Batches(Securities, TwelveBatch)
PlanRequests == Securities + 8 * WindowBatches + 16
PlanCredits == Securities + 8 * Securities + 16

LEMMA PlanIsApproved ==
  /\ WindowBatches \in Nat /\ PlanRequests \in Nat /\ PlanCredits \in Nat
  /\ PlanRequests + 1 <= StudyRequests /\ PlanCredits + 1 <= StudyCredits
<1>1. Securities \in Nat /\ TwelveBatch \in Nat \ {0} /\ StudyRequests \in Nat /\ StudyCredits \in Nat
  BY ConstantsAssumption
<1>2. WindowBatches \in Nat
  BY <1>1, FewBatches DEF WindowBatches
<1>3. /\ Securities + 8 * Securities + 14 + 2 + 1 <= StudyCredits
      /\ Securities + 8 * WindowBatches + 14 + 2 + 1 <= StudyRequests
  BY BudgetAssumption, Zenon DEF WindowBatches, Batches
<1>. QED BY <1>1, <1>2, <1>3 DEF PlanRequests, PlanCredits

Total(u) == [requests |-> Before(u, WindowBatches), credits |-> Before(u, Securities)]

LEMMA UnpaidUnit ==
  ASSUME NEW u \in 1..Len(Work)
  PROVE  /\ Work[u].provider \in Providers
         /\ Work[u].targets \in Nat \ {0} /\ Work[u].batch \in Nat \ {0}
         /\ Work[u].provider # "twelve_data" => Total(u + 1) = Total(u)
<1>1. Securities \in Nat /\ WindowBatches \in Nat
  BY ConstantsAssumption, PlanIsApproved
<1>2. Work[u] \in Items
  BY <1>1, PaidItem
<1>3. Work[u].provider # "twelve_data" => Total(u + 1) = Total(u)
  BY <1>1, PaidItem DEF Total
<1>. QED BY <1>2, <1>3 DEF Items

LEMMA PaidUnit ==
  ASSUME NEW u \in 1..Len(Work), Work[u].provider = "twelve_data"
  PROVE  /\ Before(u, WindowBatches) \in Nat /\ Before(u, Securities) \in Nat
         /\ Before(u + 1, WindowBatches)
              = Before(u, WindowBatches) + Batches(Work[u].targets, Work[u].batch)
         /\ Before(u + 1, Securities) = Before(u, Securities) + Work[u].targets
         /\ Before(u + 1, WindowBatches) <= PlanRequests /\ Before(u + 1, Securities) <= PlanCredits
         /\ Work[u].batch <= MaxSymbols /\ Work[u].batch <= WindowCredits
<1>1. /\ Securities \in Nat /\ WindowBatches \in Nat /\ TwelveBatch \in Nat \ {0}
      /\ MaxSymbols \in Nat \ {0} /\ WindowCredits \in Nat
  BY ConstantsAssumption, PlanIsApproved
<1>2. Work[u].batch \in {1, TwelveBatch} /\ Work[u].batch \in Nat \ {0}
  <2>1. Work[u].provider # "alpaca"
    OBVIOUS
  <2>2. Work[u].batch \in {1, TwelveBatch}
    BY <1>1, <2>1, PaidItem
  <2>. QED BY <1>1, <2>2
<1>3. Work[u].batch <= MaxSymbols /\ Work[u].batch <= WindowCredits
  <2>1. TwelveBatch <= MaxSymbols /\ TwelveBatch <= WindowCredits
    BY BudgetAssumption, Zenon
  <2>2. /\ 1 <= TwelveBatch /\ 1 <= MaxSymbols /\ 1 <= WindowCredits
    BY <1>1, <2>1
  <2>. QED BY <1>2, <2>1, <2>2
<1>4. Before(u, WindowBatches) \in Nat /\ Before(u, Securities) \in Nat
  BY <1>1, PaidItem
<1>5. Batches(1, Work[u].batch) = 1
  BY <1>2, FewBatches
<1>6. Before(u + 1, WindowBatches)
        = Before(u, WindowBatches) + Batches(Work[u].targets, Work[u].batch)
  <2>1. \/ Work[u].targets = 1 /\ Before(u + 1, WindowBatches) = Before(u, WindowBatches) + 1
        \/ /\ Work[u].targets = Securities /\ Work[u].batch = TwelveBatch
           /\ Before(u + 1, WindowBatches) = Before(u, WindowBatches) + WindowBatches
    BY <1>1, PaidItem
  <2>. QED BY <1>5, <2>1 DEF WindowBatches
<1>7. Before(u + 1, Securities) = Before(u, Securities) + Work[u].targets
  <2>1. \/ Work[u].targets = 1 /\ Before(u + 1, Securities) = Before(u, Securities) + 1
        \/ /\ Work[u].targets = Securities
           /\ Before(u + 1, Securities) = Before(u, Securities) + Securities
    BY <1>1, PaidItem
  <2>. QED BY <2>1
<1>8. Before(u + 1, WindowBatches) <= PlanRequests /\ Before(u + 1, Securities) <= PlanCredits
  <2>1. u + 1 \in 1..Len(Work) + 1
    <3>1. Len(Work) \in Nat
      BY WorkAt
    <3>. QED BY <3>1
  <2>. QED BY <1>1, <2>1, PaidInAll DEF PlanRequests, PlanCredits
<1>. QED BY <1>3, <1>4, <1>6, <1>7, <1>8

\* What has been reserved when k targets of an item are planned.
Owed(u, k) ==
  IF u <= Len(Work) /\ Work[u].provider = "twelve_data"
    THEN [requests |-> Before(u, WindowBatches) + Batches(k, Work[u].batch),
          credits |-> Before(u, Securities) + k]
    ELSE Total(u)

LEMMA OwedAtTheEnds ==
  /\ Owed(1, 0) = Nothing
  /\ \A u \in 1..Len(Work) + 1 : Owed(u, 0) = Total(u)
  /\ \A u \in 1..Len(Work) : Owed(u, Work[u].targets) = Total(u + 1)
<1>0. Len(Work) \in Nat /\ Securities \in Nat /\ WindowBatches \in Nat
  BY ConstantsAssumption, WorkAt, PlanIsApproved
<1>1. ASSUME NEW u \in 1..Len(Work) + 1 PROVE Owed(u, 0) = Total(u)
  <2>1. CASE u <= Len(Work) /\ Work[u].provider = "twelve_data"
    <3>1. u \in 1..Len(Work)
      BY <1>0, <2>1
    <3>2. Batches(0, Work[u].batch) = 0
      BY <3>1, UnpaidUnit, FewBatches
    <3>3. Before(u, WindowBatches) \in Nat /\ Before(u, Securities) \in Nat
      BY <2>1, <3>1, PaidUnit
    <3>. QED BY <2>1, <3>2, <3>3 DEF Owed, Total
  <2>2. CASE ~(u <= Len(Work) /\ Work[u].provider = "twelve_data")
    BY <2>2 DEF Owed
  <2>. QED BY <2>1, <2>2
<1>2. ASSUME NEW u \in 1..Len(Work) PROVE Owed(u, Work[u].targets) = Total(u + 1)
  <2>1. CASE Work[u].provider = "twelve_data"
    <3>1. u <= Len(Work)
      BY <1>0
    <3>. QED BY <2>1, <3>1, PaidUnit DEF Owed, Total
  <2>2. CASE Work[u].provider # "twelve_data"
    BY <2>2, UnpaidUnit DEF Owed
  <2>. QED BY <2>1, <2>2
<1>3. Owed(1, 0) = Nothing
  <2>1. 1 \in 1..Len(Work) + 1
    BY <1>0
  <2>2. Before(1, WindowBatches) = 0 /\ Before(1, Securities) = 0
    BY <1>0, PaidInAll
  <2>. QED BY <1>1, <2>1, <2>2 DEF Total, Nothing
<1>. QED BY <1>1, <1>2, <1>3

\* A batch of Twelve Data is one more request, of its targets, and never too much.
LEMMA OwedForABatch ==
  ASSUME NEW u \in 1..Len(Work), Work[u].provider = "twelve_data",
         NEW k \in Nat, k < Work[u].targets, NEW q \in Nat, k = Work[u].batch * q
  PROVE  LET w == Next1(Work[u].targets, k, Work[u].batch) IN
         /\ w \in 1..WindowCredits /\ w <= MaxSymbols
         /\ Owed(u, k + w) = Credits(Owed(u, k), w)
         /\ Owed(u, k + w).requests <= PlanRequests /\ Owed(u, k + w).credits <= PlanCredits
         /\ Owed(u, k).requests + 1 <= PlanRequests /\ Owed(u, k).credits + w <= PlanCredits
<1>. DEFINE t == Work[u].targets
            b == Work[u].batch
            w == Next1(t, k, b)
            r == Before(u, WindowBatches)
            c == Before(u, Securities)
<1>1. t \in Nat \ {0} /\ b \in Nat \ {0} /\ u <= Len(Work)
  BY UnpaidUnit, WorkAt
<1>2. /\ r \in Nat /\ c \in Nat /\ r + Batches(t, b) <= PlanRequests /\ c + t <= PlanCredits
      /\ b <= MaxSymbols /\ b <= WindowCredits
  BY PaidUnit
<1>3. PlanRequests \in Nat /\ PlanCredits \in Nat /\ MaxSymbols \in Nat /\ WindowCredits \in Nat
  BY PlanIsApproved, ConstantsAssumption
<1>4. /\ w \in Nat \ {0} /\ w <= b /\ k + w <= t
      /\ Batches(k, b) \in Nat /\ Batches(k + w, b) = Batches(k, b) + 1
      /\ Batches(k, b) + 1 <= Batches(t, b) /\ Batches(t, b) \in Nat
  BY <1>1, OneMoreBatch
<1>5. \A j : Owed(u, j) = [requests |-> r + Batches(j, b), credits |-> c + j]
  BY <1>1 DEF Owed
<1>. HIDE DEF t, b, w, r, c
<1>. DEFINE m == Batches(k, b)
            n == Batches(t, b)
<1>6. /\ Owed(u, k) = [requests |-> r + m, credits |-> c + k]
      /\ Owed(u, k + w) = [requests |-> r + (m + 1), credits |-> c + (k + w)]
  <2>1. Owed(u, k) = [requests |-> r + Batches(k, b), credits |-> c + k]
    BY <1>5
  <2>2. Owed(u, k + w) = [requests |-> r + Batches(k + w, b), credits |-> c + (k + w)]
    BY <1>5
  <2>. QED BY <1>4, <2>1, <2>2, Zenon
<1>7. /\ m \in Nat /\ n \in Nat /\ m + 1 <= n /\ w \in Nat \ {0} /\ w <= b /\ k + w <= t
      /\ t \in Nat /\ b \in Nat /\ r \in Nat /\ c \in Nat /\ r + n <= PlanRequests /\ c + t <= PlanCredits
      /\ b <= MaxSymbols /\ b <= WindowCredits
  BY <1>1, <1>2, <1>4
<1>. HIDE DEF m, n
<1>8. w \in 1..WindowCredits /\ w <= MaxSymbols
  BY <1>3, <1>7
<1>9. r + (m + 1) <= PlanRequests /\ c + (k + w) <= PlanCredits
  BY <1>3, <1>7
<1>10. /\ Owed(u, k).requests = r + m /\ Owed(u, k).credits = c + k
       /\ Owed(u, k + w).requests = r + (m + 1) /\ Owed(u, k + w).credits = c + (k + w)
  <2>1. Owed(u, k) = [requests |-> r + m, credits |-> c + k]
    BY <1>6
  <2>2. Owed(u, k).requests = r + m /\ Owed(u, k).credits = c + k
    BY <2>1
  <2>3. Owed(u, k + w) = [requests |-> r + (m + 1), credits |-> c + (k + w)]
    BY <1>6
  <2>4. Owed(u, k + w).requests = r + (m + 1) /\ Owed(u, k + w).credits = c + (k + w)
    BY <2>3
  <2>. QED BY <2>2, <2>4
<1>11. r + (m + 1) = (r + m) + 1 /\ c + (k + w) = (c + k) + w
  BY <1>7
<1>12. Owed(u, k + w) = Credits(Owed(u, k), w)
  BY <1>6, <1>10, <1>11, Zenon DEF Credits
<1>13. /\ Owed(u, k + w).requests <= PlanRequests /\ Owed(u, k + w).credits <= PlanCredits
       /\ Owed(u, k).requests + 1 <= PlanRequests /\ Owed(u, k).credits + w <= PlanCredits
  BY <1>9, <1>10, <1>11, Zenon
<1>. QED BY <1>8, <1>12, <1>13 DEF t, b, w

------------------------------------------------------------------------------
\* Reserved is what the plan owes so far; sent is that, but for the request to come.
Amounts == [requests: Nat, credits: Nat]
InBatches(u, k) == \E q \in Nat : k = Work[u].batch * q
CreditInv ==
  /\ reserved \in Amounts /\ sent \in Amounts
  /\ at \in 1..Len(Work) + 1 /\ planned \in Nat /\ pending \in Nat
  /\ sent.requests <= reserved.requests /\ sent.credits <= reserved.credits
  /\ reserved.requests <= PlanRequests /\ reserved.credits <= PlanCredits
  /\ cause # "budget"
  /\ pc # "over" => exit = "running"
  /\ pc = "verdict" => cause = "none"
  /\ pc \in {"begin", "assert"} =>
       at = 1 /\ planned = 0 /\ reserved = Nothing /\ sent = Nothing
  /\ pc = "plan" =>
       /\ sent = reserved /\ reserved = Owed(at, planned)
       /\ at <= Len(Work) => planned < Work[at].targets /\ InBatches(at, planned)
  /\ pc = "ask" =>
       /\ at <= Len(Work) /\ reserved = Owed(at, planned)
       /\ planned <= Work[at].targets /\ (planned = Work[at].targets \/ InBatches(at, planned))
       /\ Paced => pending <= MaxSymbols
       /\ reserved = IF Paced THEN Credits(sent, pending) ELSE sent
  /\ pc \in {"delete", "verdict"} /\ cause = "none" => sent = reserved
  /\ exit = "0" => sent = reserved

LEMMA ChunkIsBatch ==
  ASSUME CreditInv, pc = "ask"
  PROVE  Chunk = pending /\ (Sent => sent' = reserved)
<1>1. Chunk = pending
  BY ConstantsAssumption DEF CreditInv, Chunk
<1>. QED BY <1>1 DEF Sent, CreditInv

LEMMA CreditInvAlways == Spec => []CreditInv
<1>0. /\ Len(Work) \in Nat /\ PlanRequests \in Nat /\ PlanCredits \in Nat
      /\ PlanRequests <= StudyRequests /\ PlanCredits <= StudyCredits
      /\ StudyRequests \in Nat /\ StudyCredits \in Nat
  <2>1. Len(Work) \in Nat
    BY WorkAt
  <2>. QED BY <2>1, PlanIsApproved, ConstantsAssumption
<1>1. Init => CreditInv
  <2>1. 1 \in 1..Len(Work) + 1
    BY <1>0
  <2>2. Nothing \in Amounts /\ Nothing.requests = 0 /\ Nothing.credits = 0
    BY DEF Nothing, Amounts
  <2>. QED BY <1>0, <2>1, <2>2 DEF Init, CreditInv
<1>2. CreditInv /\ [Next]_vars => CreditInv'
  <2>. SUFFICES ASSUME CreditInv, [Next]_vars PROVE CreditInv'
    OBVIOUS
  <2>1. CASE Begin
    <3>1. /\ pc = "begin" /\ UNCHANGED <<at, planned, pending, reserved, sent>>
          /\ \/ pc' = "assert" /\ cause' = cause /\ exit' = exit
             \/ pc' = "over" /\ cause' = "setup" /\ exit' = "1"
      BY <2>1 DEF Begin, credit
    <3>. QED BY <3>1 DEF CreditInv, Paced
  <2>2. CASE AssertExternal
    <3>1. /\ pc = "assert" /\ UNCHANGED <<at, planned, pending, reserved, sent, exit>>
          /\ \/ pc' = "delete" /\ cause' = "inside"
             \/ pc' = "plan" /\ cause' = cause
      BY <2>2 DEF AssertExternal, Abort, credit
    <3>2. CASE pc' = "delete" /\ cause' = "inside"
      BY <3>1, <3>2 DEF CreditInv
    <3>3. CASE pc' = "plan" /\ cause' = cause
      <4>1. /\ at' = 1 /\ planned' = 0 /\ reserved' = Nothing /\ sent' = Nothing
            /\ Owed(at', planned') = Nothing
        BY <3>1, OwedAtTheEnds DEF CreditInv
      <4>2. 1 <= Len(Work) => 0 < Work[1].targets /\ InBatches(1, 0)
        <5>. SUFFICES ASSUME 1 <= Len(Work) PROVE 0 < Work[1].targets /\ InBatches(1, 0)
          OBVIOUS
        <5>1. Work[1].targets \in Nat \ {0} /\ Work[1].batch \in Nat
          BY <1>0, UnpaidUnit
        <5>2. 0 = Work[1].batch * 0
          BY <5>1
        <5>. QED BY <5>1, <5>2 DEF InBatches
      <4>3. /\ sent' = reserved' /\ reserved' = Owed(at', planned')
            /\ at' <= Len(Work) => planned' < Work[at'].targets /\ InBatches(at', planned')
        BY <4>1, <4>2
      <4>. QED BY <3>1, <3>3, <4>3 DEF CreditInv
    <3>. QED BY <3>1, <3>2, <3>3
  <2>3. CASE Plan
    <3>. DEFINE w == Next1(Work[at].targets, planned, Work[at].batch)
    <3>0. /\ pc = "plan" /\ at <= Len(Work) /\ at \in 1..Len(Work)
          /\ planned < Work[at].targets /\ reserved = Owed(at, planned) /\ sent = reserved
          /\ planned \in Nat /\ InBatches(at, planned)
      BY <1>0, <2>3 DEF Plan, CreditInv
    <3>1. PICK q \in Nat : planned = Work[at].batch * q
      BY <3>0 DEF InBatches
    <3>2. Work[at].targets \in Nat \ {0} /\ Work[at].batch \in Nat \ {0}
      BY <3>0, UnpaidUnit
    <3>3. /\ w \in Nat \ {0} /\ planned + w <= Work[at].targets
          /\ planned + w = Work[at].targets \/ planned + w = Work[at].batch * (q + 1)
      <4>. DEFINE t == Work[at].targets
                  b == Work[at].batch
                  v == Next1(t, planned, b)
      <4>1. /\ t \in Nat \ {0} /\ b \in Nat \ {0} /\ planned \in Nat /\ planned < t
            /\ q \in Nat /\ planned = b * q
        BY <3>0, <3>1, <3>2
      <4>2. w = v
        OBVIOUS
      <4>. HIDE DEF t, b, w
      <4>3. v \in Nat \ {0} /\ planned + v <= t /\ (planned + v = t \/ planned + v = b * (q + 1))
        <5>1. v \in Nat \ {0} /\ planned + v <= t /\ (planned + v = t \/ v = b)
          BY <4>1 DEF Next1
        <5>2. b * q \in Int /\ b * (q + 1) = b * q + b
          BY <4>1, Divided
        <5>. QED BY <4>1, <5>1, <5>2
      <4>4. w \in Nat \ {0} /\ planned + w <= t /\ (planned + w = t \/ planned + w = b * (q + 1))
        BY <4>2, <4>3
      <4>. QED BY <4>4 DEF t, b
    <3>4. InBatches(at, planned + w) \/ planned + w = Work[at].targets
      BY <3>3 DEF InBatches
    <3>5. Batch = w
      BY DEF Batch, Next1
    <3>. HIDE DEF w
    <3>6. /\ planned' = planned + w /\ pending' = w /\ UNCHANGED <<at, sent, exit>>
          /\ planned' \in Nat /\ pending' \in Nat
      BY <2>3, <3>0, <3>3, <3>5 DEF Plan
    <3>7. CASE ~Paced
      <4>1. pc' = "ask" /\ UNCHANGED <<reserved, cause>>
        BY <2>3, <3>7 DEF Plan
      <4>2. Owed(at, planned + w) = Owed(at, planned)
        BY <3>7 DEF Owed, Paced
      <4>3. ~Paced'
        BY <3>6, <3>7 DEF Paced
      <4>. QED BY <3>0, <3>3, <3>4, <3>6, <4>1, <4>2, <4>3 DEF CreditInv
    <3>8. CASE Paced
      <4>1. /\ w \in 1..WindowCredits /\ w <= MaxSymbols
            /\ Owed(at, planned + w) = Credits(reserved, w)
            /\ Owed(at, planned + w).requests <= PlanRequests
            /\ Owed(at, planned + w).credits <= PlanCredits
            /\ reserved.requests + 1 <= PlanRequests /\ reserved.credits + w <= PlanCredits
        BY <3>0, <3>1, <3>8, OwedForABatch DEF Paced, w
      <4>2. reserved.requests \in Nat /\ reserved.credits \in Nat
        BY DEF CreditInv, Amounts
      <4>3. Allowed(w)
        BY <1>0, <3>3, <4>1, <4>2 DEF Allowed
      <4>4. reserved' = Credits(reserved, w) /\ pc' = "ask" /\ UNCHANGED cause
        BY <2>3, <3>5, <3>8, <4>3 DEF Plan
      <4>5. /\ reserved' \in Amounts
            /\ reserved'.requests = reserved.requests + 1 /\ reserved'.credits = reserved.credits + w
        BY <3>3, <4>2, <4>4 DEF Credits, Amounts
      <4>6. /\ sent'.requests <= reserved'.requests /\ sent'.credits <= reserved'.credits
            /\ reserved'.requests <= PlanRequests /\ reserved'.credits <= PlanCredits
        BY <3>0, <3>3, <3>6, <4>1, <4>2, <4>5
      <4>7. reserved' = Owed(at', planned') /\ reserved' = Credits(sent', pending') /\ Paced'
        BY <3>0, <3>6, <3>8, <4>1, <4>4 DEF Paced
      <4>. QED BY <3>0, <3>3, <3>4, <3>6, <4>1, <4>4, <4>5, <4>6, <4>7 DEF CreditInv
    <3>. QED BY <3>7, <3>8
  <2>4. CASE RequestFails
    <3>1. /\ pc = "ask" /\ pc' = "delete" /\ cause' = "request" /\ Sent
          /\ UNCHANGED <<at, planned, pending, reserved, exit>>
      BY <2>4 DEF RequestFails, Abort
    <3>2. sent' = reserved
      BY <3>1, ChunkIsBatch
    <3>3. reserved.requests \in Nat /\ reserved.credits \in Nat
      BY DEF CreditInv, Amounts
    <3>. QED BY <3>1, <3>2, <3>3 DEF CreditInv
  <2>5. CASE Request
    <3>1. /\ pc = "ask" /\ Sent /\ pending' = pending - Chunk
          /\ UNCHANGED <<reserved, cause, exit>>
      BY <2>5 DEF Request
    <3>2. sent' = reserved /\ pending' = 0
      BY <3>1, ChunkIsBatch DEF CreditInv
    <3>3. /\ pc' = "plan"
          /\ \/ planned = Work[at].targets /\ at' = at + 1 /\ planned' = 0
             \/ planned # Work[at].targets /\ at' = at /\ planned' = planned
      BY <2>5, <3>2 DEF Request
    <3>4. at \in 1..Len(Work) /\ planned \in Nat /\ reserved = Owed(at, planned)
      BY <1>0, <3>1 DEF CreditInv
    <3>5. /\ at' \in 1..Len(Work) + 1 /\ planned' \in Nat /\ reserved' = Owed(at', planned')
          /\ at' <= Len(Work) => planned' < Work[at'].targets /\ InBatches(at', planned')
      <4>1. CASE planned = Work[at].targets /\ at' = at + 1 /\ planned' = 0
        <5>1. at + 1 \in 1..Len(Work) + 1
          BY <1>0, <3>4
        <5>2. reserved = Total(at + 1) /\ Owed(at + 1, 0) = Total(at + 1)
          BY <3>4, <4>1, <5>1, OwedAtTheEnds
        <5>3. ASSUME at + 1 <= Len(Work)
              PROVE  0 < Work[at + 1].targets /\ InBatches(at + 1, 0)
          <6>1. at + 1 \in 1..Len(Work)
            BY <1>0, <5>1, <5>3
          <6>2. Work[at + 1].targets \in Nat \ {0} /\ Work[at + 1].batch \in Nat
            BY <6>1, UnpaidUnit
          <6>3. 0 = Work[at + 1].batch * 0
            BY <6>2
          <6>. QED BY <6>2, <6>3 DEF InBatches
        <5>. QED BY <3>1, <4>1, <5>1, <5>2, <5>3
      <4>2. CASE planned # Work[at].targets /\ at' = at /\ planned' = planned
        <5>1. planned <= Work[at].targets /\ InBatches(at, planned)
          BY <3>1, <4>2 DEF CreditInv
        <5>2. Work[at].targets \in Nat
          BY <3>4, UnpaidUnit
        <5>3. planned < Work[at].targets
          BY <3>4, <4>2, <5>1, <5>2
        <5>. QED BY <1>0, <3>1, <3>4, <4>2, <5>1, <5>3
      <4>. QED BY <3>3, <4>1, <4>2
    <3>6. reserved.requests \in Nat /\ reserved.credits \in Nat /\ reserved \in Amounts
      BY DEF CreditInv, Amounts
    <3>. QED BY <3>1, <3>2, <3>3, <3>5, <3>6 DEF CreditInv
  <2>6. CASE Conclude
    <3>1. /\ pc = "plan" /\ pc' = "delete"
          /\ UNCHANGED <<at, planned, pending, reserved, sent, cause, exit>>
      BY <2>6 DEF Conclude, credit
    <3>. QED BY <3>1 DEF CreditInv
  <2>7. CASE Delete
    <3>1. /\ pc = "delete" /\ UNCHANGED <<at, planned, pending, reserved, sent>>
          /\ \/ cause = "none" /\ pc' = "verdict" /\ UNCHANGED <<cause, exit>>
             \/ pc' = "over" /\ exit' = "1" /\ cause' \in {cause, "deletion"}
      BY <2>7 DEF Delete, credit
    <3>. QED BY <3>1 DEF CreditInv
  <2>8. CASE Verdict
    <3>1. /\ pc = "verdict" /\ pc' = "over"
          /\ UNCHANGED <<at, planned, pending, reserved, sent, cause>>
      BY <2>8 DEF Verdict, credit
    <3>. QED BY <3>1 DEF CreditInv
  <2>9. CASE Kill
    <3>1. /\ pc' = "over" /\ exit' = "killed"
          /\ UNCHANGED <<at, planned, pending, reserved, sent, cause>>
      BY <2>9 DEF Kill, credit
    <3>. QED BY <3>1 DEF CreditInv
  <2>10. CASE UNCHANGED vars
    <3>1. UNCHANGED <<pc, at, planned, pending, reserved, sent, cause, exit>>
      BY <2>10 DEF vars
    <3>2. Paced' = Paced
      BY <3>1 DEF Paced
    <3>. QED BY <3>1, <3>2 DEF CreditInv
  <2>. QED BY <2>1, <2>2, <2>3, <2>4, <2>5, <2>6, <2>7, <2>8, <2>9, <2>10 DEF Next
<1>. QED BY <1>1, <1>2, PTL DEF Spec

\* PaidAndApproved for every study whose budget covers its plan: the adapter asks for what
\* was reserved, no run fails for its budget, and the preflight still fits.
THEOREM StudyIsPaidFor == Spec => []PaidAndApproved
<1>1. CreditInv => PaidAndApproved
  <2>. SUFFICES ASSUME CreditInv PROVE PaidAndApproved
    OBVIOUS
  <2>1. /\ sent.requests \in Nat /\ sent.credits \in Nat
        /\ reserved.requests \in Nat /\ reserved.credits \in Nat
        /\ sent.requests <= reserved.requests /\ sent.credits <= reserved.credits
        /\ reserved.requests <= PlanRequests /\ reserved.credits <= PlanCredits
        /\ cause # "budget" /\ (exit = "0" => sent = reserved)
    BY DEF CreditInv, Amounts
  <2>2. sent.requests + 1 <= StudyRequests /\ sent.credits + 1 <= StudyCredits
    BY <2>1, PlanIsApproved, ConstantsAssumption
  <2>. QED BY <2>1, <2>2 DEF PaidAndApproved
<1>. QED BY <1>1, CreditInvAlways, PTL
===============================================================================
