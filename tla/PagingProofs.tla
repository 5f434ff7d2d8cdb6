----------------------------- MODULE PagingProofs -----------------------------
(***************************************************************************)
(* What the page loops promise, for any number of links, pages and series, *)
(* and any provider.                                                       *)
(*                                                                         *)
(* ChainComplete speaks of the pages that arrived.  To keep it, a step has *)
(* to know where the loop stands: the page in hand is the last one (InHand)*)
(* and the request about to go out continues the walk (Ahead); a link not  *)
(* in seen is new because seen holds the cursors of the series (Past).     *)
(***************************************************************************)
EXTENDS Paging, SequenceTheorems, TLAPS

Last == pages[Len(pages)]

\* The three parts of ChainComplete.
Linked ==
  \A i \in 1..Len(pages) :
    IF i = 1 \/ pages[i].series # pages[i - 1].series
      THEN /\ pages[i].cursor = Start /\ pages[i].number = 1
           /\ IF i = 1 THEN pages[i].series = 1
                       ELSE /\ pages[i].series = pages[i - 1].series + 1
                            /\ provider = "lookup" \/ pages[i - 1].next \in Blank
      ELSE /\ pages[i].cursor = pages[i - 1].next
           /\ pages[i].number = pages[i - 1].number + 1
Distinct ==
  \A i, j \in 1..Len(pages) :
    (i < j /\ pages[i].series = pages[j].series) => pages[i].cursor # pages[j].cursor
Ended ==
  pc = "returned" =>
    /\ pages # <<>> /\ Last.series = total
    /\ provider = "lookup" \/ Last.next \in Blank

\* The page in hand is the last one received.
InHand ==
  pc \in {"inspect", "persist", "resume"} =>
    /\ pages # <<>>
    /\ Last.series = series /\ Last.cursor = cursor /\ Last.number = number
    /\ Last.next = body
    /\ pc = "inspect" => provider = "massive"

\* seen holds the links of the series that were followed.
Past ==
  /\ cursor \in seen \cup {Start}
  /\ \A i \in 1..Len(pages) :
       /\ pages[i].series <= series
       /\ pages[i].series = series => pages[i].cursor \in seen \cup {Start}

\* The request about to go out is the next one of the walk.
Ahead ==
  pc = "fetch" =>
    /\ \A i \in 1..Len(pages) : pages[i].series = series => pages[i].cursor # cursor
    /\ IF pages = <<>> THEN series = 1 /\ cursor = Start /\ number = 1
       ELSE IF series = Last.series THEN cursor = Last.next /\ number = Last.number + 1
       ELSE /\ series = Last.series + 1 /\ cursor = Start /\ number = 1
            /\ provider = "lookup" \/ Last.next \in Blank

Inv == TypeOK /\ InHand /\ Past /\ Ahead /\ LostPagesExplained /\ Linked /\ Distinct /\ Ended

------------------------------------------------------------------------------
\* What a received page is, and what Append does to the pages.
Received(next) == [series |-> series, cursor |-> cursor, number |-> number, next |-> next,
                   stored |-> FALSE]

LEMMA ReceivedType ==
  ASSUME TypeOK, pc = "fetch", NEW next \in Nexts
  PROVE  Received(next) \in PageRecords
<1>1. series \in 1..MaxSeries /\ number \in 1..MaxPages
  BY ConstantsAssumption DEF TypeOK
<1>. QED BY <1>1 DEF Received, PageRecords, TypeOK

LEMMA AppendedPages ==
  ASSUME TypeOK, NEW page \in PageRecords, pages' = Append(pages, page)
  PROVE  /\ Len(pages) \in Nat /\ Len(pages') = Len(pages) + 1 /\ pages' # <<>>
         /\ \A i \in 1..Len(pages) : pages'[i] = pages[i]
         /\ pages'[Len(pages) + 1] = page
         /\ pages' \in Seq(PageRecords)
<1>1. pages \in Seq(PageRecords)
  BY DEF TypeOK
<1>. QED BY <1>1

\* Marking the last page as stored changes nothing else.
LEMMA StoredPages ==
  ASSUME TypeOK, pages # <<>>, pages' = [pages EXCEPT ![Len(pages)].stored = TRUE]
  PROVE  /\ Len(pages) \in Nat \ {0} /\ Len(pages') = Len(pages) /\ pages' # <<>>
         /\ \A i \in 1..Len(pages) : /\ pages'[i].series = pages[i].series
                                     /\ pages'[i].cursor = pages[i].cursor
                                     /\ pages'[i].number = pages[i].number
                                     /\ pages'[i].next = pages[i].next
         /\ \A i \in 1..Len(pages) : i # Len(pages) => pages'[i] = pages[i]
         /\ pages'[Len(pages)].stored = TRUE
         /\ pages' \in Seq(PageRecords)
<1>. DEFINE n == Len(pages)
            mark == [pages[n] EXCEPT !.stored = TRUE]
<1>1. pages \in Seq(PageRecords) /\ n \in 1..Len(pages) /\ n \in Nat \ {0}
  BY DEF TypeOK
<1>2. pages[n] \in PageRecords
  BY <1>1
<1>3. /\ mark \in PageRecords /\ mark.stored = TRUE
      /\ mark.series = pages[n].series /\ mark.cursor = pages[n].cursor
      /\ mark.number = pages[n].number /\ mark.next = pages[n].next
  BY <1>2 DEF PageRecords
<1>4. pages' = [pages EXCEPT ![n] = mark]
  OBVIOUS
<1>5. /\ pages' \in Seq(PageRecords)
      /\ Len(pages') = Len(pages)
      /\ \A i \in 1..Len(pages) : pages'[i] = IF i = n THEN mark ELSE pages[i]
  <2>1. mark \in PageRecords
    BY <1>3
  <2>. HIDE DEF mark, n
  <2>2. /\ [pages EXCEPT ![n] = mark] \in Seq(PageRecords)
        /\ Len([pages EXCEPT ![n] = mark]) = Len(pages)
        /\ \A i \in 1..Len(pages) :
             [pages EXCEPT ![n] = mark][i] = IF i = n THEN mark ELSE pages[i]
    BY <1>1, <2>1, ExceptSeq
  <2>. QED BY <1>4, <2>2
<1>6. pages' # <<>>
  BY <1>1, <1>5
<1>. QED BY <1>1, <1>3, <1>5, <1>6

------------------------------------------------------------------------------------
\* Every variable of the loop keeps its shape.
LEMMA TypeStep == TypeOK /\ [Next]_vars => TypeOK'
<1>. SUFFICES ASSUME TypeOK, [Next]_vars PROVE TypeOK'
  OBVIOUS
<1>. USE ConstantsAssumption
<1>0. Start \notin Links /\ "none" \in Nexts
  BY DEF Nexts, Blank, Start
<1>1. CASE FetchFails
  BY <1>1 DEF FetchFails, Asking, Raise, TypeOK, place
<1>2. ASSUME NEW next \in Nexts, Page(next) PROVE TypeOK'
  <2>1. pages' = Append(pages, Received(next)) /\ pc = "fetch"
    BY <1>2 DEF Page, Received, Asking
  <2>2. pages' \in Seq(PageRecords)
    BY <2>1, ReceivedType, AppendedPages
  <2>3. /\ pc' \in {"inspect", "persist"} /\ body' \in Nexts
        /\ UNCHANGED <<provider, total, series, number, cursor, seen, cause>>
    BY <1>2 DEF Page, place
  <2>. QED BY <2>1, <2>2, <2>3 DEF TypeOK
<1>3. CASE Inspect
  BY <1>3 DEF Inspect, Raise, TypeOK, place
<1>4. CASE Persist
  <2>1. CASE pages' = pages
    BY <1>4, <2>1 DEF Persist, Raise, TypeOK, place
  <2>2. CASE pages # <<>> /\ pages' = [pages EXCEPT ![Len(pages)].stored = TRUE]
    <3>1. pages' \in Seq(PageRecords)
      BY <2>2, StoredPages
    <3>2. /\ pc = "persist" /\ pc' \in {"resume", "raised"}
          /\ cause' \in {cause, "consumer", "storage"}
          /\ UNCHANGED <<provider, total, series, number, cursor, seen, body>>
      BY <1>4 DEF Persist, Raise, place
    <3>. QED BY <3>1, <3>2 DEF TypeOK
  <2>3. pages = <<>> => [pages EXCEPT ![Len(pages)].stored = TRUE] = pages
    OBVIOUS
  <2>. QED BY <1>4, <2>1, <2>2, <2>3 DEF Persist
<1>5. ASSUME EndSeries, pc = "resume", UNCHANGED <<provider, total, body, pages>>
      PROVE  TypeOK'
  BY <1>5 DEF EndSeries, TypeOK, place
<1>6. ASSUME NEW link \in Links, Follow(link), pc = "resume",
             UNCHANGED <<provider, total, body, pages>>
      PROVE  TypeOK'
  BY <1>6 DEF Follow, Raise, TypeOK, place
<1>7. ASSUME Raise("response"), UNCHANGED place, UNCHANGED <<provider, total, body, pages>>
      PROVE  TypeOK'
  BY <1>7 DEF Raise, TypeOK, place
<1>8. CASE Resume
  BY <1>5, <1>6, <1>7, <1>8
     DEF Resume, ResumeAlpaca, ResumeMassive, ResumeTwelveData, ResumeLookup, BodyError
<1>9. CASE UNCHANGED vars
  BY <1>9 DEF vars, TypeOK
<1>. QED BY <1>1, <1>2, <1>3, <1>4, <1>8, <1>9 DEF Next

LEMMA InitInv == Init => Inv
<1>. SUFFICES ASSUME Init PROVE Inv
  OBVIOUS
<1>. USE ConstantsAssumption
<1>1. TypeOK
  BY DEF Init, TypeOK, Nexts, Blank
<1>2. InHand /\ Past /\ Ahead
  BY DEF Init, InHand, Past, Ahead
<1>3. LostPagesExplained /\ Linked /\ Distinct /\ Ended
  BY DEF Init, LostPagesExplained, Linked, Distinct, Ended
<1>. QED BY <1>1, <1>2, <1>3 DEF Inv

\* The loops keep the shape of their state, for any provider, links and bounds.
THEOREM TypeCorrect == Spec => []TypeOK
<1>1. Init => TypeOK
  BY InitInv DEF Inv
<1>. QED BY <1>1, TypeStep, PTL DEF Spec

------------------------------------------------------------------------------
\* A step that touches neither the pages nor the place of the loop, and raises.
LEMMA RaiseStep ==
  ASSUME Inv, TypeOK', UNCHANGED <<provider, total, place, pages>>, pc' = "raised",
         LostPagesExplained'
  PROVE  Inv'
<1>1. UNCHANGED <<provider, total, series, number, cursor, seen, pages>>
  BY DEF place
<1>. QED BY <1>1 DEF Inv, InHand, Past, Ahead, Linked, Distinct, Ended, Last

\* A page that arrives continues the walk that Ahead promises.
LEMMA PageStep ==
  ASSUME Inv, TypeOK', NEW next \in Nexts, Page(next)
  PROVE  Inv'
<1>. DEFINE n == Len(pages)
            page == Received(next)
<1>1. /\ pc = "fetch" /\ pc' \in {"inspect", "persist"} /\ body' = next
      /\ pc' = "inspect" => provider = "massive"
      /\ UNCHANGED <<provider, total, series, number, cursor, seen, cause>>
  BY DEF Page, Asking, place
<1>2. pages' = Append(pages, page) /\ page \in PageRecords
  BY <1>1, ReceivedType DEF Page, Received, Inv
<1>3. /\ n \in Nat /\ Len(pages') = n + 1 /\ pages' # <<>>
      /\ \A i \in 1..n : pages'[i] = pages[i]
      /\ pages'[n + 1] = page
      /\ pages = <<>> => n = 0
      /\ pages # <<>> => n > 0
  <2>1. pages \in Seq(PageRecords)
    BY DEF Inv, TypeOK
  <2>2. n \in Nat /\ (pages = <<>> => n = 0) /\ (pages # <<>> => n > 0)
    BY <2>1
  <2>. HIDE DEF page
  <2>. QED BY <1>2, <2>2, AppendedPages DEF Inv
<1>4. /\ page.series = series /\ page.cursor = cursor /\ page.number = number
      /\ page.next = next /\ page.stored = FALSE
  BY DEF Received
<1>. HIDE DEF page, n
<1>5. InHand'
  <2>. USE DEF n
  <2>. QED BY <1>1, <1>3, <1>4 DEF InHand, Last
<1>6. Past'
  BY <1>1, <1>3, <1>4 DEF Inv, Past, TypeOK, n
<1>7. Ahead' /\ Ended'
  BY <1>1 DEF Ahead, Ended
<1>8. LostPagesExplained'
  <2>1. \A i \in 1..n : pages[i].stored
    BY <1>1 DEF Inv, LostPagesExplained, n
  <2>. QED BY <1>1, <1>3, <2>1 DEF LostPagesExplained, n
<1>9. Linked'
  <2>. SUFFICES ASSUME NEW i \in 1..n + 1
                PROVE  IF i = 1 \/ pages'[i].series # pages'[i - 1].series
                         THEN /\ pages'[i].cursor = Start /\ pages'[i].number = 1
                              /\ IF i = 1 THEN pages'[i].series = 1
                                          ELSE /\ pages'[i].series = pages'[i - 1].series + 1
                                               /\ provider = "lookup" \/ pages'[i - 1].next \in Blank
                         ELSE /\ pages'[i].cursor = pages'[i - 1].next
                              /\ pages'[i].number = pages'[i - 1].number + 1
    BY <1>1, <1>3 DEF Linked
  <2>1. CASE i \in 1..n
    <3>1. pages'[i] = pages[i] /\ (i # 1 => pages'[i - 1] = pages[i - 1])
      BY <1>3, <2>1
    <3>. QED BY <2>1, <3>1 DEF Inv, Linked, n
  <2>2. CASE i = n + 1 /\ n = 0
    BY <1>1, <1>3, <1>4, <2>2 DEF Inv, Ahead
  <2>3. CASE i = n + 1 /\ n > 0
    <3>1. pages'[i] = page /\ pages'[i - 1] = Last /\ i # 1 /\ pages # <<>>
      BY <1>3, <2>3 DEF Last, n
    <3>. QED BY <1>1, <1>4, <3>1 DEF Inv, Ahead
  <2>. QED BY <1>3, <2>1, <2>2, <2>3
<1>10. Distinct'
  <2>. SUFFICES ASSUME NEW i \in 1..n + 1, NEW j \in 1..n + 1, i < j,
                       pages'[i].series = pages'[j].series
                PROVE  pages'[i].cursor # pages'[j].cursor
    BY <1>3 DEF Distinct
  <2>1. CASE j \in 1..n
    BY <1>3, <2>1 DEF Inv, Distinct, n
  <2>2. CASE j = n + 1
    <3>1. i \in 1..n /\ pages'[i] = pages[i] /\ pages'[j] = page
      BY <1>3, <2>2
    <3>. QED BY <1>1, <1>4, <3>1 DEF Inv, Ahead, n
  <2>. QED BY <1>3, <2>1, <2>2
<1>. QED BY <1>5, <1>6, <1>7, <1>8, <1>9, <1>10 DEF Inv

\* Marking the page in hand as stored, and going on or not.
LEMMA PersistStep ==
  ASSUME Inv, TypeOK', Persist
  PROVE  Inv'
<1>1. /\ pc = "persist" /\ UNCHANGED <<provider, total, place, body>>
      /\ UNCHANGED <<series, number, cursor, seen>>
      /\ pc' \in {"resume", "raised"}
      /\ pages # <<>>
  BY DEF Persist, Raise, Inv, InHand, place
<1>2. CASE pages' = [pages EXCEPT ![Len(pages)].stored = TRUE]
  <2>1. /\ Len(pages) \in Nat \ {0} /\ Len(pages') = Len(pages) /\ pages' # <<>>
        /\ \A i \in 1..Len(pages) : /\ pages'[i].series = pages[i].series
                                    /\ pages'[i].cursor = pages[i].cursor
                                    /\ pages'[i].number = pages[i].number
                                    /\ pages'[i].next = pages[i].next
        /\ \A i \in 1..Len(pages) : i # Len(pages) => pages'[i] = pages[i]
        /\ pages'[Len(pages)].stored = TRUE
    BY <1>1, <1>2, StoredPages DEF Inv
  <2>2. InHand' /\ Ended' /\ Ahead'
    BY <1>1, <2>1 DEF Inv, InHand, Ended, Ahead, Last
  <2>3. Past'
    BY <1>1, <2>1 DEF Inv, Past
  <2>4. Linked'
    <3>. SUFFICES ASSUME NEW i \in 1..Len(pages)
                  PROVE  IF i = 1 \/ pages'[i].series # pages'[i - 1].series
                           THEN /\ pages'[i].cursor = Start /\ pages'[i].number = 1
                                /\ IF i = 1 THEN pages'[i].series = 1
                                            ELSE /\ pages'[i].series = pages'[i - 1].series + 1
                                                 /\ \/ provider = "lookup"
                                                    \/ pages'[i - 1].next \in Blank
                           ELSE /\ pages'[i].cursor = pages'[i - 1].next
                                /\ pages'[i].number = pages'[i - 1].number + 1
      BY <1>1, <2>1 DEF Linked
    <3>1. i # 1 => i - 1 \in 1..Len(pages)
      BY <2>1
    <3>. QED BY <2>1, <3>1 DEF Inv, Linked
  <2>5. Distinct'
    BY <2>1 DEF Inv, Distinct
  <2>6. LostPagesExplained'
    <3>1. \A i \in 1..Len(pages) : pages'[i].stored
      BY <1>1, <2>1 DEF Inv, LostPagesExplained
    <3>. QED BY <2>1, <3>1 DEF LostPagesExplained
  <2>. QED BY <2>2, <2>3, <2>4, <2>5, <2>6 DEF Inv
<1>3. CASE Raise("storage") /\ UNCHANGED pages
  <2>1. LostPagesExplained'
    BY <1>1, <1>3 DEF Inv, LostPagesExplained, Raise
  <2>. QED BY <1>1, <1>3, <2>1, RaiseStep DEF Raise
<1>. QED BY <1>2, <1>3 DEF Persist

\* After a page without a link the next series starts from the plain query.
LEMMA EndSeriesStep ==
  ASSUME Inv, TypeOK', EndSeries, pc = "resume", UNCHANGED <<provider, total, body, pages>>,
         provider = "lookup" \/ body \in Blank
  PROVE  Inv'
<1>1. LostPagesExplained'
  BY DEF Inv, LostPagesExplained, EndSeries
<1>2. Linked' /\ Distinct'
  BY DEF Inv, Linked, Distinct
<1>3. CASE series < total
  <2>1. /\ series' = series + 1 /\ number' = 1 /\ cursor' = Start /\ seen' = {}
        /\ pc' = "fetch" /\ series \in Nat
    BY <1>3 DEF EndSeries, Inv, TypeOK
  <2>2. \A i \in 1..Len(pages) : pages[i].series \in Nat
    <3>1. \A i \in 1..Len(pages) : pages[i] \in PageRecords
      BY DEF Inv, TypeOK
    <3>. QED BY <3>1 DEF PageRecords
  <2>3. Past' /\ Ahead'
    BY <2>1, <2>2 DEF Inv, Past, InHand, Ahead, Last
  <2>4. InHand' /\ Ended'
    BY <2>1 DEF InHand, Ended
  <2>. QED BY <1>1, <1>2, <2>3, <2>4 DEF Inv
<1>4. CASE ~(series < total)
  <2>1. /\ pc' = "returned" /\ UNCHANGED <<series, number, cursor, seen>> /\ series = total
    BY <1>4 DEF EndSeries, Inv, TypeOK, place
  <2>2. InHand' /\ Ended' /\ Ahead' /\ Past'
    BY <2>1 DEF Inv, InHand, Ended, Ahead, Past, Last
  <2>. QED BY <1>1, <1>2, <2>2 DEF Inv
<1>. QED BY <1>3, <1>4

\* A link that is not in seen was not followed in this series.
LEMMA FollowStep ==
  ASSUME Inv, TypeOK', NEW link \in Links, Follow(link), body = link, pc = "resume",
         UNCHANGED <<provider, total, body, pages>>
  PROVE  Inv'
<1>1. LostPagesExplained'
  BY DEF Inv, LostPagesExplained, Follow, Raise
<1>2. CASE link \in seen
  <2>1. pc' = "raised" /\ UNCHANGED place
    BY <1>2 DEF Follow, Raise
  <2>. QED BY <1>1, <2>1, RaiseStep
<1>3. CASE link \notin seen
  <2>1. /\ seen' = seen \cup {link} /\ cursor' = link /\ number' = number + 1
        /\ series' = series /\ pc' \in {"raised", "fetch"}
    BY <1>3 DEF Follow, Raise
  <2>2. Linked' /\ Distinct' /\ InHand' /\ Ended'
    BY <2>1 DEF Inv, Linked, Distinct, InHand, Ended
  <2>3. Past'
    BY <2>1 DEF Inv, Past
  <2>4. link # Start
    BY ConstantsAssumption
  <2>5. Ahead'
    BY <1>3, <2>1, <2>4 DEF Inv, Past, Ahead, InHand, Last
  <2>. QED BY <1>1, <2>2, <2>3, <2>5 DEF Inv
<1>. QED BY <1>2, <1>3

LEMMA InvStep == Inv /\ [Next]_vars => Inv'
<1>. SUFFICES ASSUME Inv, [Next]_vars PROVE Inv'
  OBVIOUS
<1>0. TypeOK'
  BY TypeStep DEF Inv
<1>1. CASE FetchFails
  <2>1. UNCHANGED <<provider, total, place, pages>> /\ pc' = "raised" /\ pc = "fetch"
    BY <1>1 DEF FetchFails, Asking, Raise
  <2>2. LostPagesExplained'
    BY <2>1 DEF Inv, LostPagesExplained
  <2>. QED BY <1>0, <2>1, <2>2, RaiseStep
<1>2. ASSUME NEW next \in Nexts, Page(next) PROVE Inv'
  BY <1>0, <1>2, PageStep
<1>3. CASE Inspect
  <2>1. pc = "inspect" /\ UNCHANGED <<provider, total, place, body, pages>>
    BY <1>3 DEF Inspect
  <2>2. CASE body \in {"unusable", "blank"}
    <3>1. pc' = "raised" /\ cause' = "response"
      BY <1>3, <2>2 DEF Inspect, Raise
    <3>2. LostPagesExplained'
      BY <2>1, <2>2, <3>1 DEF Inv, LostPagesExplained, InHand, Last
    <3>. QED BY <1>0, <2>1, <3>1, <3>2, RaiseStep
  <2>3. CASE body \notin {"unusable", "blank"}
    <3>1. pc' = "persist" /\ UNCHANGED <<series, number, cursor, seen, cause>>
      BY <1>3, <2>1, <2>3 DEF Inspect, place
    <3>. QED BY <1>0, <2>1, <3>1
         DEF Inv, InHand, Past, Ahead, LostPagesExplained, Linked, Distinct, Ended, Last
  <2>. QED BY <2>2, <2>3
<1>4. CASE Persist
  BY <1>0, <1>4, PersistStep
<1>5. CASE Resume
  <2>1. pc = "resume" /\ UNCHANGED <<provider, total, body, pages>>
    BY <1>5 DEF Resume, ResumeAlpaca, ResumeMassive, ResumeTwelveData, ResumeLookup, BodyError
  <2>2. CASE EndSeries /\ (provider = "lookup" \/ body \in Blank)
    BY <1>0, <2>1, <2>2, EndSeriesStep
  <2>3. CASE Raise("response") /\ UNCHANGED place
    <3>1. LostPagesExplained'
      BY <2>1, <2>3 DEF Inv, LostPagesExplained, Raise
    <3>. QED BY <1>0, <2>1, <2>3, <3>1, RaiseStep DEF Raise
  <2>4. CASE body \in Links /\ Follow(body)
    BY <1>0, <2>1, <2>4, FollowStep
  <2>. QED BY <1>5, <2>2, <2>3, <2>4
       DEF Resume, ResumeAlpaca, ResumeMassive, ResumeTwelveData, ResumeLookup, BodyError, Blank
<1>6. CASE UNCHANGED vars
  BY <1>0, <1>6
     DEF vars, Inv, InHand, Past, Ahead, LostPagesExplained, Linked, Distinct, Ended, Last
<1>. QED BY <1>1, <1>2, <1>3, <1>4, <1>5, <1>6 DEF Next

LEMMA Invariance == Spec => []Inv
BY InitInv, InvStep, PTL DEF Spec

\* What a provider answered is stored before anything else happens to it, or the loss
\* has one of the three reasons, whatever the provider sends.
THEOREM LossesAreExplained == Spec => []LostPagesExplained
<1>1. Inv => LostPagesExplained
  BY DEF Inv
<1>. QED BY <1>1, Invariance, PTL

\* The pages of a call are a gapless walk of every series, for any page limit, any
\* number of series and any links a provider may invent.
THEOREM WalksAreComplete == Spec => []ChainComplete
<1>1. Inv => ChainComplete
  BY DEF Inv, ChainComplete, Linked, Distinct, Ended, Last
<1>. QED BY <1>1, Invariance, PTL
===============================================================================
