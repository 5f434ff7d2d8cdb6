-------------------------------- MODULE Paging --------------------------------
(***************************************************************************)
(* The page loops of the provider adapters (data/providers/alpaca.py,      *)
(* massive.py, twelve_data.py) and the consumer that drives them: a page   *)
(* is yielded, stored, and only then is the next one asked for.            *)
(*                                                                         *)
(* The provider is free to answer anything: fail, repeat a link, invent    *)
(* one, or send a body that cannot be used.                                *)
(***************************************************************************)
EXTENDS Integers, Sequences

CONSTANTS
  Providers,   \* adapters: "alpaca", "massive", "twelve_data", "lookup"
  Links,       \* page tokens, or cursors of next_url
  MaxSeries,   \* BOUND: instruments (massive) or chunks (twelve_data) of a call
  MaxPages     \* pages of one series (1000)

Start == "start"                              \* the query without a page token
Blank == {"none", "blank"}                    \* an absent and an empty link
Nexts == Links \cup Blank \cup {"unusable"}   \* "unusable": the body or the link is bad

ASSUME ConstantsAssumption ==
  /\ MaxSeries \in Nat \ {0} /\ MaxPages \in Nat \ {0}
  /\ Links \cap (Blank \cup {"unusable", Start}) = {}

VARIABLES
  provider,
  total,   \* independent series of pages the call walks, one after another
  pc,
  series, number, cursor, seen,   \* series and page_number, the link being followed
  body,    \* the next link of the page in hand
  cause,   \* why the call raised
  pages    \* HISTORY: every page received

vars == <<provider, total, pc, series, number, cursor, seen, body, cause, pages>>
place == <<series, number, cursor, seen>>

Init ==
  /\ provider \in Providers
  /\ total \in IF provider \in {"alpaca", "lookup"} THEN {1} ELSE 1..MaxSeries
  /\ pc = "fetch"
  /\ series = 1 /\ number = 1 /\ cursor = Start /\ seen = {}
  /\ body = "none" /\ cause = "none"
  /\ pages = <<>>

Raise(why) == pc' = "raised" /\ cause' = why

\* A request goes out.  BOUND: the pages of a call are capped above what the loops
\* allow (LoopEnds fails when a loop reaches the cap).
Asking == pc = "fetch" /\ Len(pages) <= MaxSeries * MaxPages

\* The transport fails, the body is larger than its bound, or the status is not 2xx.
FetchFails ==
  /\ Asking
  /\ Raise("http")
  /\ UNCHANGED <<provider, total, place, body, pages>>

\* MUTANT: every adapter looks for its next link before it yields the page.
PageInspectedFirst(next) ==
  /\ Asking
  /\ next \in IF provider \in {"twelve_data", "lookup"} THEN {"none", "unusable"} ELSE Nexts
  /\ body' = next
  /\ pages' = Append(pages, [series |-> series, cursor |-> cursor, number |-> number,
                             next |-> next, stored |-> FALSE])
  /\ pc' = "inspect"
  /\ UNCHANGED <<provider, total, place, cause>>

\* A page arrives.
Page(next) ==
  /\ Asking
  /\ next \in IF provider \in {"twelve_data", "lookup"} THEN {"none", "unusable"} ELSE Nexts
  /\ body' = next
  /\ pages' = Append(pages, [series |-> series, cursor |-> cursor, number |-> number,
                             next |-> next, stored |-> FALSE])
  /\ pc' = IF provider = "massive" THEN "inspect" ELSE "persist"
  /\ UNCHANGED <<provider, total, place, cause>>

\* MassiveProvider._next_page, called before the page is yielded: next_url must be
\* one cursor on the same endpoint.
Inspect ==
  /\ pc = "inspect"
  /\ IF body \in {"unusable", "blank"}
       THEN Raise("response")
       ELSE pc' = "persist" /\ UNCHANGED cause
  /\ UNCHANGED <<provider, total, place, body, pages>>

\* The consumer stores the yielded page and asks for more, or raises: before the
\* page is stored, or after it (the pipeline refuses the stored page).
Persist ==
  /\ pc = "persist"
  /\ UNCHANGED <<provider, total, place, body>>
  /\ \/ pages' = [pages EXCEPT ![Len(pages)].stored = TRUE]
        /\ \/ pc' = "resume" /\ UNCHANGED cause
           \/ Raise("consumer")
     \/ Raise("storage") /\ UNCHANGED pages

------------------------------------------------------------------------------
\* MUTANT: the next series begins where the last one ended.
EndSeriesKeepsCursor ==
  IF series < total
    THEN /\ series' = series + 1 /\ number' = 1 /\ seen' = {}
         /\ pc' = "fetch" /\ UNCHANGED <<cursor, cause>>
    ELSE pc' = "returned" /\ UNCHANGED <<place, cause>>

\* A series is over: the next instrument or chunk, or the end of the call.
EndSeries ==
  IF series < total
    THEN /\ series' = series + 1 /\ number' = 1 /\ cursor' = Start /\ seen' = {}
         /\ pc' = "fetch" /\ UNCHANGED cause
    ELSE pc' = "returned" /\ UNCHANGED <<place, cause>>

\* MUTANT: the loop neither remembers the links it followed nor counts its pages.
FollowForgets(link) ==
  /\ cursor' = link /\ UNCHANGED <<series, number, seen>>
  /\ pc' = "fetch" /\ UNCHANGED cause

\* Follow a link, unless it was followed before or the series is too long.
Follow(link) ==
  IF link \in seen
    THEN Raise("response") /\ UNCHANGED place
    ELSE /\ seen' = seen \cup {link} /\ cursor' = link /\ number' = number + 1
         /\ UNCHANGED series
         /\ IF number + 1 > MaxPages
              THEN Raise("response")
              ELSE pc' = "fetch" /\ UNCHANGED cause

\* The generators are asked for more.  A lookup of one asset inspects nothing.
ResumeAlpaca ==
  /\ pc = "resume" /\ provider = "alpaca"
  /\ \/ body \in Blank /\ EndSeries
     \/ body = "unusable" /\ Raise("response") /\ UNCHANGED place
     \/ body \in Links /\ Follow(body)
  /\ UNCHANGED <<provider, total, body, pages>>

ResumeMassive ==
  /\ pc = "resume" /\ provider = "massive"
  /\ \/ body = "none" /\ EndSeries
     \/ body \in Links /\ Follow(body)
  /\ UNCHANGED <<provider, total, body, pages>>

\* _raise_body_error: the body is no JSON object, or says that the request failed.
BodyError == body = "unusable"

ResumeTwelveData ==
  /\ pc = "resume" /\ provider = "twelve_data"
  /\ \/ body = "none" /\ EndSeries
     \/ BodyError /\ Raise("response") /\ UNCHANGED place
  /\ UNCHANGED <<provider, total, body, pages>>

ResumeLookup ==
  /\ pc = "resume" /\ provider = "lookup"
  /\ EndSeries
  /\ UNCHANGED <<provider, total, body, pages>>

Resume == ResumeAlpaca \/ ResumeMassive \/ ResumeTwelveData \/ ResumeLookup

Next == FetchFails \/ (\E next \in Nexts : Page(next)) \/ Inspect \/ Persist \/ Resume

Spec == Init /\ [][Next]_vars
FairSpec == Spec /\ WF_vars(Next)

------------------------------------------------------------------------------
PageRecords == [series: 1..MaxSeries, cursor: Links \cup {Start}, number: 1..MaxPages,
                next: Nexts, stored: BOOLEAN]

\* Every variable keeps its shape.
TypeOK ==
  /\ provider \in Providers /\ total \in 1..MaxSeries
  /\ pc \in {"fetch", "inspect", "persist", "resume", "returned", "raised"}
  /\ series \in 1..total /\ number \in 1..MaxPages + 1
  /\ pc \notin {"raised"} => number <= MaxPages
  /\ cursor \in Links \cup {Start} /\ seen \subseteq Links
  /\ body \in Nexts /\ cause \in {"none", "http", "response", "storage", "consumer"}
  /\ pages \in Seq(PageRecords)

\* What a provider answered is evidence before anything else happens to it: a page
\* that is not stored is the one in hand, or the one whose storing failed, or a
\* Massive page whose next_url was refused.
LostPagesExplained ==
  \A i \in 1..Len(pages) : ~pages[i].stored =>
    /\ i = Len(pages)
    /\ \/ pc \in {"inspect", "persist"}
       \/ pc = "raised" /\ cause = "storage"
       \/ /\ pc = "raised" /\ cause = "response"
          /\ provider = "massive" /\ pages[i].next \in {"unusable", "blank"}

\* Whatever links the provider sends, the pages of a call are a gapless walk: every
\* series starts from the plain query and follows link after link, no link twice,
\* until a page without one, and a call that returned walked every series.
ChainComplete ==
  /\ \A i \in 1..Len(pages) :
       IF i = 1 \/ pages[i].series # pages[i - 1].series
         THEN /\ pages[i].cursor = Start /\ pages[i].number = 1
              /\ IF i = 1 THEN pages[i].series = 1
                          ELSE /\ pages[i].series = pages[i - 1].series + 1
                               /\ provider = "lookup" \/ pages[i - 1].next \in Blank
         ELSE /\ pages[i].cursor = pages[i - 1].next
              /\ pages[i].number = pages[i - 1].number + 1
  /\ \A i, j \in 1..Len(pages) :
       (i < j /\ pages[i].series = pages[j].series) => pages[i].cursor # pages[j].cursor
  /\ pc = "returned" =>
       /\ pages # <<>> /\ pages[Len(pages)].series = total
       /\ provider = "lookup" \/ pages[Len(pages)].next \in Blank

\* Every page that arrived has been stored once the call is over and its storing did
\* not fail.
EveryPageIsEvidence ==
  (pc \in {"returned", "raised"} /\ cause # "storage") =>
    \A i \in 1..Len(pages) : pages[i].stored

\* The call ends, whatever the provider answers.
LoopEnds == <>(pc \in {"returned", "raised"})
===============================================================================
