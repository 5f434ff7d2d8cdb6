--------------------------------- MODULE Study ---------------------------------
(***************************************************************************)
(* run_live_bakeoff and main (data/phase1_bakeoff_live.py) over the plan   *)
(* of data/phase1_bakeoff.py: the requests of the study, in their order,   *)
(* the credits reserved for Twelve Data, the private root everything is    *)
(* written to, and the verdict.                                            *)
(*                                                                         *)
(* The plan has its real numbers.  Of a page only what the verdict looks   *)
(* at is kept.  The pacer is taken at what it promises (module Pacer):     *)
(* credits within the budget, or an error.                                 *)
(***************************************************************************)
EXTENDS Naturals, Sequences

CONSTANTS
  Securities,      \* PHASE1_SECURITIES (16)
  AlpacaBatch, TwelveBatch,    \* batch_sizes of the plan (16, 8)
  MaxSymbols,      \* _MAX_SYMBOLS_PER_BATCH of the Twelve Data adapter (8)
  WindowCredits,   \* credits one reservation may ask for (8)
  StudyCredits,    \* approved credits (161)
  StudyRequests,   \* approved requests (49)
  MaxOdd           \* BOUND: odd outcomes of requests in one run

ASSUME ConstantsAssumption ==
  /\ {Securities, AlpacaBatch, TwelveBatch, MaxSymbols} \subseteq Nat \ {0}
  /\ {WindowCredits, StudyCredits, StudyRequests, MaxOdd} \subseteq Nat

\* TWELVE_DATA_BASIC_BUDGET: the approved numbers cover the references, eight windows of
\* all securities, fourteen of one, two pages of evidence and the preflight; a batch is
\* one request of the adapter and fits one reservation.
ASSUME BudgetAssumption ==
  /\ TwelveBatch <= MaxSymbols /\ TwelveBatch <= WindowCredits
  /\ Securities + 8 * Securities + 14 + 2 + 1 <= StudyCredits
  /\ Securities + 8 * ((Securities + TwelveBatch - 1) \div TwelveBatch) + 14 + 2 + 1
       <= StudyRequests

------------------------------------------------------------------------------
\* build_phase1_bar_windows: the 22 windows, with the number of their targets; the last
\* two are those of the ticker change.
Window(segment, targets) == [segment |-> segment, targets |-> targets]
Windows ==
  [i \in 1..22 |->
     CASE i = 1 -> Window("daily", Securities)
       [] i = 2 -> Window("daily_split", Securities)
       [] i \in 3..8 -> Window("calendar", Securities)
       [] i \in 9..20 -> Window(IF i % 2 = 1 THEN "boundary" ELSE "boundary_split", 1)
       [] i \in 21..22 -> Window("ticker", 1)]
Segments == {"daily", "daily_split", "calendar", "boundary", "boundary_split", "ticker"}

BatchSizes(provider) == IF provider = "alpaca" THEN AlpacaBatch ELSE TwelveBatch

\* What is asked of a provider in one go, in batches of so many targets.
Item(provider, kind, segment, targets, batch) ==
  [provider |-> provider, kind |-> kind, segment |-> segment, targets |-> targets, batch |-> batch]

\* build_provider_bar_request_plan: the windows up to one of them, in batches of targets.
BarPlan(provider, last) ==
  [i \in 1..last |->
     Item(provider, "bars", Windows[i].segment, Windows[i].targets, BatchSizes(provider))]

References(provider) == [i \in 1..Securities |-> Item(provider, "reference", "none", 1, 1)]
Evidence(provider) == [i \in 1..2 |-> Item(provider, "evidence", "none", 1, 1)]
Actions == <<Item("alpaca", "actions", "none", Securities, Securities)>>

\* The ticker control: mapped bars through the pipeline, unmapped ones as evidence.
TickerControl ==
  <<Item("alpaca", "bars", "ticker", 1, 1), Item("alpaca", "evidence", "none", 1, 1)>>

\* The work of the study: references, bars (Alpaca's without the ticker windows), actions,
\* adjustment evidence.
Work ==
  References("alpaca") \o References("twelve_data")
  \o BarPlan("alpaca", 20) \o TickerControl
  \o BarPlan("twelve_data", 22)
  \o Actions
  \o Evidence("alpaca") \o Evidence("twelve_data")

Providers == {"alpaca", "twelve_data"}

VARIABLES
  root,      \* the private root: "none", "empty", "written", "gone", "left"
  inside,    \* the system's temporary directory lies inside the repository
  pc,
  at,        \* position in Work
  planned,   \* targets of that item whose batches are planned
  pending,   \* those of the last batch not asked for yet
  reserved, sent,   \* Twelve Data requests and credits: promised by the pacer, used
  resolved,  \* references matched exactly, per provider
  seen, twice, flagged,   \* segments with rows and with duplicates, per provider;
                          \* providers with an error flagged by the pipeline
  odd,
  cause,     \* why the run raised
  cleanup,   \* the result says that the root was deleted
  exit       \* exit code, or "running"

vars == <<root, inside, pc, at, planned, pending, reserved, sent, resolved, seen, twice, flagged, odd,
          cause, cleanup, exit>>
evidence == <<resolved, seen, twice, flagged, odd>>
credit == <<reserved, sent>>

Nothing == [requests |-> 0, credits |-> 0]

Init ==
  /\ root = "none" /\ inside \in BOOLEAN
  /\ pc = "begin" /\ at = 1 /\ planned = 0 /\ pending = 0
  /\ reserved = Nothing /\ sent = Nothing
  /\ resolved = [p \in Providers |-> 0]
  /\ seen = [p \in Providers |-> {}] /\ twice = [p \in Providers |-> {}] /\ flagged = {}
  /\ odd = 0 /\ cause = "none" /\ cleanup = FALSE /\ exit = "running"

\* The exception leaves the context of the root, which deletes it.
Abort(why) == pc' = "delete" /\ cause' = why

\* Credentials, schedule and the temporary directory; a failure leaves nothing to delete.
Begin ==
  /\ pc = "begin"
  /\ \/ root' = "empty" /\ pc' = "assert" /\ UNCHANGED <<cause, exit>>
     \/ UNCHANGED root /\ pc' = "over" /\ cause' = "setup" /\ exit' = "1"
  /\ UNCHANGED <<inside, at, planned, pending, credit, evidence, cleanup>>

\* assert_external_private_data_root.
AssertExternal ==
  /\ pc = "assert"
  /\ IF inside THEN Abort("inside") ELSE pc' = "plan" /\ UNCHANGED cause
  /\ UNCHANGED <<root, inside, at, planned, pending, credit, evidence, cleanup, exit>>

Paced == Work[at].provider = "twelve_data"
Credits(r, cost) == [requests |-> r.requests + 1, credits |-> r.credits + cost]
Allowed(cost) ==
  /\ cost \in 1..WindowCredits
  /\ reserved.credits + cost <= StudyCredits /\ reserved.requests + 1 <= StudyRequests

\* The targets of the next batch.
Batch ==
  IF Work[at].targets - planned < Work[at].batch THEN Work[at].targets - planned
  ELSE Work[at].batch

\* The next batch of the work; before_request in front of those to Twelve Data.
Plan ==
  /\ pc = "plan" /\ at <= Len(Work)
  /\ planned' = planned + Batch /\ pending' = Batch
  /\ IF ~Paced THEN pc' = "ask" /\ UNCHANGED <<reserved, cause>>
     ELSE IF Allowed(Batch)
       THEN reserved' = Credits(reserved, Batch) /\ pc' = "ask" /\ UNCHANGED cause
       ELSE Abort("budget") /\ UNCHANGED reserved
  /\ UNCHANGED <<root, inside, at, sent, evidence, cleanup, exit>>

\* MUTANT: the adapter asks for fewer symbols at a time than the plan reserves for.
ChunkSmall == IF Paced /\ pending > MaxSymbols \div 2 THEN MaxSymbols \div 2 ELSE pending

\* _chunks: the symbols of one HTTP request.
Chunk == IF Paced /\ pending > MaxSymbols THEN MaxSymbols ELSE pending

Sent == sent' = IF Paced THEN Credits(sent, Chunk) ELSE sent

\* The adapter, a store or the pipeline raises.
RequestFails ==
  /\ pc = "ask"
  /\ Sent
  /\ root' \in {root, "written"}
  /\ Abort("request")
  /\ UNCHANGED <<inside, at, planned, pending, reserved, evidence, cleanup, exit>>

\* What a page can bring: what was asked for, or something odd.
Outcomes(kind) ==
  CASE kind = "reference" -> {"usual", "unmatched"}
    [] kind = "bars" -> {"usual", "empty", "repeat", "flagged"}
    [] OTHER -> {"usual"}

\* _resolve_*_references, _run_planned_bar_requests: what the page adds to the evidence.
\* A row that repeats one of an earlier page is in no page's flags.
Record(item, outcome) ==
  LET p == item.provider IN
  /\ resolved' = [resolved EXCEPT ![p] =
       @ + (IF item.kind = "reference" /\ outcome = "usual" THEN 1 ELSE 0)]
  /\ seen' = [seen EXCEPT ![p] =
       IF item.kind = "bars" /\ outcome # "empty" THEN @ \cup {item.segment} ELSE @]
  /\ twice' = [twice EXCEPT ![p] = IF outcome = "repeat" THEN @ \cup {item.segment} ELSE @]
  /\ flagged' = IF outcome = "flagged" THEN flagged \cup {p} ELSE flagged

\* One HTTP request and its page, stored below the root.
Request ==
  /\ pc = "ask"
  /\ Sent
  /\ root' = "written"
  /\ \E outcome \in Outcomes(Work[at].kind) :
       /\ odd' = IF outcome = "usual" THEN odd ELSE odd + 1
       /\ odd' <= MaxOdd
       /\ Record(Work[at], outcome)
  /\ pending' = pending - Chunk
  /\ pc' = IF pending' = 0 THEN "plan" ELSE "ask"
  /\ IF pending' = 0 /\ planned = Work[at].targets
       THEN at' = at + 1 /\ planned' = 0
       ELSE UNCHANGED <<at, planned>>
  /\ UNCHANGED <<inside, reserved, cause, cleanup, exit>>

\* The last request is done: the body of the context ends with its result.
Conclude ==
  /\ pc = "plan" /\ at > Len(Work)
  /\ pc' = "delete"
  /\ UNCHANGED <<root, inside, at, planned, pending, credit, evidence, cause, cleanup, exit>>

\* MUTANT: a failing deletion is ignored.
DeleteQuietly ==
  /\ pc = "delete"
  /\ root' \in {"gone", "left"}
  /\ IF cause = "none"
       THEN pc' = "verdict" /\ cleanup' = TRUE /\ UNCHANGED <<cause, exit>>
       ELSE pc' = "over" /\ exit' = "1" /\ UNCHANGED <<cleanup, cause>>
  /\ UNCHANGED <<inside, at, planned, pending, credit, evidence>>

\* phase1_temporary_data_root: the directory is removed on every way out; when that
\* fails, or the directory is still there, the run raises.
Delete ==
  /\ pc = "delete"
  /\ root' \in {"gone", "left"}
  /\ IF cause = "none" /\ root' = "gone"
       THEN pc' = "verdict" /\ cleanup' = TRUE /\ UNCHANGED <<cause, exit>>
       ELSE /\ pc' = "over" /\ exit' = "1" /\ UNCHANGED cleanup
            /\ cause' = IF root' = "gone" THEN cause ELSE "deletion"
  /\ UNCHANGED <<inside, at, planned, pending, credit, evidence>>

\* pipeline_pass of one provider: rows, and no error flag.
PipelinePass(p) == seen[p] # {} /\ p \notin flagged

\* MUTANT: rows of either provider are enough for a segment.
ComparisonPassEither ==
  \A s \in Segments : /\ s \in seen["alpaca"] \cup seen["twelve_data"]
                      /\ s \notin twice["alpaca"] \cup twice["twelve_data"]

\* _compare_segments: rows of both providers in every segment, no duplicates.
ComparisonPass ==
  \A s \in Segments : /\ s \in seen["alpaca"] \cap seen["twelve_data"]
                      /\ s \notin twice["alpaca"] \cup twice["twelve_data"]

\* main: the exit code from pipeline_acceptance.
Verdict ==
  /\ pc = "verdict"
  /\ pc' = "over"
  /\ exit' = IF /\ \A p \in Providers : resolved[p] = Securities /\ PipelinePass(p)
                /\ ComparisonPass
               THEN "0" ELSE "1"
  /\ UNCHANGED <<root, inside, at, planned, pending, credit, evidence, cause, cleanup>>

\* The process is killed.
Kill ==
  /\ pc \notin {"over", "begin"}
  /\ pc' = "over" /\ exit' = "killed"
  /\ UNCHANGED <<root, inside, at, planned, pending, credit, evidence, cause, cleanup>>

Next == Begin \/ AssertExternal \/ Plan \/ RequestFails \/ Request \/ Conclude \/ Delete
        \/ Verdict \/ Kill

Spec == Init /\ [][Next]_vars

------------------------------------------------------------------------------
\* What Twelve Data is asked for has been reserved, request by request and credit by
\* credit, although the pacer counts planned requests and the adapter splits them; a
\* run never fails for its budget, and it fits in what was approved with the preflight.
PaidAndApproved ==
  /\ sent.requests <= reserved.requests /\ sent.credits <= reserved.credits
  /\ cause # "budget"
  /\ exit = "0" => sent = reserved
  /\ sent.requests + 1 <= StudyRequests /\ sent.credits + 1 <= StudyCredits

\* An exit code of zero is earned: every request was made, every reference of both
\* providers matched, no page of either carried an error or a duplicate, both have rows
\* in every segment, and the private root is gone and reported so.
ExitZeroIsEarned ==
  exit = "0" =>
    /\ at > Len(Work) /\ cause = "none"
    /\ resolved = [p \in Providers |-> Securities]
    /\ flagged = {} /\ \A p \in Providers : seen[p] = Segments /\ twice[p] = {}
    /\ root = "gone" /\ cleanup

\* Private data does not outlive the run, and none is ever written inside the
\* repository: whatever raised, only a kill or a failed deletion leaves a root behind, a
\* failed deletion ends in a failure, and cleanup is only reported of a root that is gone.
NothingLeftBehind ==
  /\ inside => root # "written"
  /\ pc = "over" => root \in {"none", "gone"} \/ exit = "killed" \/ cause = "deletion"
  /\ cause = "deletion" => exit = "1"
  /\ cleanup => root = "gone"
===============================================================================
