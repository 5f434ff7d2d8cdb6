-------------------------------- MODULE Pacer --------------------------------
(***************************************************************************)
(* TwelveDataBasicPacer.before_request (data/phase1_bakeoff.py): a         *)
(* rolling-minute credit window and two study budgets in front of every    *)
(* provider call.  The clock moves between calls, and a sleep ends when    *)
(* the sleeper says so: late, early, or without the clock having moved.    *)
(*                                                                         *)
(* Time is counted in ticks.  A retained event is the set of its credits,  *)
(* so that a sum of costs is the size of a set.                            *)
(***************************************************************************)
EXTENDS Integers, FiniteSets

CONSTANTS
  Window,        \* ticks in the rolling window (60 s)
  Safety,        \* ticks of safety_seconds
  WindowCredits, \* credits the window may hold (8)
  StudyCredits,  \* approved credits (161)
  StudyRequests, \* approved requests (49)
  MaxTime        \* BOUND: the last tick of the clock

ASSUME ConstantsAssumption ==
  /\ Window \in Nat \ {0} /\ Safety \in Nat
  /\ WindowCredits \in Nat \ {0}
  /\ StudyCredits \in Nat /\ StudyRequests \in Nat
  /\ MaxTime \in Nat

VARIABLES
  clock,
  events,        \* retained credits: [call, unit, at]
  credits_used, request_count,
  pc,
  cost,          \* credit_cost of the running call
  asked,         \* what the pacer asked the sleeper to wait, 0 when awake
  slept,         \* tick at which that sleep began
  sleeps,        \* sleeps of the running call
  early,         \* HISTORY: some sleep of the running call was shorter than asked
  spent,         \* HISTORY: every credit ever reserved
  refused        \* HISTORY: why calls were refused

vars == <<clock, events, credits_used, request_count, pc, cost, asked, slept, sleeps,
          early, spent, refused>>
ledger == <<events, credits_used, request_count, spent>>
sleep == <<asked, slept, sleeps, early>>

Init ==
  /\ clock = 0
  /\ events = {} /\ credits_used = 0 /\ request_count = 0
  /\ pc = "idle" /\ cost = 0
  /\ asked = 0 /\ slept = 0 /\ sleeps = 0 /\ early = FALSE
  /\ spent = {}
  /\ refused = {}

\* The study does something else.
Tick ==
  /\ pc = "idle"
  /\ clock' \in clock + 1 .. MaxTime
  /\ UNCHANGED <<ledger, pc, cost, sleep, refused>>

\* MUTANT: the budgets are checked without the call's own cost.
CallUnbudgeted(c) ==
  /\ pc = "idle"
  /\ IF /\ c \in 1..WindowCredits
        /\ credits_used <= StudyCredits
        /\ request_count <= StudyRequests
       THEN pc' = "look" /\ cost' = c /\ UNCHANGED refused
       ELSE /\ refused' = refused \cup {IF c \in 1..WindowCredits THEN "budget" ELSE "cost"}
            /\ UNCHANGED <<pc, cost>>
  /\ UNCHANGED <<clock, ledger, sleep>>

\* before_request(credit_cost): the argument and the two budgets.
Call(c) ==
  /\ pc = "idle"
  /\ IF /\ c \in 1..WindowCredits
        /\ credits_used + c <= StudyCredits
        /\ request_count + 1 <= StudyRequests
       THEN pc' = "look" /\ cost' = c /\ UNCHANGED refused
       ELSE /\ refused' = refused \cup {IF c \in 1..WindowCredits THEN "budget" ELSE "cost"}
            /\ UNCHANGED <<pc, cost>>
  /\ UNCHANGED <<clock, ledger, sleep>>

\* MUTANT: the window is left one tick early.
RecentTooShort == {e \in events : clock - e.at < Window - 1}

\* What the window still holds: events leave it when they are Window old.
Recent == {e \in events : clock - e.at < Window}

Oldest(es) == CHOOSE t \in {e.at : e \in es} : \A e \in es : t <= e.at

Units(c) == [call: {request_count}, unit: 1..c, at: {clock}]

\* MUTANT: a call that had to wait is not charged.
ReserveUncharged ==
  /\ pc = "look"
  /\ Cardinality(Recent) + cost <= WindowCredits
  /\ events' = Recent \cup Units(cost)
  /\ spent' = spent \cup Units(cost)
  /\ credits_used' = IF sleeps = 0 THEN credits_used + cost ELSE credits_used
  /\ request_count' = request_count + 1
  /\ pc' = "idle" /\ cost' = 0 /\ sleeps' = 0 /\ early' = FALSE
  /\ UNCHANGED <<clock, asked, slept, refused>>

\* One turn of the loop: reserve the credits and return.
Reserve ==
  /\ pc = "look"
  /\ Cardinality(Recent) + cost <= WindowCredits
  /\ events' = Recent \cup Units(cost)
  /\ spent' = spent \cup Units(cost)
  /\ credits_used' = credits_used + cost
  /\ request_count' = request_count + 1
  /\ pc' = "idle" /\ cost' = 0 /\ sleeps' = 0 /\ early' = FALSE
  /\ UNCHANGED <<clock, asked, slept, refused>>

\* MUTANT: a short pause before looking again.
WaitShort ==
  /\ pc = "look"
  /\ Cardinality(Recent) + cost > WindowCredits
  /\ events' = Recent
  /\ asked' = 1
  /\ slept' = clock
  /\ pc' = "sleep"
  /\ UNCHANGED <<clock, credits_used, request_count, spent, cost, sleeps, early, refused>>

\* ... or ask for a sleep until the oldest event leaves the window.
Wait ==
  /\ pc = "look"
  /\ Cardinality(Recent) + cost > WindowCredits
  /\ events' = Recent
  /\ LET wait == Oldest(Recent) + Window - clock + Safety
     IN asked' = IF wait > Safety THEN wait ELSE Safety
  /\ slept' = clock
  /\ pc' = "sleep"
  /\ UNCHANGED <<clock, credits_used, request_count, spent, cost, sleeps, early, refused>>

\* MUTANT: no look at the clock after the sleep.
WakeUnchecked ==
  /\ pc = "sleep"
  /\ clock' \in clock .. MaxTime
  /\ pc' = "look"
  /\ sleeps' = IF clock' > slept THEN sleeps + 1 ELSE sleeps
  /\ early' = (early \/ clock' - slept < asked)
  /\ asked' = 0 /\ slept' = 0
  /\ UNCHANGED <<ledger, cost, refused>>

\* The sleeper returns; a clock that did not advance is an error.
Wake ==
  /\ pc = "sleep"
  /\ clock' \in clock .. MaxTime
  /\ IF clock' > slept
       THEN /\ pc' = "look"
            /\ sleeps' = sleeps + 1
            /\ early' = (early \/ clock' - slept < asked)
            /\ UNCHANGED <<cost, refused>>
       ELSE /\ pc' = "idle" /\ cost' = 0 /\ sleeps' = 0 /\ early' = FALSE
            /\ refused' = refused \cup {"clock"}
  /\ asked' = 0 /\ slept' = 0
  /\ UNCHANGED ledger

Next == Tick \/ (\E c \in 0..WindowCredits + 1 : Call(c)) \/ Reserve \/ Wait \/ Wake

Spec == Init /\ [][Next]_vars
FairSpec == Spec /\ WF_vars(Reserve \/ Wait \/ Wake)

------------------------------------------------------------------------------
Credits == [call: 0..StudyRequests, unit: 1..WindowCredits, at: 0..MaxTime]

\* Every variable keeps its shape; a running call has a cost the budgets allow.
TypeOK ==
  /\ clock \in 0..MaxTime
  /\ events \subseteq Credits /\ spent \subseteq Credits
  /\ credits_used \in 0..StudyCredits /\ request_count \in 0..StudyRequests
  /\ pc \in {"idle", "look", "sleep"} /\ cost \in 0..WindowCredits
  /\ pc # "idle" => /\ cost > 0
                    /\ credits_used + cost <= StudyCredits
                    /\ request_count + 1 <= StudyRequests
  /\ asked \in Nat /\ slept \in 0..MaxTime /\ sleeps \in Nat /\ early \in BOOLEAN
  /\ refused \subseteq {"cost", "budget", "clock"}

\* At any time, and however the sleeper behaves, the credits reserved within the last
\* window are at most what the plan allows per minute, although the pacer has
\* forgotten every event it once dropped.
WindowHeld == Cardinality({c \in spent : clock - c.at < Window}) <= WindowCredits

\* The study never reserves more than was approved, and what it reserved is exactly
\* what the counters say, also after sleeps and failures in between.
BudgetHeld ==
  /\ Cardinality(spent) = credits_used
  /\ credits_used <= StudyCredits
  /\ Cardinality({c.call : c \in spent}) = request_count
  /\ request_count <= StudyRequests

\* With a sleeper that sleeps as long as it is asked to, every sleep lets at least one
\* earlier call leave the window, so a call sleeps at most once per call it holds.
SleepsAreEnough ==
  ~early => sleeps + Cardinality({c.call : c \in Recent}) <= WindowCredits

\* Every call returns or raises: it never waits for credits that cannot come back.
CallsEnd == pc # "idle" ~> pc = "idle"
===============================================================================
