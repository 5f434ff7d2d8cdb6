------------------------------- MODULE BarReads -------------------------------
(***************************************************************************)
(* ParquetBarStore.query (data/storage/market_bars.py) while append runs:  *)
(* the part files are listed directory by directory, then opened one by    *)
(* one.  No lock or snapshot ties the two together, or either to append.   *)
(*                                                                         *)
(* One reader is enough: a query changes nothing another query could see.  *)
(* Filters are left out, they choose among the rows of files already read. *)
(***************************************************************************)
EXTENDS BarStore

VARIABLES
  rpc,         \* where the query is
  unlisted,    \* partitions the listing has still to visit
  listed,      \* parts found and not yet opened: <<name, linking call>>
  seen,        \* parts whose rows are in the result
  missing,     \* the listed part that could not be opened, or None
  appended,    \* HISTORY: <<id, frame>> of appends that had returned when it began
  overlapping  \* HISTORY: calls of append that ran at some moment of the query

reader == <<rpc, unlisted, listed, seen, missing, appended>>
readVars == <<vars, reader, overlapping>>

ReadInit ==
  /\ Init
  /\ rpc = "idle"
  /\ unlisted = {} /\ listed = {} /\ seen = {} /\ missing = None
  /\ appended = {} /\ overlapping = {}

\* The calls of append that have not ended.
RunningCalls == {id[w] : w \in {v \in Writers : pc[v] # "idle"}}

\* query(): the search for part-*.parquet begins.
Query ==
  /\ rpc = "idle"
  /\ rpc' = "list"
  /\ unlisted' = Partitions
  /\ listed' = {} /\ seen' = {} /\ missing' = None
  /\ appended' = {<<a[1], a[2]>> : a \in {b \in answered : b[3] = "ok"}}
  /\ overlapping' = RunningCalls
  /\ UNCHANGED vars

\* MUTANT: one file per batch and directory tree is kept.
ListOnePerBatch ==
  /\ rpc = "list"
  /\ \E p \in unlisted :
       /\ unlisted' = unlisted \ {p}
       /\ listed' = listed \cup
            {<<n, parts[n]>> : n \in {m \in Present :
               m[2] = p /\ \A q \in listed : q[1][1] # m[1]}}
  /\ UNCHANGED <<vars, rpc, seen, missing, appended, overlapping>>

\* sorted(self._root.rglob("part-*.parquet")): one directory after the other.
List ==
  /\ rpc = "list"
  /\ \E p \in unlisted :
       /\ unlisted' = unlisted \ {p}
       /\ listed' = listed \cup {<<n, parts[n]>> : n \in {m \in Present : m[2] = p}}
  /\ UNCHANGED <<vars, rpc, seen, missing, appended, overlapping>>

Listed ==
  /\ rpc = "list"
  /\ unlisted = {}
  /\ rpc' = "read"
  /\ UNCHANGED <<vars, unlisted, listed, seen, missing, appended, overlapping>>

\* MUTANT: a file that is gone is noted and skipped.
OpenSkips ==
  /\ rpc = "read"
  /\ \E q \in listed :
       /\ listed' = listed \ {q}
       /\ IF parts[q[1]] # None
            THEN seen' = seen \cup {<<q[1], parts[q[1]]>>} /\ UNCHANGED missing
            ELSE missing' = q /\ UNCHANGED seen
  /\ UNCHANGED <<vars, rpc, unlisted, appended, overlapping>>

\* MUTANT: a file that is gone is waited for.
OpenWaits ==
  /\ rpc = "read"
  /\ \E q \in listed :
       /\ parts[q[1]] # None
       /\ listed' = listed \ {q}
       /\ seen' = seen \cup {<<q[1], parts[q[1]]>>}
  /\ UNCHANGED <<vars, rpc, unlisted, missing, appended, overlapping>>

\* read_parquet opens the next file under the name that was listed; what is there now
\* may be another call's part, or nothing, which raises.
Open ==
  /\ rpc = "read"
  /\ \E q \in listed :
       /\ listed' = listed \ {q}
       /\ IF parts[q[1]] # None
            THEN seen' = seen \cup {<<q[1], parts[q[1]]>>} /\ UNCHANGED <<rpc, missing>>
            ELSE rpc' = "raised" /\ missing' = q /\ UNCHANGED seen
  /\ UNCHANGED <<vars, unlisted, appended, overlapping>>

ReadAll ==
  /\ rpc = "read"
  /\ listed = {}
  /\ rpc' = "returned"
  /\ UNCHANGED <<vars, unlisted, listed, seen, missing, appended, overlapping>>

\* The result has been handed over.
Forget ==
  /\ rpc \in {"returned", "raised"}
  /\ rpc' = "idle"
  /\ listed' = {} /\ seen' = {} /\ missing' = None
  /\ appended' = {} /\ overlapping' = {}
  /\ UNCHANGED <<vars, unlisted>>

Reading == List \/ Listed \/ Open \/ ReadAll

\* A step of some call of append.
Appending ==
  /\ Next
  /\ overlapping' = IF rpc = "idle" THEN {} ELSE overlapping \cup RunningCalls'
  /\ UNCHANGED reader

ReadNext == Appending \/ Query \/ Reading \/ Forget

ReadSpec == ReadInit /\ [][ReadNext]_readVars
ReadFairSpec == ReadSpec /\ WF_readVars(Reading)

------------------------------------------------------------------------------
\* The reader's variables keep their shape; appends keep theirs whatever is read.
ReadTypeOK ==
  /\ TypeOK
  /\ rpc \in {"idle", "list", "read", "returned", "raised"}
  /\ unlisted \subseteq Partitions
  /\ listed \subseteq Names \X (1..MaxCalls) /\ seen \subseteq Names \X (1..MaxCalls)
  /\ missing \in Names \X (1..MaxCalls) \cup {None}
  /\ rpc = "raised" => missing \in Names \X (1..MaxCalls)
  /\ rpc # "list" => unlisted = {}
  /\ appended \subseteq (1..MaxCalls) \X Frames
  /\ overlapping \subseteq 1..MaxCalls

\* A query that returns has every part of every batch whose append had returned before
\* the query began, whatever is appended, rolled back or killed while it runs.
AppendedIsRead ==
  rpc = "returned" =>
    \A a \in appended : \A n \in NamesOf(a[2]) : <<n, a[1]>> \in seen

FrameOf(i) ==
  IF \E a \in answered : a[1] = i THEN (CHOOSE a \in answered : a[1] = i)[2]
  ELSE frame[CHOOSE w \in Writers : id[w] = i]

\* A result holds some but not all parts of an append only if that append ran while the
\* query did, or was spoiled by a kill, an interrupt or a failing unlink.
HalfReadsOverlap ==
  rpc = "returned" =>
    \A s \in seen :
      \/ s[2] \in overlapping
      \/ s[1][1] \in spoiled
      \/ \A n \in NamesOf(FrameOf(s[2])) : <<n, s[2]>> \in seen

\* A query raises over a part that is gone only if the call that had linked the part
\* ran while the query did: no batch at rest ever makes a query fail.
RaisesOverlap == rpc = "raised" => missing[2] \in overlapping

\* Every query ends, however many appends go on meanwhile.
QueriesEnd == rpc \in {"list", "read"} ~> rpc \in {"returned", "raised"}
===============================================================================
