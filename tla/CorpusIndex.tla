----------------------------- MODULE CorpusIndex -----------------------------
(***************************************************************************)
(* retrieval/memory_index.py and retrieval/bm25.py: the two halves of      *)
(* hybrid search that the API process holds in memory, and the threads     *)
(* that rebuild them from the chunks table: the warm-up of each start of   *)
(* the app, requests to /admin/reindex and /admin/warmup, the refresher    *)
(* thread, and a query that arrives before there is a BM25 index.  Another *)
(* process ingests into the table at any moment.                           *)
(*                                                                         *)
(* A read of the table is one statement, which sees one state of it, and   *)
(* any read may fail: the database is a network away, and times out.  The  *)
(* rows are an identity, ids the largest id handed out: replacing a source *)
(* inserts new rows with new ids.  The fingerprint digests all of that, so *)
(* it is the state of the table.  Search and the vectors are left out.     *)
(***************************************************************************)
EXTENDS Naturals

CONSTANTS
  None,
  Corpora, Empty,    \* what the table may hold
  Oversized,         \* the corpora of more than MAX_IN_MEMORY_CHUNKS chunks
  Boots,             \* the starts of the app in this process
  Admins,            \* threads that serve the admin endpoints
  Refresher,         \* the corpus-refresher thread
  Queries,           \* threads that run a hybrid query
  InPlaceUpserts,    \* whether ingestion is also run with --no-reset
  MaxIngests         \* a bound: how often new ids are handed out

Threads == Boots \cup Admins \cup {Refresher}
Tables == [rows : Corpora, ids : 0..MaxIngests]

ASSUME CorpusAssumption ==
  /\ Empty \in Corpora /\ Oversized \subseteq Corpora \ {Empty}
  /\ Refresher \notin Boots \cup Admins /\ Boots \cap Admins = {}
  /\ InPlaceUpserts \in BOOLEAN /\ MaxIngests \in Nat
  /\ None \notin Tables
  /\ None \notin [fingerprint : Tables, chunks : Tables]

VARIABLES
  settings,
  table,         \* the chunks table
  up,            \* the app is between the two halves of lifespan
  booted,        \* the starts so far
  stop,          \* _stop
  dense,         \* memory_index._index
  bm25,          \* bm25._index
  refresh,       \* where each thread that rebuilds is, and what it has read
  lazy,          \* where each query is in get_bm25_index
  interleaved    \* history: the last install began between two of another thread

vars == <<settings, table, up, booted, stop, dense, bm25, refresh, lazy,
          interleaved>>

Configurations == [memory : BOOLEAN, polls : BOOLEAN]
Index == [fingerprint : Tables, chunks : Tables]

At(st, fingerprint, chunks) == [st |-> st, fingerprint |-> fingerprint, chunks |-> chunks]
Idle == At("idle", None, None)

\* What a thread does next: nothing, compare or take the fingerprint, fetch the
\* rows, install the BM25 index, install the dense one.
RefreshStates == {"off", "idle", "compare", "stamp", "fetch", "sparse", "dense"}
LazyStates == {"idle", "missed", "fetch", "install"}

TypeOK ==
  /\ settings \in Configurations
  /\ table \in Tables
  /\ up \in BOOLEAN /\ stop \in BOOLEAN /\ interleaved \in BOOLEAN
  /\ booted \subseteq Boots
  /\ dense \in Index \cup {None}
  /\ bm25 \in Tables \cup {None}
  /\ refresh \in [Threads -> [st : RefreshStates, fingerprint : Tables \cup {None},
                              chunks : Tables \cup {None}]]
  /\ lazy \in [Queries -> [st : LazyStates, chunks : Tables \cup {None}]]
  /\ \A r \in Threads :
       /\ refresh[r].st \in {"compare", "fetch", "sparse", "dense"} => refresh[r].fingerprint # None
       /\ refresh[r].st \in {"sparse", "dense"} => refresh[r].chunks # None
  /\ \A q \in Queries : lazy[q].st = "install" => lazy[q].chunks # None

Init ==
  /\ settings \in Configurations
  /\ table \in [rows : Corpora, ids : {0}]
  /\ up = FALSE /\ booted = {} /\ stop = FALSE
  /\ dense = None /\ bm25 = None
  /\ refresh = [r \in Threads |-> IF r = Refresher THEN At("off", None, None) ELSE Idle]
  /\ lazy = [q \in Queries |-> [st |-> "idle", chunks |-> None]]
  /\ interleaved = FALSE

-----------------------------------------------------------------------------
(***************************************************************************)
(* Outside the process.                                                    *)
(***************************************************************************)
\* replace_source_chunks, or with --no-reset insert_chunks: chunks that were
\* there keep their ids, and new ones get new ids.
Ingest(rows) ==
  /\ rows # Empty
  /\ \/ table.ids < MaxIngests /\ table' = [rows |-> rows, ids |-> table.ids + 1]
     \/ InPlaceUpserts /\ table.rows # Empty /\ table' = [table EXCEPT !.rows = rows]
  /\ UNCHANGED <<settings, up, booted, stop, dense, bm25, refresh, lazy, interleaved>>

-----------------------------------------------------------------------------
(***************************************************************************)
(* The threads that rebuild.                                               *)
(***************************************************************************)
Moves(r, to) == refresh' = [refresh EXCEPT ![r] = to]

\* start_corpus_refresher, which takes a thread that has not ended for one that
\* is running.
StartRefresher(r) ==
  LET warming == [refresh EXCEPT ![r] = At("stamp", None, None)] IN
  IF settings.memory /\ settings.polls /\ refresh[Refresher].st = "off"
  THEN /\ stop' = FALSE
       /\ refresh' = [warming EXCEPT ![Refresher] = Idle]
  ELSE refresh' = warming /\ UNCHANGED stop

\* lifespan: nothing is built, and nothing polls, if the table is empty, or cannot
\* be read, at this moment.
Startup(r) ==
  /\ ~up /\ r \notin booted
  /\ up' = TRUE /\ booted' = booted \cup {r}
  /\ \/ table.rows # Empty /\ StartRefresher(r)
     \/ UNCHANGED <<stop, refresh>>
  /\ UNCHANGED <<settings, table, dense, bm25, lazy, interleaved>>

Shutdown ==
  /\ up
  /\ up' = FALSE /\ stop' = TRUE
  /\ UNCHANGED <<settings, table, booted, dense, bm25, refresh, lazy, interleaved>>

\* A request to /admin/reindex, or the last step of /admin/warmup.
Reindex(r) ==
  /\ up /\ refresh[r].st = "idle"
  /\ Moves(r, At("stamp", None, None))
  /\ UNCHANGED <<settings, table, up, booted, stop, dense, bm25, lazy, interleaved>>

\* Without an index in memory there is nothing to compare with: build.
NextCheckOfBuilt == IF dense = None THEN Idle ELSE At("compare", dense.fingerprint, None)
NextCheck == IF dense = None THEN At("stamp", None, None)
             ELSE At("compare", dense.fingerprint, None)

\* The refresher's wait times out: it takes the fingerprint to compare with.
Tick ==
  /\ refresh[Refresher].st = "idle" /\ ~stop
  /\ Moves(Refresher, NextCheck)
  /\ UNCHANGED <<settings, table, up, booted, stop, dense, bm25, lazy, interleaved>>

RefresherEnds ==
  /\ refresh[Refresher].st = "idle" /\ stop
  /\ Moves(Refresher, At("off", None, None))
  /\ UNCHANGED <<settings, table, up, booted, stop, dense, bm25, lazy, interleaved>>

Compare ==
  /\ refresh[Refresher].st = "compare"
  /\ Moves(Refresher, IF table = refresh[Refresher].fingerprint THEN Idle
                      ELSE At("stamp", None, None))
  /\ UNCHANGED <<settings, table, up, booted, stop, dense, bm25, lazy, interleaved>>

TakeFingerprint(r) ==
  /\ refresh[r].st = "stamp"
  /\ Moves(r, At("fetch", table, None))
  /\ UNCHANGED <<settings, table, up, booted, stop, dense, bm25, lazy, interleaved>>

FetchCorpus(r) ==
  /\ refresh[r].st = "fetch"
  /\ Moves(r, At("sparse", refresh[r].fingerprint, table))
  /\ UNCHANGED <<settings, table, up, booted, stop, dense, bm25, lazy, interleaved>>

\* The read raises, and what was built before stays.
ReadFailsAndDrops(r) ==
  /\ refresh[r].st \in {"compare", "stamp", "fetch"}
  /\ Moves(r, Idle)
  /\ dense' = None
  /\ UNCHANGED <<settings, table, up, booted, stop, bm25, lazy, interleaved>>
ReadFails(r) ==
  /\ refresh[r].st \in {"compare", "stamp", "fetch"}
  /\ Moves(r, Idle)
  /\ UNCHANGED <<settings, table, up, booted, stop, dense, bm25, lazy, interleaved>>

\* bm25._lock is held through the build of a query that found no index.
LockIsFree == \A q \in Queries : lazy[q].st \notin {"fetch", "install"}

InstallBM25(r) ==
  /\ refresh[r].st = "sparse" /\ LockIsFree
  /\ bm25' = refresh[r].chunks
  /\ Moves(r, [refresh[r] EXCEPT !.st = "dense"])
  /\ interleaved' = (\E other \in Threads : refresh[other].st = "dense")
  /\ UNCHANGED <<settings, table, up, booted, stop, dense, lazy>>

HeldInMemory(chunks) == settings.memory /\ chunks.rows \notin Oversized

\* The fingerprint was taken before the rows, which both halves are built from.
FingerprintNow(r) == table
FingerprintOf(r) == refresh[r].fingerprint
RowsNow(r) == table
SnapshotOf(r) == refresh[r].chunks

InstallDense(r) ==
  /\ refresh[r].st = "dense"
  /\ dense' = IF HeldInMemory(SnapshotOf(r))
              THEN [fingerprint |-> FingerprintOf(r), chunks |-> SnapshotOf(r)] ELSE None
  /\ Moves(r, Idle)
  /\ UNCHANGED <<settings, table, up, booted, stop, bm25, lazy, interleaved>>

-----------------------------------------------------------------------------
(***************************************************************************)
(* get_bm25_index: a query that finds no index builds one itself.          *)
(***************************************************************************)
QueryMoves(q, st, chunks) == lazy' = [lazy EXCEPT ![q] = [st |-> st, chunks |-> chunks]]

QueryMisses(q) ==
  /\ up /\ lazy[q].st = "idle" /\ bm25 = None
  /\ QueryMoves(q, "missed", None)
  /\ UNCHANGED <<settings, table, up, booted, stop, dense, bm25, refresh, interleaved>>

\* With the lock it looks again: another thread may have been faster.
MissedBefore == TRUE
StillMissing == bm25 = None

QueryLocks(q) ==
  /\ lazy[q].st = "missed" /\ LockIsFree
  /\ QueryMoves(q, IF StillMissing THEN "fetch" ELSE "idle", None)
  /\ UNCHANGED <<settings, table, up, booted, stop, dense, bm25, refresh, interleaved>>

QueryFetches(q) ==
  /\ lazy[q].st = "fetch"
  /\ QueryMoves(q, "install", table) \/ QueryMoves(q, "idle", None)
  /\ UNCHANGED <<settings, table, up, booted, stop, dense, bm25, refresh, interleaved>>

QueryInstalls(q) ==
  /\ lazy[q].st = "install"
  /\ bm25' = lazy[q].chunks
  /\ QueryMoves(q, "idle", None)
  /\ UNCHANGED <<settings, table, up, booted, stop, dense, refresh, interleaved>>

-----------------------------------------------------------------------------
Rebuild(r) == \/ TakeFingerprint(r) \/ FetchCorpus(r) \/ ReadFails(r)
              \/ InstallBM25(r) \/ InstallDense(r)
Poll == Tick \/ Compare \/ RefresherEnds
Search(q) == QueryLocks(q) \/ QueryFetches(q) \/ QueryInstalls(q)

\* The app is down for good and every thread has come to its end.
Stopped ==
  /\ ~up /\ booted = Boots
  /\ \A r \in Threads : refresh[r].st = IF r = Refresher THEN "off" ELSE "idle"
  /\ \A q \in Queries : lazy[q].st = "idle"
  /\ UNCHANGED vars

Next ==
  \/ \E rows \in Corpora : Ingest(rows)
  \/ \E r \in Boots : Startup(r)
  \/ Shutdown
  \/ \E r \in Admins : Reindex(r)
  \/ Poll
  \/ \E r \in Threads : Rebuild(r)
  \/ \E q \in Queries : QueryMisses(q) \/ Search(q)
  \/ Stopped

Spec == Init /\ [][Next]_vars

\* Threads that have work keep running, and a wait times out.  The reads of the
\* refresher may fail again and again, but not for ever, and bm25._lock does not
\* pass it over for ever.
FairSpec ==
  /\ Spec
  /\ WF_vars(Poll) /\ WF_vars(Rebuild(Refresher))
  /\ SF_vars(Compare) /\ SF_vars(TakeFingerprint(Refresher))
  /\ SF_vars(FetchCorpus(Refresher)) /\ SF_vars(InstallBM25(Refresher))
  /\ \A q \in Queries : WF_vars(Search(q))

-----------------------------------------------------------------------------
(***************************************************************************)
(* An index that would pass the refresher's comparison holds the table as  *)
(* it is, although the fingerprint and the rows are read apart, ingestion  *)
(* runs between them, and slower rebuilds install over newer ones: there   *)
(* is never a stale index that believes itself current.                    *)
(***************************************************************************)
NoFalseCurrency == dense # None /\ dense.fingerprint = table => dense.chunks = table

(***************************************************************************)
(* Between rebuilds, the dense and the sparse half describe the same       *)
(* corpus, unless the last rebuild overlapped another one's two installs.  *)
(***************************************************************************)
AtRest == \A r \in Threads : refresh[r].st # "dense"
HalvesAgree == AtRest /\ ~interleaved /\ dense # None => bm25 = dense.chunks

(***************************************************************************)
(* A query that builds the BM25 index itself never puts its own, older     *)
(* read in the place of an index that a rebuild has installed meanwhile.   *)
(***************************************************************************)
LazyBuildYields ==
  [][\A q \in Queries : lazy[q].st = "install" /\ lazy'[q].st = "idle" => bm25 = None]_vars

\* What /ready asks of the indexes.
IndexesReady == bm25 # None /\ (settings.memory => dense # None)

(***************************************************************************)
(* Once /ready has opened on the indexes it stays open: a failed read, a   *)
(* rebuild under way, a restart of the app or of the refresher never take  *)
(* the last good index away.  Only a corpus above the limit does.          *)
(***************************************************************************)
ReadinessIsKept ==
  [][IndexesReady /\ ~IndexesReady' =>
       \E r \in Threads : refresh[r].st = "dense" /\ refresh[r].chunks.rows \in Oversized]_vars

(***************************************************************************)
(* While the refresher polls, and its reads fail only now and then, the    *)
(* dense half comes to hold what was ingested last, or is left to pgvector *)
(* above the limit, whatever failed or raced before.                       *)
(***************************************************************************)
Polling == refresh[Refresher].st # "off" /\ ~stop
DenseIsCurrent == IF HeldInMemory(table) THEN dense # None /\ dense.chunks = table
                  ELSE dense = None
Freshness == <>[]Polling => <>[]DenseIsCurrent

-----------------------------------------------------------------------------
(***************************************************************************)
(* What the repository says of the indexes and the code does not do.       *)
(***************************************************************************)

\* memory_index.py:18-20: BM25 is rebuilt from the same snapshot at the same
\* moment, so the two halves never describe different corpora; not even when
\* no rebuild is under way.
HalvesNeverDiffer == AtRest /\ dense # None => bm25 = dense.chunks

\* memory_index.py:23-24: above the limit the index is not built and every query
\* uses pgvector.  A rebuild that succeeded leaves nothing to wait for.
RebuildOpensReadiness ==
  [][\A r \in Threads : refresh[r].st = "dense" /\ refresh'[r].st = "idle" => IndexesReady']_vars
=============================================================================
