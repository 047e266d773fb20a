-------------------------- MODULE CorpusIndexProofs --------------------------
(***************************************************************************)
(* Proofs about CorpusIndex, for any corpora, any number of starts of the  *)
(* app, of admin requests and of queries.                                  *)
(***************************************************************************)
EXTENDS CorpusIndex, TLAPS

USE CorpusAssumption DEF CorpusAssumption

\* Where a thread is, and what it has read.
Moments == [st : RefreshStates, fingerprint : Tables \cup {None}, chunks : Tables \cup {None}]

\* A thread that moves on keeps the types.
LEMMA MoveTypes ==
  ASSUME TypeOK, NEW r \in Threads, NEW to \in Moments, Moves(r, to),
         to.st \in {"compare", "fetch", "sparse", "dense"} => to.fingerprint # None,
         to.st \in {"sparse", "dense"} => to.chunks # None,
         settings' = settings, booted' \subseteq Boots, up' \in BOOLEAN, stop' \in BOOLEAN,
         interleaved' \in BOOLEAN, lazy' = lazy, table' = table,
         dense' \in Index \cup {None}, bm25' \in Tables \cup {None}
  PROVE  TypeOK'
  BY DEF TypeOK, Moves, Moments

\* Every state is well typed initially.
LEMMA InitTypes == Init => TypeOK
<1> SUFFICES ASSUME Init PROVE TypeOK
  OBVIOUS
<1>1. up \in BOOLEAN /\ stop \in BOOLEAN /\ interleaved \in BOOLEAN
  BY Zenon DEF Init
<1> QED BY <1>1 DEF Init, TypeOK, Idle, At, RefreshStates, LazyStates, Tables

\* The steps outside the process and the starts and stops of the app.
LEMMA LifespanTypes ==
  ASSUME TypeOK,
         (\E rows \in Corpora : Ingest(rows)) \/ (\E r \in Boots : Startup(r)) \/ Shutdown
  PROVE  TypeOK'
<1>1. ASSUME NEW rows \in Corpora, Ingest(rows) PROVE TypeOK'
  BY <1>1 DEF Ingest, TypeOK, Tables
<1>2. ASSUME NEW r \in Boots, Startup(r) PROVE TypeOK'
  <2> USE DEF TypeOK
  <2>1. CASE StartRefresher(r)
    <3>1. up' \in BOOLEAN
      BY <1>2, Zenon DEF Startup
    <3>2. stop' \in BOOLEAN
      BY <2>1, Zenon DEF StartRefresher
    <3> QED BY <1>2, <2>1, <3>1, <3>2
         DEF Startup, StartRefresher, At, Idle, Threads, RefreshStates
  <2>2. CASE UNCHANGED <<stop, refresh>>
    BY <1>2, <2>2 DEF Startup, TypeOK
  <2> QED BY <1>2, <2>1, <2>2 DEF Startup
<1>3. CASE Shutdown
  BY <1>3 DEF Shutdown, TypeOK
<1> QED BY <1>1, <1>2, <1>3

\* The steps of the threads that rebuild.
LEMMA RebuildTypes ==
  ASSUME TypeOK, Poll \/ (\E r \in Admins : Reindex(r)) \/ (\E r \in Threads : Rebuild(r))
  PROVE  TypeOK'
<1> USE DEF At, Idle, Moments, RefreshStates
<1>1. ASSUME NEW r \in Admins, Reindex(r) PROVE TypeOK'
  BY <1>1, MoveTypes DEF Reindex, TypeOK, Threads
<1>2. CASE Tick
  <2>1. NextCheck \in Moments /\ (NextCheck.st = "compare" => NextCheck.fingerprint # None)
        /\ NextCheck.st \in {"stamp", "compare"}
    BY DEF TypeOK, NextCheck, Index
  <2> QED BY <1>2, <2>1, MoveTypes DEF Tick, TypeOK, Threads
<1>3. CASE RefresherEnds
  BY <1>3, MoveTypes DEF RefresherEnds, TypeOK, Threads
<1>4. CASE Compare
  BY <1>4, MoveTypes DEF Compare, TypeOK, Threads
<1>5. ASSUME NEW r \in Threads, TakeFingerprint(r) PROVE TypeOK'
  BY <1>5, MoveTypes DEF TakeFingerprint, TypeOK
<1>6. ASSUME NEW r \in Threads, FetchCorpus(r) PROVE TypeOK'
  BY <1>6, MoveTypes DEF FetchCorpus, TypeOK
<1>7. ASSUME NEW r \in Threads, ReadFails(r) PROVE TypeOK'
  BY <1>7, MoveTypes DEF ReadFails, TypeOK
<1>8. ASSUME NEW r \in Threads, InstallBM25(r) PROVE TypeOK'
  BY <1>8 DEF InstallBM25, TypeOK, Moves
<1>9. ASSUME NEW r \in Threads, InstallDense(r) PROVE TypeOK'
  <2>1. dense' \in Index \cup {None}
    BY <1>9 DEF InstallDense, TypeOK, Index, FingerprintOf, SnapshotOf
  <2> QED BY <1>9, <2>1, MoveTypes DEF InstallDense, TypeOK
<1> QED BY <1>1, <1>2, <1>3, <1>4, <1>5, <1>6, <1>7, <1>8, <1>9 DEF Poll, Rebuild

\* The steps of a query in get_bm25_index.
LEMMA LazyTypes ==
  ASSUME TypeOK, NEW q \in Queries, QueryMisses(q) \/ Search(q)
  PROVE  TypeOK'
<1> USE DEF TypeOK, QueryMoves, LazyStates
<1>1. CASE QueryMisses(q)
  BY <1>1 DEF QueryMisses
<1>2. CASE QueryLocks(q)
  BY <1>2 DEF QueryLocks
<1>3. CASE QueryFetches(q)
  BY <1>3 DEF QueryFetches
<1>4. CASE QueryInstalls(q)
  BY <1>4 DEF QueryInstalls
<1> QED BY <1>1, <1>2, <1>3, <1>4 DEF Search

\* Type correctness, for every value of the constants.
THEOREM TypesAreCorrect == Spec => []TypeOK
<1>1. TypeOK /\ [Next]_vars => TypeOK'
  <2> SUFFICES ASSUME TypeOK, [Next]_vars PROVE TypeOK'
    OBVIOUS
  <2>1. CASE UNCHANGED vars
    BY <2>1 DEF vars, TypeOK
  <2> QED BY <2>1, LifespanTypes, RebuildTypes, LazyTypes DEF Next, Stopped
<1> QED BY <1>1, InitTypes, PTL DEF Spec

-----------------------------------------------------------------------------
(***************************************************************************)
(* The BM25 lock, and the two halves.  At most one query builds, and only  *)
(* while there is no BM25 index; a thread between its two installs, and    *)
(* the dense index, are never without a BM25 index.  Without interleaved   *)
(* installs there is one such thread, and BM25 holds what it has read.     *)
(***************************************************************************)
Building(q) == lazy[q].st \in {"fetch", "install"}
Halfway(r) == refresh[r].st = "dense"

LazyInv ==
  /\ \A q \in Queries : Building(q) => bm25 = None
  /\ \A p, q \in Queries : Building(p) /\ Building(q) => p = q

HalvesInv ==
  /\ dense # None => bm25 # None
  /\ \A r \in Threads : Halfway(r) => bm25 # None
  /\ ~interleaved =>
       /\ \A r, other \in Threads : Halfway(r) /\ Halfway(other) => r = other
       /\ \A r \in Threads : Halfway(r) => bm25 = refresh[r].chunks
  /\ HalvesAgree

\* A warm-up that has not been started yet does nothing.
BootsInv == \A b \in Boots : b \notin booted => refresh[b].st = "idle"

IndexInv == TypeOK /\ LazyInv /\ HalvesInv /\ BootsInv

\* Nothing is built, and nobody builds.
LEMMA InitIndexInv == Init => IndexInv
<1> SUFFICES ASSUME Init PROVE IndexInv
  OBVIOUS
<1>1. \A q \in Queries : ~Building(q)
  BY DEF Init, Building
<1>2. \A r \in Threads : ~Halfway(r)
  BY DEF Init, Halfway, At, Idle
<1>3. dense = None
  BY DEF Init
<1>4. BootsInv
  BY DEF Init, BootsInv, At, Idle, Threads
<1> QED BY <1>1, <1>2, <1>3, <1>4, InitTypes DEF IndexInv, LazyInv, HalvesInv, HalvesAgree

\* A step that leaves both halves alone, and no thread and no query building
\* that was not before.
LEMMA IndexesAlone ==
  ASSUME IndexInv, TypeOK', BootsInv',
         dense' = dense, bm25' = bm25, interleaved' = interleaved,
         \A q \in Queries : Building(q)' => Building(q),
         \A r \in Threads : Halfway(r)' = Halfway(r),
         \A r \in Threads : Halfway(r) => refresh'[r].chunks = refresh[r].chunks
  PROVE  IndexInv'
<1>1. LazyInv'
  BY DEF IndexInv, LazyInv
<1>2. AtRest' = AtRest
  BY DEF AtRest, Halfway
<1>3. HalvesInv'
  BY <1>2 DEF IndexInv, HalvesInv, HalvesAgree
<1> QED BY <1>1, <1>3 DEF IndexInv

\* A thread that moves, but not in or out of the middle of its two installs.
LEMMA MovesAlone ==
  ASSUME IndexInv, TypeOK', NEW r \in Threads, NEW to, Moves(r, to),
         to.st # "dense", refresh[r].st # "dense", r \in Boots => refresh[r].st # "idle",
         booted' = booted, dense' = dense, bm25' = bm25, interleaved' = interleaved, lazy' = lazy
  PROVE  IndexInv'
<1>1. \A other \in Threads : other # r => refresh'[other] = refresh[other]
  BY DEF IndexInv, TypeOK, Moves
<1>2. refresh'[r] = to
  BY DEF IndexInv, TypeOK, Moves
<1>3. BootsInv'
  BY <1>1, <1>2 DEF IndexInv, BootsInv, Threads
<1> QED BY <1>1, <1>2, <1>3, IndexesAlone DEF Halfway, Building

\* The steps outside the process and the starts and stops of the app.
LEMMA LifespanIndexes ==
  ASSUME IndexInv, TypeOK',
         (\E rows \in Corpora : Ingest(rows)) \/ (\E r \in Boots : Startup(r)) \/ Shutdown
  PROVE  IndexInv'
<1>1. ASSUME NEW rows \in Corpora, Ingest(rows) PROVE IndexInv'
  BY <1>1, IndexesAlone DEF Ingest, Halfway, Building, IndexInv, BootsInv
<1>2. ASSUME NEW b \in Boots, Startup(b) PROVE IndexInv'
  <2>0. /\ refresh[b].st = "idle"
        /\ refresh[Refresher].st = "off" \/ refresh'[Refresher] = refresh[Refresher]
    BY <1>2 DEF Startup, StartRefresher, IndexInv, BootsInv, TypeOK, Threads
  <2>1. \A r \in Threads : refresh'[r] # refresh[r] =>
          /\ r = b \/ r = Refresher
          /\ refresh[r].st \in {"idle", "off"} /\ refresh'[r].st \in {"idle", "stamp"}
    BY <1>2, <2>0 DEF Startup, StartRefresher, IndexInv, TypeOK, Idle, At, Threads
  <2>2. BootsInv'
    BY <1>2, <2>1 DEF Startup, IndexInv, BootsInv, Threads
  <2> QED BY <1>2, <2>1, <2>2, IndexesAlone DEF Startup, Halfway, Building
<1>3. CASE Shutdown
  BY <1>3, IndexesAlone DEF Shutdown, Halfway, Building, IndexInv, BootsInv
<1> QED BY <1>1, <1>2, <1>3

\* The steps of the threads that rebuild.
LEMMA RebuildIndexes ==
  ASSUME IndexInv, TypeOK',
         Poll \/ (\E r \in Admins : Reindex(r)) \/ (\E r \in Threads : Rebuild(r))
  PROVE  IndexInv'
<1> USE DEF At, Idle
<1>1. ASSUME NEW r \in Admins, Reindex(r) PROVE IndexInv'
  BY <1>1, MovesAlone DEF Reindex, Threads
<1>2. CASE Tick
  <2>1. NextCheck.st \in {"stamp", "compare"}
    BY DEF NextCheck
  <2> QED BY <1>2, <2>1, MovesAlone DEF Tick, Threads
<1>3. CASE RefresherEnds
  BY <1>3, MovesAlone DEF RefresherEnds, Threads
<1>4. CASE Compare
  BY <1>4, MovesAlone DEF Compare, Threads
<1>5. ASSUME NEW r \in Threads, TakeFingerprint(r) PROVE IndexInv'
  BY <1>5, MovesAlone DEF TakeFingerprint
<1>6. ASSUME NEW r \in Threads, FetchCorpus(r) PROVE IndexInv'
  BY <1>6, MovesAlone DEF FetchCorpus
<1>7. ASSUME NEW r \in Threads, ReadFails(r) PROVE IndexInv'
  BY <1>7, MovesAlone DEF ReadFails
<1>8. ASSUME NEW r \in Threads, InstallBM25(r) PROVE IndexInv'
  <2>1. /\ refresh'[r].st = "dense" /\ refresh'[r].chunks = refresh[r].chunks
        /\ \A other \in Threads : other # r => refresh'[other] = refresh[other]
    BY <1>8 DEF InstallBM25, Moves, IndexInv, TypeOK
  <2>2. bm25' = refresh[r].chunks /\ bm25' # None
    BY <1>8 DEF InstallBM25, IndexInv, TypeOK
  <2>3. LazyInv'
    BY <1>8 DEF InstallBM25, LockIsFree, LazyInv, Building
  <2>4. BootsInv'
    BY <1>8, <2>1 DEF InstallBM25, IndexInv, BootsInv, Threads
  <2>5. ~interleaved' => \A other \in Threads : other # r => ~Halfway(other)'
    BY <1>8, <2>1 DEF InstallBM25, Halfway
  <2>6. HalvesInv'
    BY <1>8, <2>1, <2>2, <2>5 DEF InstallBM25, HalvesInv, HalvesAgree, AtRest, Halfway
  <2> QED BY <2>3, <2>4, <2>6 DEF IndexInv
<1>9. ASSUME NEW r \in Threads, InstallDense(r) PROVE IndexInv'
  <2>1. /\ refresh[r].st = "dense" /\ refresh'[r].st = "idle"
        /\ \A other \in Threads : other # r => refresh'[other] = refresh[other]
    BY <1>9 DEF InstallDense, Moves, IndexInv, TypeOK
  <2>2. LazyInv'
    BY <1>9 DEF InstallDense, IndexInv, LazyInv, Building
  <2>3. BootsInv'
    BY <1>9, <2>1 DEF InstallDense, IndexInv, BootsInv, Threads
  <2>4. dense' # None => dense'.chunks = refresh[r].chunks
    BY <1>9 DEF InstallDense, SnapshotOf
  <2>5. HalvesInv'
    BY <1>9, <2>1, <2>4 DEF InstallDense, IndexInv, HalvesInv, HalvesAgree, Halfway
  <2> QED BY <2>2, <2>3, <2>5 DEF IndexInv
<1> QED BY <1>1, <1>2, <1>3, <1>4, <1>5, <1>6, <1>7, <1>8, <1>9 DEF Poll, Rebuild

\* The steps of a query in get_bm25_index.
LEMMA LazyIndexes ==
  ASSUME IndexInv, TypeOK', NEW q \in Queries, QueryMisses(q) \/ Search(q)
  PROVE  IndexInv'
<1>1. UNCHANGED <<refresh, booted, dense, interleaved>>
  BY DEF QueryMisses, Search, QueryLocks, QueryFetches, QueryInstalls
<1>2. \A p \in Queries : p # q => lazy'[p] = lazy[p]
  BY DEF QueryMisses, Search, QueryLocks, QueryFetches, QueryInstalls, QueryMoves, IndexInv, TypeOK
<1>3. BootsInv'
  BY <1>1 DEF IndexInv, BootsInv
<1>4. CASE bm25' = bm25
  <2>1. CASE Building(q)' => Building(q)
    BY <1>1, <1>2, <1>3, <1>4, <2>1, IndexesAlone DEF Halfway, Building
  <2>2. CASE Building(q)' /\ ~Building(q)
    <3>1. LockIsFree /\ bm25 = None
      BY <2>2 DEF QueryMisses, Search, QueryLocks, QueryFetches, QueryInstalls, QueryMoves,
                  IndexInv, TypeOK, Building, StillMissing
    <3>2. LazyInv'
      BY <1>2, <1>4, <3>1 DEF LockIsFree, LazyInv, Building
    <3>3. HalvesInv'
      BY <1>1, <1>4 DEF IndexInv, HalvesInv, HalvesAgree, AtRest, Halfway
    <3> QED BY <1>3, <3>2, <3>3 DEF IndexInv
  <2> QED BY <2>1, <2>2
<1>5. CASE bm25' # bm25
  <2>1. Building(q) /\ ~Building(q)' /\ bm25' = lazy[q].chunks /\ bm25' # None
    BY <1>5 DEF QueryMisses, Search, QueryLocks, QueryFetches, QueryInstalls, QueryMoves,
                IndexInv, TypeOK, Building
  <2>2. bm25 = None /\ \A p \in Queries : ~Building(p)'
    BY <1>2, <2>1 DEF IndexInv, LazyInv, Building
  <2>3. LazyInv'
    BY <2>2 DEF LazyInv
  <2>4. dense = None /\ \A r \in Threads : ~Halfway(r)
    BY <2>2 DEF IndexInv, HalvesInv
  <2>5. HalvesInv'
    BY <1>1, <2>4 DEF HalvesInv, HalvesAgree, Halfway
  <2> QED BY <1>3, <2>3, <2>5 DEF IndexInv
<1> QED BY <1>4, <1>5

\* Every step preserves the invariant.
LEMMA StepIndexInv == IndexInv /\ [Next]_vars => IndexInv'
<1> SUFFICES ASSUME IndexInv, [Next]_vars PROVE IndexInv'
  OBVIOUS
<1>1. CASE UNCHANGED vars
  BY <1>1 DEF vars, IndexInv, TypeOK, LazyInv, HalvesInv, BootsInv, HalvesAgree, AtRest,
              Building, Halfway
<1>2. CASE Next
  <2>1. TypeOK'
    BY <1>2, LifespanTypes, RebuildTypes, LazyTypes, <1>1 DEF Next, Stopped, IndexInv
  <2> QED BY <1>1, <1>2, <2>1, LifespanIndexes, RebuildIndexes, LazyIndexes DEF Next, Stopped
<1> QED BY <1>1, <1>2

\* Between rebuilds the two halves describe one corpus, unless the installs of
\* the last rebuild and of another one were interleaved.
THEOREM HalvesDescribeOneCorpus == Spec => []HalvesAgree
<1>1. IndexInv => HalvesAgree
  BY DEF IndexInv, HalvesInv
<1> QED BY <1>1, InitIndexInv, StepIndexInv, PTL DEF Spec

\* A query that builds the BM25 index replaces none.
THEOREM QueriesReplaceNoIndex == Spec => LazyBuildYields
<1>1. IndexInv /\ [Next]_vars =>
        [\A q \in Queries : lazy[q].st = "install" /\ lazy'[q].st = "idle" => bm25 = None]_vars
  BY DEF IndexInv, LazyInv, Building
<1> QED BY <1>1, InitIndexInv, StepIndexInv, PTL DEF Spec, LazyBuildYields

\* Only a rebuild of a corpus above the limit takes readiness back.
THEOREM ReadinessStaysOpen == Spec => ReadinessIsKept
<1> DEFINE Drops == \E r \in Threads : Halfway(r) /\ refresh[r].chunks.rows \in Oversized
<1>1. ASSUME IndexInv, TypeOK', [Next]_vars, IndexesReady, ~IndexesReady' PROVE Drops
  <2>1. settings' = settings
    BY <1>1 DEF vars, Next, Ingest, Startup, Shutdown, Reindex, Poll, Tick, Compare, RefresherEnds,
         Rebuild, TakeFingerprint, FetchCorpus, ReadFails, InstallBM25, InstallDense,
         QueryMisses, Search, QueryLocks, QueryFetches, QueryInstalls, Stopped
  <2>2. bm25' = bm25 \/ bm25' # None
    BY <1>1 DEF vars, Next, Ingest, Startup, Shutdown, Reindex, Poll, Tick, Compare, RefresherEnds,
         Rebuild, TakeFingerprint, FetchCorpus, ReadFails, InstallBM25, InstallDense,
         QueryMisses, Search, QueryLocks, QueryFetches, QueryInstalls, Stopped, IndexInv, TypeOK
  <2>3. dense' = dense \/ \E r \in Threads : InstallDense(r)
    BY <1>1 DEF vars, Next, Ingest, Startup, Shutdown, Reindex, Poll, Tick, Compare, RefresherEnds,
         Rebuild, TakeFingerprint, FetchCorpus, ReadFails, InstallBM25,
         QueryMisses, Search, QueryLocks, QueryFetches, QueryInstalls, Stopped
  <2>4. settings.memory /\ dense # None /\ dense' = None
    BY <1>1, <2>1, <2>2 DEF IndexesReady
  <2>5. PICK r \in Threads : InstallDense(r)
    BY <2>3, <2>4
  <2>6. ~HeldInMemory(refresh[r].chunks)
    <3>1. refresh[r].fingerprint \in Tables /\ refresh[r].chunks \in Tables
      BY <1>1, <2>5 DEF InstallDense, IndexInv, TypeOK
    <3>2. [fingerprint |-> refresh[r].fingerprint, chunks |-> refresh[r].chunks] # None
      BY <3>1
    <3> QED BY <2>4, <2>5, <3>2 DEF InstallDense, SnapshotOf, FingerprintOf
  <2> QED BY <2>4, <2>5, <2>6 DEF HeldInMemory, InstallDense, Halfway
<1>2. IndexInv /\ IndexInv' /\ [Next]_vars => [IndexesReady /\ ~IndexesReady' => Drops]_vars
  BY <1>1 DEF IndexInv
<1>3. Drops <=> \E r \in Threads : refresh[r].st = "dense" /\ refresh[r].chunks.rows \in Oversized
  BY DEF Halfway
<1> QED BY <1>2, <1>3, InitIndexInv, StepIndexInv, PTL DEF Spec, ReadinessIsKept

-----------------------------------------------------------------------------
(***************************************************************************)
(* Fingerprints.  New ids with every ingestion make the states of the      *)
(* table a sequence: everything read is a past state, or the present one   *)
(* if its ids are the largest handed out, and a fingerprint is no later    *)
(* than the rows it stands for.  With --no-reset the table may come back   *)
(* to an earlier state, and the fingerprint with it.                       *)
(***************************************************************************)
Past(t) == t.ids <= table.ids /\ (t.ids = table.ids => t = table)

Reading(fingerprint, chunks) ==
  /\ fingerprint # None => Past(fingerprint)
  /\ chunks # None => Past(chunks)
  /\ fingerprint # None /\ chunks # None => fingerprint.ids <= chunks.ids

StampInv ==
  /\ TypeOK
  /\ dense # None => Reading(dense.fingerprint, dense.chunks)
  /\ \A r \in Threads : Reading(refresh[r].fingerprint, refresh[r].chunks)

\* An index that passes the comparison was read from the present table.
LEMMA StampsAreTrue == StampInv => NoFalseCurrency
<1> SUFFICES ASSUME StampInv, dense # None, dense.fingerprint = table PROVE dense.chunks = table
  BY DEF NoFalseCurrency
<1>1. dense.fingerprint \in Tables /\ dense.chunks \in Tables
  BY DEF StampInv, TypeOK, Index
<1>2. dense.fingerprint # None /\ dense.chunks # None
  BY <1>1
<1> QED BY <1>1, <1>2 DEF StampInv, Reading, Past, Tables

\* With new ids, every earlier reading is now of the past.
LEMMA ReadingsAge ==
  ASSUME table \in Tables, table' \in Tables, table'.ids = table.ids + 1,
         NEW f \in Tables \cup {None}, NEW c \in Tables \cup {None}, Reading(f, c)
  PROVE  Reading(f, c)'
  BY DEF Reading, Past, Tables

\* Without a change of the table, readings stay what they are.
LEMMA ReadingsStay ==
  ASSUME table' = table, NEW f, NEW c, Reading(f, c)
  PROVE  Reading(f, c)'
  BY DEF Reading, Past

\* Nothing has been read.
LEMMA InitStampInv == Init => StampInv
  BY InitTypes DEF Init, StampInv, Reading, At, Idle

\* A thread that moves on with new readings.
LEMMA MovesStamps ==
  ASSUME StampInv, TypeOK', table' = table, dense' = dense,
         NEW r \in Threads, NEW to, Moves(r, to), Reading(to.fingerprint, to.chunks)
  PROVE  StampInv'
<1>1. \A other \in Threads : refresh'[other] = IF other = r THEN to ELSE refresh[other]
  BY DEF StampInv, TypeOK, Moves
<1>2. \A other \in Threads : Reading(refresh'[other].fingerprint, refresh'[other].chunks)
  BY <1>1 DEF StampInv
<1> QED BY <1>2 DEF StampInv, Reading, Past

\* A step that neither reads nor installs.
LEMMA StampsAlone ==
  ASSUME StampInv, TypeOK', UNCHANGED <<table, dense, refresh>>
  PROVE  StampInv'
  BY DEF StampInv, Reading, Past

\* Ingestion hands out new ids, as long as chunks are never updated in place.
LEMMA IngestStamps ==
  ASSUME ~InPlaceUpserts, StampInv, TypeOK', NEW rows \in Corpora, Ingest(rows)
  PROVE  StampInv'
<1>1. table \in Tables /\ table' \in Tables /\ table'.ids = table.ids + 1
  BY DEF Ingest, StampInv, TypeOK, Tables
<1>2. dense' = dense /\ refresh' = refresh
  BY DEF Ingest
<1>3. dense # None => dense.fingerprint \in Tables /\ dense.chunks \in Tables
  BY DEF StampInv, TypeOK, Index
<1>4. \A r \in Threads : refresh[r].fingerprint \in Tables \cup {None}
                         /\ refresh[r].chunks \in Tables \cup {None}
  BY DEF StampInv, TypeOK
<1>5. dense # None => Reading(dense.fingerprint, dense.chunks)'
  BY <1>1, <1>2, <1>3, ReadingsAge DEF StampInv
<1>6. \A r \in Threads : Reading(refresh[r].fingerprint, refresh[r].chunks)'
  BY <1>1, <1>2, <1>4, ReadingsAge DEF StampInv
<1> QED BY <1>2, <1>5, <1>6 DEF StampInv

\* The threads that rebuild read the table in order.
LEMMA RebuildStamps ==
  ASSUME StampInv, TypeOK', NEW r \in Threads, Rebuild(r)
  PROVE  StampInv'
<1> USE DEF At, Idle
<1>1. CASE TakeFingerprint(r)
  <2>1. Reading(table, None)
    BY DEF Reading, Past, StampInv, TypeOK, Tables
  <2> QED BY <1>1, <2>1, MovesStamps DEF TakeFingerprint
<1>2. CASE FetchCorpus(r)
  <2>1. Reading(refresh[r].fingerprint, table)
    <3>1. refresh[r].fingerprint \in Tables
      BY <1>2 DEF FetchCorpus, StampInv, TypeOK
    <3>2. Past(refresh[r].fingerprint)
      BY <3>1 DEF StampInv, Reading
    <3> QED BY <3>1, <3>2 DEF Reading, Past, StampInv, TypeOK, Tables
  <2> QED BY <1>2, <2>1, MovesStamps DEF FetchCorpus
<1>3. CASE ReadFails(r)
  BY <1>3, MovesStamps DEF ReadFails, Reading
<1>4. CASE InstallBM25(r)
  BY <1>4, MovesStamps DEF InstallBM25, StampInv, TypeOK
<1>5. CASE InstallDense(r)
  <2>1. \A other \in Threads : refresh'[other] = refresh[other] \/ refresh'[other] = Idle
    BY <1>5 DEF InstallDense, Moves, StampInv, TypeOK
  <2>2. dense' # None => Reading(dense'.fingerprint, dense'.chunks)
    BY <1>5 DEF InstallDense, FingerprintOf, SnapshotOf, StampInv
  <2>3. \A other \in Threads : Reading(refresh'[other].fingerprint, refresh'[other].chunks)
    BY <2>1 DEF StampInv, Reading
  <2>4. table' = table
    BY <1>5 DEF InstallDense
  <2> QED BY <2>2, <2>3, <2>4 DEF StampInv, Reading, Past
<1> QED BY <1>1, <1>2, <1>3, <1>4, <1>5 DEF Rebuild

\* The refresher's loop, the starts of rebuilds, and the queries.
LEMMA OtherStamps ==
  ASSUME StampInv, TypeOK',
         \/ Poll \/ Shutdown \/ Stopped
         \/ \E r \in Boots : Startup(r)
         \/ \E r \in Admins : Reindex(r)
         \/ \E q \in Queries : QueryMisses(q) \/ Search(q)
  PROVE  StampInv'
<1> USE DEF At, Idle
<1>1. CASE Tick
  <2>1. Reading(NextCheck.fingerprint, NextCheck.chunks)
    BY DEF NextCheck, StampInv, Reading, TypeOK, Index
  <2> QED BY <1>1, <2>1, MovesStamps DEF Tick, Threads
<1>2. CASE Compare \/ RefresherEnds
  BY <1>2, MovesStamps DEF Compare, RefresherEnds, Threads, Reading
<1>3. ASSUME NEW r \in Admins, Reindex(r) PROVE StampInv'
  BY <1>3, MovesStamps DEF Reindex, Threads, Reading
<1>4. ASSUME NEW b \in Boots, Startup(b) PROVE StampInv'
  <2>1. \A r \in Threads :
          refresh'[r] = refresh[r] \/ refresh'[r] \in {Idle, At("stamp", None, None)}
    BY <1>4 DEF Startup, StartRefresher, StampInv, TypeOK, Threads
  <2>2. \A r \in Threads : Reading(refresh'[r].fingerprint, refresh'[r].chunks)
    BY <2>1 DEF StampInv, Reading
  <2>3. table' = table /\ dense' = dense
    BY <1>4 DEF Startup
  <2> QED BY <2>2, <2>3 DEF StampInv, Reading, Past
<1>5. CASE Shutdown \/ Stopped
  BY <1>5, StampsAlone DEF Shutdown, Stopped, vars
<1>6. ASSUME NEW q \in Queries, QueryMisses(q) \/ Search(q) PROVE StampInv'
  BY <1>6, StampsAlone DEF QueryMisses, Search, QueryLocks, QueryFetches, QueryInstalls
<1> QED BY <1>1, <1>2, <1>3, <1>4, <1>5, <1>6 DEF Poll

\* As long as ingestion replaces whole sources, an index that the refresher takes
\* to be current is current, however many rebuilds race.
THEOREM CurrencyIsTrue == ASSUME ~InPlaceUpserts PROVE Spec => []NoFalseCurrency
<1>1. StampInv /\ [Next]_vars => StampInv'
  <2> SUFFICES ASSUME StampInv, [Next]_vars PROVE StampInv'
    OBVIOUS
  <2>1. TypeOK'
    BY LifespanTypes, RebuildTypes, LazyTypes DEF Next, Stopped, StampInv, vars, TypeOK
  <2>2. CASE UNCHANGED vars
    BY <2>1, <2>2, StampsAlone DEF vars
  <2>3. CASE Next
    BY <2>1, <2>3, IngestStamps, RebuildStamps, OtherStamps DEF Next
  <2> QED BY <2>2, <2>3
<1> QED BY <1>1, InitStampInv, StampsAreTrue, PTL DEF Spec
=============================================================================
