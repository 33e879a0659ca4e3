-------------------------- MODULE TrackerStoreProofs --------------------------
(***************************************************************************)
(* Proofs about the store of cardinality trackers.  The invariant says     *)
(* what a save under way still carries, and what the index on disk covers; *)
(* and that the memory counted is that of the trackers held.               *)
(***************************************************************************)
EXTENDS TrackerStore, SumProofs, FiniteSetTheorems

-----------------------------------------------------------------------------
(* The inductive invariant *)

StoreShape ==
    /\ DOMAIN trackers = DOMAIN index
    /\ IsFiniteSet(DOMAIN trackers)
    /\ trackers \in [DOMAIN trackers -> [id : Int, elems : SUBSET Elements, last : Int]]
    /\ index \in [DOMAIN index -> [id : Int, last : Int, size : Int]]
    /\ DOMAIN saver = {"pc", "keys", "key", "id", "elems", "meta"}
    /\ hour \in Int /\ ids \in Int
    /\ saver.elems \subseteq Elements
    /\ IsFiniteSet(DOMAIN saver.meta) /\ \A k \in DOMAIN saver.meta : saver.meta[k] \in Int
    /\ \A f, g \in metaFile : f = g
    /\ \A f \in metaFile : IsFiniteSet(DOMAIN f) /\ \A k \in DOMAIN f : f[k] \in Int
    /\ \A k \in DOMAIN files : files[k] \subseteq Elements

Writing == saver.pc \in {"write", "rename"}

\* What is safe or on its way is still in memory.
InMemory ==
    /\ \A k \in DOMAIN safe : k \in DOMAIN trackers /\ safe[k] \subseteq trackers[k].elems
    /\ \A k \in DOMAIN started : k \in DOMAIN trackers /\ started[k] \subseteq trackers[k].elems

\* The save under way carries no less than what it will replace.
SaveCarries ==
    Writing =>
        /\ saver.key \in DOMAIN safe => safe[saver.key] \subseteq saver.elems
        /\ saver.key \in DOMAIN started => started[saver.key] \subseteq saver.elems

\* A tracker of the round is still to be saved, being saved, or on disk.
RoundCovers ==
    \A k \in DOMAIN started :
        \/ k \in saver.keys
        \/ Writing /\ k = saver.key
        \/ k \in DOMAIN files /\ started[k] \subseteq files[k]

\* The index that is about to replace the one on disk names all of them.
IndexCovers ==
    saver.pc = "index" => /\ saver.keys = {}
                          /\ DOMAIN safe \subseteq DOMAIN saver.meta
                          /\ DOMAIN started \subseteq DOMAIN saver.meta

\* What is safe is on disk and in the index.
OnDisk == \A k \in DOMAIN safe : Indexed(k) # {} /\ k \in DOMAIN files /\ safe[k] \subseteq files[k]

SurviveInv == StoreShape /\ InMemory /\ SaveCarries /\ RoundCovers /\ IndexCovers /\ OnDisk

\* That many trackers are within the limit and the one created last.
Fits(s) == IsFiniteSet(s) /\ (MaxMemory > 0 => TrackerMemory * Cardinality(s) < MaxMemory + TrackerMemory)

MemoryInv ==
    /\ memoryUsage = TrackerMemory * Cardinality(DOMAIN trackers)
    /\ Fits(DOMAIN trackers)
    /\ saver.pc = "index" => Fits(DOMAIN saver.meta)
    /\ \A f \in metaFile : Fits(DOMAIN f)

-----------------------------------------------------------------------------
(* Eviction *)

\* a map without some keys
LEMMA DropIs ==
    ASSUME NEW f, NEW ks
    PROVE  /\ DOMAIN Drop(f, ks) = DOMAIN f \ ks
           /\ \A k \in DOMAIN f \ ks : Drop(f, ks)[k] = f[k]
  BY DEF Drop

\* the empty map has no keys
LEMMA DomainOfNone == DOMAIN << >> = {}
  OBVIOUS

\* no save is under way
LEMMA NoSaveIs ==
    /\ DOMAIN NoSave = {"pc", "keys", "key", "id", "elems", "meta"} /\ NoSave.pc = "idle" /\ NoSave.keys = {}
    /\ NoSave.elems = {} /\ DOMAIN NoSave.meta = {} /\ IsFiniteSet(DOMAIN NoSave.meta)
<1>1. /\ DOMAIN NoSave = {"pc", "keys", "key", "id", "elems", "meta"} /\ NoSave.pc = "idle" /\ NoSave.keys = {}
      /\ NoSave.elems = {} /\ NoSave.meta = << >>
  BY DEF NoSave
<1>2. QED
  BY <1>1, DomainOfNone, FS_EmptySet

\* The keys that are evicted leave memory, disk and the books together, so
\* that what is known of the others still holds.
LEMMA EvictionKeeps ==
    ASSUME SurviveInv, NEW ks,
           safe' = Drop(safe, ks), started' = Drop(started, ks), files' = Drop(files, ks),
           UNCHANGED <<saver, metaFile>>,
           \A k \in DOMAIN trackers \ ks : k \in DOMAIN trackers' /\ trackers[k].elems \subseteq trackers'[k].elems
    PROVE  InMemory' /\ SaveCarries' /\ RoundCovers' /\ IndexCovers' /\ OnDisk'
<1>1. /\ DOMAIN safe' = DOMAIN safe \ ks /\ \A k \in DOMAIN safe \ ks : safe'[k] = safe[k]
      /\ DOMAIN started' = DOMAIN started \ ks /\ \A k \in DOMAIN started \ ks : started'[k] = started[k]
      /\ DOMAIN files' = DOMAIN files \ ks /\ \A k \in DOMAIN files \ ks : files'[k] = files[k]
  BY ZenonT(30), DropIs
<1>2. saver' = saver /\ metaFile' = metaFile
  OBVIOUS
<1>3. InMemory'
  BY <1>1 DEF SurviveInv, InMemory
<1>4. SaveCarries'
  BY <1>1, <1>2 DEF SurviveInv, SaveCarries, Writing
<1>5. RoundCovers'
  BY <1>1, <1>2 DEF SurviveInv, RoundCovers, Writing
<1>6. IndexCovers'
  BY <1>1, <1>2 DEF SurviveInv, IndexCovers
<1>7. OnDisk'
  BY <1>1, <1>2 DEF SurviveInv, OnDisk, Indexed
<1>8. QED
  BY <1>3, <1>4, <1>5, <1>6, <1>7

\* eviction by Cleanup or under memory pressure
LEMMA EvictStays ==
    ASSUME SurviveInv, NEW ks, Apply(Remove(ks)), Evicted(ks), UNCHANGED <<metaFile, saver, hour, ids>>
    PROVE  SurviveInv'
<1>1. /\ trackers' = Drop(trackers, ks) /\ index' = Drop(index, ks) /\ files' = Drop(files, ks)
      /\ safe' = Drop(safe, ks) /\ started' = Drop(started, ks)
  BY DEF Apply, Remove, Evicted
<1>2. /\ DOMAIN trackers' = DOMAIN trackers \ ks /\ \A k \in DOMAIN trackers \ ks : trackers'[k] = trackers[k]
      /\ DOMAIN index' = DOMAIN index \ ks /\ \A k \in DOMAIN index \ ks : index'[k] = index[k]
  BY ZenonT(30), <1>1, DropIs
<1>3. InMemory' /\ SaveCarries' /\ RoundCovers' /\ IndexCovers' /\ OnDisk'
  BY <1>1, <1>2, EvictionKeeps
<1>4. StoreShape'
  <2>1. IsFiniteSet(DOMAIN trackers')
    BY <1>2, FS_Subset DEF SurviveInv, StoreShape
  <2>2. /\ trackers' \in [DOMAIN trackers' -> [id : Int, elems : SUBSET Elements, last : Int]]
        /\ index' \in [DOMAIN index' -> [id : Int, last : Int, size : Int]]
    BY <1>1, <1>2 DEF SurviveInv, StoreShape, Drop
  <2>3. \A k \in DOMAIN files' : files'[k] \subseteq Elements
    BY <1>1 DEF SurviveInv, StoreShape, Drop
  <2>4. QED
    BY <1>2, <2>1, <2>2, <2>3 DEF SurviveInv, StoreShape
<1>5. QED
  BY <1>3, <1>4 DEF SurviveInv

\* a tracker is handed out, or a new one is created after an eviction
LEMMA GetOrCreateStays ==
    ASSUME SurviveInv, NEW k \in Keys, GetOrCreate(k)
    PROVE  SurviveInv'
<1>1. metaFile' = metaFile /\ saver' = saver /\ hour' = hour
  BY ZenonT(30) DEF GetOrCreate
<1>2. CASE k \in DOMAIN trackers
  <2>1. UNCHANGED <<trackers, index, files, safe, started, ids>>
    BY <1>2 DEF GetOrCreate
  <2>2. QED
    BY <1>1, <2>1 DEF SurviveInv, StoreShape, InMemory, SaveCarries, Writing, RoundCovers, IndexCovers, OnDisk,
                      Indexed
<1>3. CASE k \notin DOMAIN trackers
  <2> DEFINE t == [id |-> ids + 1, elems |-> {}, last |-> hour]
             i == [id |-> ids + 1, last |-> hour, size |-> 0]
  <2>1. ids' = ids + 1 /\ ids \in Int
    BY ZenonT(30), <1>3 DEF GetOrCreate, SurviveInv, StoreShape
  <2>a. PICK ks : /\ Apply([Remove(ks) EXCEPT !.trackers = With(@, k, t), !.index = With(@, k, i),
                                               !.dirty = @ \union {k}, !.memoryUsage = @ + TrackerMemory])
                  /\ Evicted(ks)
    BY ZenonT(30), <1>3 DEF GetOrCreate
  <2>b. /\ trackers' = With(Drop(trackers, ks), k, t)
        /\ index' = With(Drop(index, ks), k, i)
        /\ files' = Drop(files, ks)
    BY <2>a DEF Apply, Remove
  <2>2. /\ DOMAIN trackers' = {k} \union (DOMAIN trackers \ ks) /\ trackers'[k] = t
        /\ \A x \in DOMAIN trackers \ ks : trackers'[x] = trackers[x]
        /\ DOMAIN index' = {k} \union (DOMAIN index \ ks) /\ index'[k] = i
        /\ \A x \in DOMAIN index \ ks : index'[x] = index[x]
    <3>1. k \notin DOMAIN index
      BY <1>3 DEF SurviveInv, StoreShape
    <3> HIDE DEF t, i
    <3>2. /\ DOMAIN trackers' = {k} \union (DOMAIN trackers \ ks) /\ trackers'[k] = t
          /\ \A x \in DOMAIN trackers \ ks : trackers'[x] = trackers[x]
      BY <1>3, <2>b DEF With, Over, Drop
    <3>3. /\ DOMAIN index' = {k} \union (DOMAIN index \ ks) /\ index'[k] = i
          /\ \A x \in DOMAIN index \ ks : index'[x] = index[x]
      BY <2>b, <3>1 DEF With, Over, Drop
    <3>4. QED
      BY <3>2, <3>3
  <2>3. InMemory' /\ SaveCarries' /\ RoundCovers' /\ IndexCovers' /\ OnDisk'
    BY <1>1, <2>a, <2>b, <2>2, EvictionKeeps DEF Evicted
  <2>4. IsFiniteSet(DOMAIN trackers')
    <3>1. IsFiniteSet(DOMAIN trackers \ ks)
      BY FS_Subset DEF SurviveInv, StoreShape
    <3>2. QED
      BY <2>2, <3>1, FS_AddElement
  <2>5. /\ trackers' \in [DOMAIN trackers' -> [id : Int, elems : SUBSET Elements, last : Int]]
        /\ index' \in [DOMAIN index' -> [id : Int, last : Int, size : Int]]
    <3>1. /\ t \in [id : Int, elems : SUBSET Elements, last : Int]
          /\ i \in [id : Int, last : Int, size : Int]
      BY DEF SurviveInv, StoreShape
    <3> HIDE DEF t, i
    <3>2. /\ trackers' = [x \in DOMAIN trackers' |-> trackers'[x]]
          /\ index' = [x \in DOMAIN index' |-> index'[x]]
      BY <2>b DEF With, Over
    <3>3. QED
      BY <2>2, <3>1, <3>2 DEF SurviveInv, StoreShape
  <2>6. \A x \in DOMAIN files' : files'[x] \subseteq Elements
    BY <2>b DEF SurviveInv, StoreShape, Drop
  <2>7. QED
    <3>1. StoreShape'
      BY SMTT(30), <1>1, <2>1, <2>2, <2>4, <2>5, <2>6 DEF SurviveInv, StoreShape
    <3>2. QED
      BY <2>3, <3>1, Zenon DEF SurviveInv
<1>4. QED
  BY <1>2, <1>3

-----------------------------------------------------------------------------
(* Callers, clock and the steps of a save *)

\* a series goes into the filter of the tracker
LEMMA AddStays ==
    ASSUME SurviveInv, NEW e \in Elements, Add(e)
    PROVE  SurviveInv'
<1>1. UNCHANGED <<index, files, metaFile, saver, hour, ids, started, safe>>
  BY ZenonT(30) DEF Add
<1>2. DOMAIN trackers' = DOMAIN trackers /\ \A k \in DOMAIN trackers : trackers[k].elems \subseteq trackers'[k].elems
  BY ZenonT(30) DEF Add, SurviveInv, StoreShape
<1>3. trackers' \in [DOMAIN trackers -> [id : Int, elems : SUBSET Elements, last : Int]]
  <2>1. trackers \in [DOMAIN trackers -> [id : Int, elems : SUBSET Elements, last : Int]] /\ hour \in Int
    BY DEF SurviveInv, StoreShape
  <2>2. CASE trackers' = trackers
    BY <2>1, <2>2
  <2>3. CASE /\ held.key \in DOMAIN trackers
             /\ trackers' = [trackers EXCEPT ![held.key].elems = @ \union {e}, ![held.key].last = hour]
    <3>1. [trackers[held.key] EXCEPT !.elems = @ \union {e}, !.last = hour]
            \in [id : Int, elems : SUBSET Elements, last : Int]
      BY <2>1, <2>3
    <3>2. \A k \in DOMAIN trackers : trackers'[k] = IF k = held.key THEN [trackers[k] EXCEPT !.elems = @ \union {e}, !.last = hour]
                                     ELSE trackers[k]
      BY ZenonT(30), <2>1, <2>3
    <3>3. trackers' = [k \in DOMAIN trackers |-> trackers'[k]]
      BY ZenonT(30), <2>1, <2>3
    <3>4. QED
      BY ZenonT(30), <2>1, <2>3, <3>1, <3>2, <3>3
  <2>4. QED
    BY ZenonT(30), <2>2, <2>3 DEF Add
<1>4. StoreShape'
  BY <1>1, <1>2, <1>3 DEF SurviveInv, StoreShape
<1>5. InMemory'
  BY <1>1, <1>2 DEF SurviveInv, InMemory
<1>6. QED
  BY <1>1, <1>4, <1>5 DEF SurviveInv, SaveCarries, Writing, RoundCovers, IndexCovers, OnDisk, Indexed

\* steps that leave all but the index and the clock alone
LEMMA IndexStays ==
    ASSUME SurviveInv, UNCHANGED <<trackers, files, metaFile, saver, ids, started, safe>>,
           hour' \in Int, DOMAIN index' = DOMAIN index,
           index' \in [DOMAIN index -> [id : Int, last : Int, size : Int]]
    PROVE  SurviveInv'
<1>1. StoreShape'
  BY DEF SurviveInv, StoreShape
<1>2. QED
  BY <1>1 DEF SurviveInv, InMemory, SaveCarries, Writing, RoundCovers, IndexCovers, OnDisk, Indexed

\* a tracker marked dirty
LEMMA MarkDirtyStays ==
    ASSUME SurviveInv, MarkDirty
    PROVE  SurviveInv'
<1>1. /\ UNCHANGED <<trackers, files, metaFile, saver, ids, started, safe>> /\ hour' = hour
      /\ index' = IF held.key \in DOMAIN index THEN [index EXCEPT ![held.key].last = hour] ELSE index
  BY DEF MarkDirty
<1>2. /\ hour' \in Int /\ DOMAIN index' = DOMAIN index
      /\ index' \in [DOMAIN index -> [id : Int, last : Int, size : Int]]
  BY <1>1 DEF SurviveInv, StoreShape
<1>3. QED
  BY <1>1, <1>2, IndexStays

\* time passes
LEMMA HourStays ==
    ASSUME SurviveInv, Hour
    PROVE  SurviveInv'
<1>1. UNCHANGED <<trackers, files, metaFile, saver, ids, started, safe>> /\ hour' = hour + 1 /\ index' = index
  BY DEF Hour
<1>2. /\ hour' \in Int /\ DOMAIN index' = DOMAIN index
      /\ index' \in [DOMAIN index -> [id : Int, last : Int, size : Int]]
  BY <1>1 DEF SurviveInv, StoreShape
<1>3. QED
  BY <1>1, <1>2, IndexStays

\* A save that ends or never was: nothing is on its way.
LEMMA NoSaveStays ==
    ASSUME SurviveInv, saver' = NoSave, started' = << >>,
           UNCHANGED <<trackers, index, files, metaFile, hour, ids, safe>>
    PROVE  SurviveInv'
<1>1. /\ DOMAIN saver' = {"pc", "keys", "key", "id", "elems", "meta"} /\ saver'.pc = "idle"
      /\ saver'.elems = {} /\ DOMAIN saver'.meta = {} /\ IsFiniteSet(DOMAIN saver'.meta) /\ DOMAIN started' = {}
  BY NoSaveIs, DomainOfNone
<1>2. StoreShape'
  BY <1>1 DEF SurviveInv, StoreShape
<1>3. QED
  BY <1>1, <1>2 DEF SurviveInv, InMemory, SaveCarries, Writing, RoundCovers, IndexCovers, OnDisk, Indexed

\* a round starts with the dirty keys
LEMMA SaveStartStays ==
    ASSUME SurviveInv, SaveStart
    PROVE  SurviveInv'
<1>1. /\ UNCHANGED <<trackers, index, files, metaFile, hour, ids, safe>>
      /\ started' = [k \in dirty \intersect DOMAIN trackers |-> trackers[k].elems]
  BY DEF SaveStart, callerVars, diskVars
<1>2. /\ DOMAIN saver' = {"pc", "keys", "key", "id", "elems", "meta"} /\ saver'.pc = "next"
      /\ saver'.keys = dirty /\ saver'.elems = {} /\ DOMAIN saver'.meta = {} /\ IsFiniteSet(DOMAIN saver'.meta)
  BY NoSaveIs DEF SaveStart
<1>3. StoreShape'
  BY <1>1, <1>2 DEF SurviveInv, StoreShape
<1>4. InMemory' /\ RoundCovers'
  BY <1>1, <1>2 DEF SurviveInv, InMemory, RoundCovers
<1>5. SaveCarries' /\ IndexCovers' /\ OnDisk'
  BY <1>1, <1>2 DEF SurviveInv, SaveCarries, Writing, IndexCovers, OnDisk, Indexed
<1>6. QED
  BY <1>3, <1>4, <1>5 DEF SurviveInv

\* the next tracker of the round
LEMMA SaveNextStays ==
    ASSUME SurviveInv, SaveNext
    PROVE  SurviveInv'
<1>1. /\ UNCHANGED <<trackers, index, files, metaFile, hour, ids, safe>> /\ saver.pc = "next"
      /\ DOMAIN saver = {"pc", "keys", "key", "id", "elems", "meta"}
  BY DEF SaveNext, callerVars, diskVars, SurviveInv, StoreShape
<1>2. PICK k \in saver.keys :
        \/ /\ k \in DOMAIN trackers /\ k \in DOMAIN index
           /\ saver' = [saver EXCEPT !.pc = "write", !.keys = @ \ {k}, !.key = k, !.id = index[k].id,
                                      !.elems = trackers[k].elems]
           /\ UNCHANGED started
        \/ /\ saver' = [saver EXCEPT !.keys = @ \ {k}]
           /\ started' = Drop(started, {k})
  BY ZenonT(30) DEF SaveNext
<1>3. /\ DOMAIN saver' = DOMAIN saver /\ saver'.keys = saver.keys \ {k} /\ saver'.meta = saver.meta
      /\ saver'.elems \subseteq Elements
  BY ZenonT(30), <1>1, <1>2 DEF SurviveInv, StoreShape
<1>4. StoreShape'
  BY <1>1, <1>3 DEF SurviveInv, StoreShape
<1>5. OnDisk'
  BY <1>1 DEF SurviveInv, OnDisk, Indexed
<1>6. CASE /\ saver' = [saver EXCEPT !.pc = "write", !.keys = @ \ {k}, !.key = k, !.id = index[k].id,
                                      !.elems = trackers[k].elems]
           /\ UNCHANGED started
  <2>1. saver'.pc = "write" /\ saver'.key = k /\ saver'.elems = trackers[k].elems
    BY <1>1, <1>6
  <2>2. InMemory'
    BY <1>1, <1>6 DEF SurviveInv, InMemory
  <2>3. SaveCarries' /\ IndexCovers'
    BY <1>1, <1>6, <2>1 DEF SurviveInv, InMemory, SaveCarries, IndexCovers
  <2>4. RoundCovers'
    BY <1>1, <1>3, <1>6, <2>1 DEF SurviveInv, RoundCovers, Writing
  <2>5. QED
    BY <1>4, <1>5, <2>2, <2>3, <2>4 DEF SurviveInv
<1>7. CASE saver' = [saver EXCEPT !.keys = @ \ {k}] /\ started' = Drop(started, {k})
  <2>1. saver'.pc = "next" /\ DOMAIN started' = DOMAIN started \ {k} /\ \A x \in DOMAIN started' : started'[x] = started[x]
    <3>1. saver'.pc = "next"
      BY <1>1, <1>7
    <3>2. QED
      BY <1>7, <3>1 DEF Drop
  <2>2. InMemory'
    BY <1>1, <2>1 DEF SurviveInv, InMemory
  <2>3. SaveCarries' /\ IndexCovers'
    BY <2>1 DEF SaveCarries, Writing, IndexCovers
  <2>4. RoundCovers'
    BY <1>1, <1>3, <2>1 DEF SurviveInv, RoundCovers, Writing
  <2>5. QED
    BY <1>4, <1>5, <2>2, <2>3, <2>4 DEF SurviveInv
<1>8. QED
  BY <1>2, <1>6, <1>7

\* its temporary file is written
LEMMA SaveWriteStays ==
    ASSUME SurviveInv, SaveWrite
    PROVE  SurviveInv'
<1>1. /\ UNCHANGED <<trackers, index, files, metaFile, hour, ids, safe, started>> /\ saver.pc = "write"
      /\ DOMAIN saver = {"pc", "keys", "key", "id", "elems", "meta"}
  BY DEF SaveWrite, callerVars, diskVars, SurviveInv, StoreShape
<1>2. /\ DOMAIN saver' = DOMAIN saver /\ saver'.pc = "rename" /\ saver'.keys = saver.keys
      /\ saver'.key = saver.key /\ saver'.meta = saver.meta
      /\ \/ saver'.elems = saver.elems
         \/ saver.key \in DOMAIN trackers /\ saver'.elems = trackers[saver.key].elems
  BY <1>1 DEF SaveWrite
<1>3. StoreShape' /\ InMemory'
  BY <1>1, <1>2 DEF SurviveInv, StoreShape, InMemory
<1>4. SaveCarries' /\ IndexCovers'
  BY <1>1, <1>2 DEF SurviveInv, InMemory, SaveCarries, Writing, IndexCovers
<1>5. RoundCovers' /\ OnDisk'
  BY <1>1, <1>2 DEF SurviveInv, RoundCovers, Writing, OnDisk, Indexed
<1>6. QED
  BY <1>3, <1>4, <1>5 DEF SurviveInv

\* the file takes the name of the tracker
LEMMA SaveRenameStays ==
    ASSUME SurviveInv, SaveRename
    PROVE  SurviveInv'
<1>1. /\ UNCHANGED <<trackers, index, metaFile, hour, ids, safe, started>> /\ saver.pc = "rename"
      /\ DOMAIN saver = {"pc", "keys", "key", "id", "elems", "meta"}
      /\ files' = With(files, saver.key, saver.elems)
  BY DEF SaveRename, callerVars, SurviveInv, StoreShape
<1>2. /\ DOMAIN saver' = DOMAIN saver /\ saver'.pc = "meta" /\ saver'.keys = saver.keys
      /\ saver'.key = saver.key /\ saver'.meta = saver.meta /\ saver'.elems = saver.elems
  BY <1>1 DEF SaveRename
<1>3. /\ DOMAIN files' = {saver.key} \union DOMAIN files /\ files'[saver.key] = saver.elems
      /\ \A k \in DOMAIN files : k # saver.key => files'[k] = files[k]
  BY <1>1 DEF With, Over
<1>4. StoreShape' /\ InMemory'
  BY <1>1, <1>2, <1>3 DEF SurviveInv, StoreShape, InMemory
<1>5. SaveCarries' /\ IndexCovers'
  BY <1>1, <1>2 DEF SaveCarries, Writing, IndexCovers
<1>6. RoundCovers'
  <2> SUFFICES ASSUME NEW k \in DOMAIN started
               PROVE  k \in saver.keys \/ (k \in DOMAIN files' /\ started[k] \subseteq files'[k])
    BY <1>1, <1>2 DEF RoundCovers
  <2>1. CASE k = saver.key
    BY <1>1, <1>3, <2>1 DEF SurviveInv, SaveCarries, Writing
  <2>2. CASE k # saver.key
    BY <1>3, <2>2 DEF SurviveInv, RoundCovers
  <2>3. QED
    BY <2>1, <2>2
<1>7. OnDisk'
  <2> SUFFICES ASSUME NEW k \in DOMAIN safe
               PROVE  Indexed(k) # {} /\ k \in DOMAIN files' /\ safe[k] \subseteq files'[k]
    BY <1>1 DEF OnDisk, Indexed
  <2>1. CASE k = saver.key
    BY <1>1, <1>3, <2>1 DEF SurviveInv, SaveCarries, Writing, OnDisk
  <2>2. CASE k # saver.key
    BY <1>3, <2>2 DEF SurviveInv, OnDisk
  <2>3. QED
    BY <2>1, <2>2
<1>8. QED
  BY <1>4, <1>5, <1>6, <1>7 DEF SurviveInv

\* the metadata of the tracker
LEMMA SaveMetaStays ==
    ASSUME SurviveInv, SaveMeta
    PROVE  SurviveInv'
<1>1. /\ UNCHANGED <<trackers, files, metaFile, hour, ids, safe, started>> /\ saver.pc = "meta"
      /\ DOMAIN saver = {"pc", "keys", "key", "id", "elems", "meta"} /\ saver' = [saver EXCEPT !.pc = "next"]
  BY DEF SaveMeta, callerVars, diskVars, SurviveInv, StoreShape
<1>2. /\ DOMAIN saver' = DOMAIN saver /\ saver'.pc = "next" /\ saver'.keys = saver.keys
      /\ saver'.key = saver.key /\ saver'.meta = saver.meta /\ saver'.elems = saver.elems
  BY <1>1
<1>3. DOMAIN index' = DOMAIN index /\ index' \in [DOMAIN index -> [id : Int, last : Int, size : Int]]
  <2>1. /\ index \in [DOMAIN index -> [id : Int, last : Int, size : Int]]
        /\ \A k \in DOMAIN index : trackers[k].last \in Int
    BY DEF SurviveInv, StoreShape
  <2>2. CASE index' = index
    BY <2>1, <2>2
  <2>3. CASE /\ saver.key \in DOMAIN index
             /\ index' = [index EXCEPT ![saver.key].size = 1, ![saver.key].last = trackers[saver.key].last]
    <3>1. [index[saver.key] EXCEPT !.size = 1, !.last = trackers[saver.key].last] \in [id : Int, last : Int, size : Int]
      BY <2>1, <2>3
    <3>2. \A k \in DOMAIN index : index'[k] = IF k = saver.key
                                             THEN [index[k] EXCEPT !.size = 1, !.last = trackers[saver.key].last]
                                             ELSE index[k]
      BY ZenonT(30), <2>1, <2>3
    <3>3. DOMAIN index' = DOMAIN index /\ index' = [k \in DOMAIN index |-> index'[k]]
      BY ZenonT(30), <2>1, <2>3
    <3>4. QED
      BY ZenonT(30), <2>1, <2>3, <3>1, <3>2, <3>3
  <2>4. QED
    BY ZenonT(30), <2>2, <2>3 DEF SaveMeta
<1>4. StoreShape' /\ InMemory'
  BY <1>1, <1>2, <1>3 DEF SurviveInv, StoreShape, InMemory
<1>5. SaveCarries' /\ IndexCovers'
  BY <1>2 DEF SaveCarries, Writing, IndexCovers
<1>6. RoundCovers' /\ OnDisk'
  BY <1>1, <1>2 DEF SurviveInv, RoundCovers, Writing, OnDisk, Indexed
<1>7. QED
  BY <1>4, <1>5, <1>6 DEF SurviveInv

\* the index is copied
LEMMA SaveIndexCopyStays ==
    ASSUME SurviveInv, SaveIndexCopy
    PROVE  SurviveInv'
<1>1. /\ UNCHANGED <<trackers, index, files, metaFile, hour, ids, safe, started>> /\ saver.pc = "next" /\ saver.keys = {}
      /\ DOMAIN saver = {"pc", "keys", "key", "id", "elems", "meta"}
  BY DEF SaveIndexCopy, callerVars, diskVars, SurviveInv, StoreShape
<1>2. /\ DOMAIN saver' = DOMAIN saver /\ saver'.pc = "index" /\ saver'.keys = {} /\ saver'.elems = saver.elems
      /\ saver'.meta = [k \in DOMAIN index |-> index[k].last]
  BY <1>1 DEF SaveIndexCopy
<1>3. StoreShape'
  <2>1. DOMAIN saver'.meta = DOMAIN index /\ \A k \in DOMAIN index : saver'.meta[k] \in Int
    BY <1>2 DEF SurviveInv, StoreShape
  <2>2. QED
    BY <1>1, <1>2, <2>1 DEF SurviveInv, StoreShape
<1>4. InMemory' /\ SaveCarries'
  BY <1>1, <1>2 DEF SurviveInv, InMemory, SaveCarries, Writing
<1>5. IndexCovers'
  BY <1>1, <1>2 DEF SurviveInv, StoreShape, InMemory, IndexCovers
<1>6. RoundCovers' /\ OnDisk'
  BY <1>1, <1>2 DEF SurviveInv, RoundCovers, Writing, OnDisk, Indexed
<1>7. QED
  BY <1>3, <1>4, <1>5, <1>6 DEF SurviveInv

\* The round is over: what it started with is safe too.
LEMMA SaveIndexRenameStays ==
    ASSUME SurviveInv, SaveIndexRename
    PROVE  SurviveInv'
<1>1. /\ UNCHANGED <<trackers, index, files, hour, ids>> /\ saver.pc = "index"
      /\ metaFile' = {saver.meta} /\ safe' = Over(started, safe) /\ started' = << >> /\ saver' = NoSave
  BY DEF SaveIndexRename, callerVars
<1>2. /\ DOMAIN saver' = {"pc", "keys", "key", "id", "elems", "meta"} /\ saver'.pc = "idle"
      /\ saver'.elems = {} /\ DOMAIN saver'.meta = {} /\ IsFiniteSet(DOMAIN saver'.meta) /\ DOMAIN started' = {}
  BY <1>1, NoSaveIs, DomainOfNone
<1>3. /\ DOMAIN safe' = DOMAIN started \union DOMAIN safe
      /\ \A k \in DOMAIN started : safe'[k] = started[k]
      /\ \A k \in DOMAIN safe : k \notin DOMAIN started => safe'[k] = safe[k]
  BY <1>1 DEF Over
<1>4. StoreShape'
  BY <1>1, <1>2 DEF SurviveInv, StoreShape
<1>5. InMemory'
  BY <1>1, <1>2, <1>3 DEF SurviveInv, InMemory
<1>6. SaveCarries' /\ RoundCovers' /\ IndexCovers'
  BY <1>2 DEF SaveCarries, Writing, RoundCovers, IndexCovers
<1>7. OnDisk'
  <2> SUFFICES ASSUME NEW k \in DOMAIN safe'
               PROVE  k \in DOMAIN saver.meta /\ k \in DOMAIN files /\ safe'[k] \subseteq files[k]
    BY <1>1 DEF OnDisk, Indexed
  <2>1. k \in DOMAIN saver.meta
    BY <1>1, <1>3 DEF SurviveInv, IndexCovers
  <2>2. CASE k \in DOMAIN started
    BY <1>1, <1>3, <2>1, <2>2 DEF SurviveInv, IndexCovers, RoundCovers, Writing
  <2>3. CASE k \notin DOMAIN started
    BY <1>3, <2>1, <2>3 DEF SurviveInv, OnDisk
  <2>4. QED
    BY <2>2, <2>3
<1>8. QED
  BY <1>4, <1>5, <1>6, <1>7 DEF SurviveInv

-----------------------------------------------------------------------------
(* Restart *)

\* What is found at a restart is in the one index on disk.
LEMMA LoadableIs ==
    ASSUME \A f, g \in metaFile : f = g
    PROVE  Loadable = {} \/ \E f \in metaFile : Loadable \subseteq DOMAIN f
<1> SUFFICES ASSUME Loadable # {} PROVE \E f \in metaFile : Loadable \subseteq DOMAIN f
  OBVIOUS
<1>1. \A k \in Loadable : \E f \in metaFile : k \in DOMAIN f
  BY DEF Loadable, Indexed
<1>2. QED
  BY <1>1

\* What the next process has: the trackers of some of the files, no save under way.
LEMMA RestoredIs ==
    ASSUME SurviveInv, NEW ks, ks \subseteq Loadable, Restored(ks)
    PROVE  /\ DOMAIN trackers' = ks /\ DOMAIN index' = ks /\ IsFiniteSet(ks)
           /\ trackers' \in [ks -> [id : Int, elems : SUBSET Elements, last : Int]]
           /\ index' \in [ks -> [id : Int, last : Int, size : Int]]
           /\ \A k \in ks : trackers'[k].elems = files[k]
           /\ UNCHANGED <<metaFile, hour, ids>>
           /\ DOMAIN saver' = {"pc", "keys", "key", "id", "elems", "meta"} /\ saver'.pc = "idle"
           /\ saver'.elems = {} /\ DOMAIN saver'.meta = {} /\ IsFiniteSet(DOMAIN saver'.meta) /\ DOMAIN started' = {}
<1>1. /\ trackers' = [k \in ks |-> [id |-> 0, elems |-> files[k], last |-> LastIndexed(k)]]
      /\ index' = [k \in ks |-> [id |-> 0, last |-> LastIndexed(k), size |-> 1]]
      /\ saver' = NoSave /\ started' = << >> /\ UNCHANGED <<metaFile, hour, ids>>
  BY DEF Restored
<1>2. /\ DOMAIN saver' = {"pc", "keys", "key", "id", "elems", "meta"} /\ saver'.pc = "idle"
      /\ saver'.elems = {} /\ DOMAIN saver'.meta = {} /\ IsFiniteSet(DOMAIN saver'.meta) /\ DOMAIN started' = {}
  BY <1>1, NoSaveIs, DomainOfNone
<1>3. \A k : Indexed(k) \subseteq Int
  BY DEF Indexed, SurviveInv, StoreShape
<1>4. \A k \in ks : LastIndexed(k) \in Int
  BY <1>3 DEF Loadable, LastIndexed
<1>5. IsFiniteSet(ks)
  <2>1. IsFiniteSet(Loadable)
    BY LoadableIs, FS_EmptySet, FS_Subset DEF SurviveInv, StoreShape
  <2>2. QED
    BY <2>1, FS_Subset
<1>6. \A k \in ks : files[k] \in SUBSET Elements
  BY DEF Loadable, SurviveInv, StoreShape
<1>7. /\ trackers' \in [ks -> [id : Int, elems : SUBSET Elements, last : Int]]
      /\ index' \in [ks -> [id : Int, last : Int, size : Int]]
  BY <1>1, <1>4, <1>6
<1>8. \A k \in ks : trackers'[k].elems = files[k]
  BY <1>1
<1>9. QED
  BY <1>1, <1>2, <1>5, <1>7, <1>8

\* Every tracker that is safe, not too old and can be loaded is found again.
LEMMA LoadAllStays ==
    ASSUME SurviveInv, LoadAll, StateTTL \in Int
    PROVE  SurviveInv'
<1>0. PICK failed \in SUBSET Loadable :
        /\ Restored(Loadable \ failed)
        /\ files' = IF metaFile = {} THEN files ELSE [k \in Loadable \ failed |-> files[k]]
        /\ safe' = Drop(safe, failed \union {k \in DOMAIN safe : \E h \in Indexed(k) : hour - h > StateTTL})
  BY Zenon DEF LoadAll
<1> DEFINE ks == Loadable \ failed
<1>1. /\ DOMAIN trackers' = ks /\ DOMAIN index' = ks /\ IsFiniteSet(ks)
      /\ trackers' \in [ks -> [id : Int, elems : SUBSET Elements, last : Int]]
      /\ index' \in [ks -> [id : Int, last : Int, size : Int]]
      /\ \A k \in ks : trackers'[k].elems = files[k]
      /\ UNCHANGED <<metaFile, hour, ids>>
      /\ DOMAIN saver' = {"pc", "keys", "key", "id", "elems", "meta"} /\ saver'.pc = "idle"
      /\ saver'.elems = {} /\ DOMAIN saver'.meta = {} /\ IsFiniteSet(DOMAIN saver'.meta) /\ DOMAIN started' = {}
  <2>1. Restored(ks) /\ ks \subseteq Loadable
    BY <1>0
  <2> HIDE DEF ks
  <2>2. QED
    BY <2>1, RestoredIs
<1>2. \A k : Indexed(k) \subseteq Int
  BY DEF Indexed, SurviveInv, StoreShape
<1>3. ASSUME NEW k \in DOMAIN safe'
      PROVE  k \in DOMAIN safe /\ safe'[k] = safe[k] /\ k \in ks
  <2>1. k \in DOMAIN safe /\ safe'[k] = safe[k] /\ k \notin failed /\ ~\E h \in Indexed(k) : hour - h > StateTTL
    BY <1>0, <1>3 DEF Drop
  <2>2. PICK h \in Indexed(k) : TRUE
    BY <2>1 DEF SurviveInv, OnDisk
  <2>3. hour - h <= StateTTL
    BY <1>2, <2>1, <2>2 DEF SurviveInv, StoreShape
  <2>4. QED
    BY <2>1, <2>2, <2>3 DEF Loadable, SurviveInv, OnDisk
<1>4. ks \subseteq DOMAIN files' /\ \A k \in ks : files'[k] = files[k]
  BY <1>0 DEF Loadable
<1>5. \A k \in DOMAIN files' : files'[k] \subseteq Elements
  BY <1>0 DEF Loadable, SurviveInv, StoreShape
<1> HIDE DEF ks
<1>6. ASSUME NEW k \in DOMAIN safe'
      PROVE  Indexed(k) # {} /\ safe'[k] \subseteq files[k] /\ k \in ks
  BY <1>3, <1>6 DEF SurviveInv, OnDisk
<1>7. OnDisk'
  BY <1>1, <1>4, <1>6 DEF OnDisk, Indexed
<1>8. InMemory'
  BY <1>1, <1>6 DEF InMemory
<1>9. StoreShape'
  BY <1>1, <1>5 DEF SurviveInv, StoreShape
<1>10. SaveCarries' /\ RoundCovers' /\ IndexCovers'
  BY <1>1 DEF SaveCarries, Writing, RoundCovers, IndexCovers
<1>11. QED
  BY <1>7, <1>8, <1>9, <1>10 DEF SurviveInv

\* without a readable index the store starts empty
LEMMA LoadIndexFailsStays ==
    ASSUME SurviveInv, LoadIndexFails
    PROVE  SurviveInv'
<1>1. Restored({}) /\ DOMAIN safe' = {} /\ files' = files
  BY DomainOfNone DEF LoadIndexFails
<1>2. /\ DOMAIN trackers' = {} /\ DOMAIN index' = {} /\ IsFiniteSet({})
      /\ trackers' \in [{} -> [id : Int, elems : SUBSET Elements, last : Int]]
      /\ index' \in [{} -> [id : Int, last : Int, size : Int]]
      /\ UNCHANGED <<metaFile, hour, ids>>
      /\ DOMAIN saver' = {"pc", "keys", "key", "id", "elems", "meta"} /\ saver'.pc = "idle"
      /\ saver'.elems = {} /\ DOMAIN saver'.meta = {} /\ IsFiniteSet(DOMAIN saver'.meta) /\ DOMAIN started' = {}
  <2>1. {} \subseteq Loadable
    OBVIOUS
  <2>2. QED
    BY ZenonT(30), <1>1, <2>1, RestoredIs
<1>3. StoreShape'
  BY <1>1, <1>2 DEF SurviveInv, StoreShape
<1>4. QED
  BY <1>1, <1>2, <1>3 DEF SurviveInv, OnDisk, InMemory, SaveCarries, Writing, RoundCovers, IndexCovers

-----------------------------------------------------------------------------
(* What is saved survives *)

\* the store starts empty
LEMMA SurviveInit == StoreInit => SurviveInv
<1> SUFFICES ASSUME StoreInit PROVE SurviveInv
  OBVIOUS
<1>1. /\ trackers = << >> /\ index = << >> /\ files = << >> /\ metaFile = {} /\ saver = NoSave
      /\ hour = 0 /\ ids = 0 /\ started = << >> /\ safe = << >>
  BY DEF StoreInit
<1>2. IsFiniteSet({})
  BY FS_EmptySet
<1>3. trackers \in [{} -> [id : Int, elems : SUBSET Elements, last : Int]] /\ index \in [{} -> [id : Int, last : Int, size : Int]]
  BY <1>1
<1>4. StoreShape
  BY <1>1, <1>2, <1>3, NoSaveIs, DomainOfNone DEF StoreShape
<1>5. QED
  BY <1>1, <1>4, NoSaveIs, DomainOfNone DEF SurviveInv, InMemory, SaveCarries, Writing, RoundCovers, IndexCovers, OnDisk

\* The invariant behind SavedSurvives is inductive.
LEMMA SurviveNext ==
    ASSUME StateTTL \in Int
    PROVE  SurviveInv /\ [StoreNext]_storeVars => SurviveInv'
<1> SUFFICES ASSUME SurviveInv, [StoreNext]_storeVars PROVE SurviveInv'
  OBVIOUS
<1>1. CASE Cleanup
  BY <1>1, EvictStays DEF Cleanup
<1>2. CASE CheckMemoryPressure
  BY <1>2, EvictStays DEF CheckMemoryPressure
<1>3. CASE \E k \in Keys : GetOrCreate(k)
  BY <1>3, GetOrCreateStays
<1>4. CASE \E e \in Elements : Add(e)
  BY <1>4, AddStays
<1>5. CASE SaveIndexFails \/ Close \/ Crash
  <2>1. /\ saver' = NoSave /\ started' = << >>
        /\ UNCHANGED <<trackers, index, files, metaFile, hour, ids, safe>>
    BY <1>5 DEF SaveIndexFails, Close, Crash, callerVars, diskVars
  <2>2. QED
    BY <2>1, NoSaveStays
<1>6. CASE UNCHANGED storeVars
  <2>1. /\ UNCHANGED <<trackers, files, metaFile, saver, ids, started, safe>> /\ hour' = hour /\ index' = index
    BY <1>6 DEF storeVars
  <2>2. /\ hour' \in Int /\ DOMAIN index' = DOMAIN index
        /\ index' \in [DOMAIN index -> [id : Int, last : Int, size : Int]]
    BY <2>1 DEF SurviveInv, StoreShape
  <2>3. QED
    BY <2>1, <2>2, IndexStays
<1>7. QED
  BY <1>1, <1>2, <1>3, <1>4, <1>5, <1>6, MarkDirtyStays, SaveStartStays, SaveNextStays, SaveWriteStays,
     SaveRenameStays, SaveMetaStays, SaveIndexCopyStays, SaveIndexRenameStays, LoadAllStays, LoadIndexFailsStays,
     HourStays
     DEF StoreNext

\* What a completed round has saved of a tracker is on disk, in the index and,
\* in a running process, in memory, for any keys, any number of series and rounds,
\* and however the steps of a save interleave with callers, evictions, crashes and
\* restarts (SaveAll, saveTracker, saveIndex, Cleanup, LoadAll). Given up are only
\* the trackers evicted, those too old or unreadable when LoadAll reads them, and
\* all of them when it cannot read the index.
THEOREM SavedSurvivesAlways == StoreSpec => []SavedSurvives
<1>1. StateTTL \in Int
  BY StoreAssumption
<1>2. SurviveInv /\ [StoreNext]_storeVars => SurviveInv'
  BY <1>1, SurviveNext
<1>3. SurviveInv => SavedSurvives
  BY DEF SurviveInv, OnDisk, InMemory, SavedSurvives
<1>4. QED
  BY SurviveInit, <1>2, <1>3, PTL DEF StoreSpec

-----------------------------------------------------------------------------
(* Memory *)

\* products grow with a factor
LEMMA ProductGrows ==
    ASSUME NEW a \in Nat, NEW m \in Nat, NEW n \in Nat, m <= n
    PROVE  a * m <= a * n
<1>1. n - m \in Nat /\ a * n = a * m + a * (n - m)
  OBVIOUS
<1>2. a * (n - m) \in Nat /\ a * m \in Int /\ a * n \in Int
  BY <1>1
<1>3. QED
  BY <1>1, <1>2

\* fewer trackers fit when more do
LEMMA FitsLess ==
    ASSUME NEW s, Fits(s), NEW t, t \subseteq s
    PROVE  Fits(t)
<1>1. /\ IsFiniteSet(s) /\ IsFiniteSet(t) /\ Cardinality(t) <= Cardinality(s)
      /\ Cardinality(s) \in Nat /\ Cardinality(t) \in Nat
  BY FS_Subset, FS_CardinalityType DEF Fits
<1>2. TrackerMemory * Cardinality(t) <= TrackerMemory * Cardinality(s)
  BY <1>1, ProductGrows, StoreAssumption
<1>3. /\ TrackerMemory * Cardinality(t) \in Int /\ TrackerMemory * Cardinality(s) \in Int
      /\ TrackerMemory \in Int /\ MaxMemory \in Int
  BY <1>1, StoreAssumption
<1>4. QED
  BY <1>1, <1>2, <1>3 DEF Fits

\* The memory of what an eviction leaves.
LEMMA EvictedMemory ==
    ASSUME SurviveInv, MemoryInv, NEW ks
    PROVE  /\ Fits(DOMAIN trackers \ ks)
           /\ Cardinality(ks \intersect DOMAIN trackers) \in Nat
           /\ Remove(ks).memoryUsage = TrackerMemory * Cardinality(DOMAIN trackers \ ks)
           /\ Remove(ks).memoryUsage = memoryUsage - TrackerMemory * Cardinality(ks \intersect DOMAIN trackers)
<1> DEFINE d == DOMAIN trackers
           a == Cardinality(d)
           b == Cardinality(ks \intersect d)
           c == Cardinality(d \ ks)
<1>1. IsFiniteSet(d) /\ Fits(d) /\ memoryUsage = TrackerMemory * a
  BY DEF SurviveInv, StoreShape, MemoryInv
<1>2. Fits(d \ ks)
  BY <1>1, FitsLess
<1>3. ks \intersect d = d \intersect ks
  OBVIOUS
<1> HIDE DEF d
<1>4. /\ c = a - b /\ a \in Nat /\ b \in Nat /\ c \in Nat
  <2>1. c = a - Cardinality(d \intersect ks) /\ IsFiniteSet(d \ ks)
    BY ZenonT(30), <1>1, FS_Difference
  <2>2. IsFiniteSet(d \intersect ks)
    BY <1>1, FS_Intersection
  <2>3. a \in Nat /\ c \in Nat /\ Cardinality(d \intersect ks) \in Nat
    BY <1>1, <2>1, <2>2, FS_CardinalityType
  <2>4. QED
    BY <1>3, <2>1, <2>3
<1>5. Remove(ks).memoryUsage = memoryUsage - TrackerMemory * b
  BY DEF Remove, d
<1> HIDE DEF a, b, c
<1>6. TrackerMemory * c = TrackerMemory * a - TrackerMemory * b
  BY <1>4, StoreAssumption
<1>7. Remove(ks).memoryUsage = TrackerMemory * c
  BY <1>1, <1>5, <1>6
<1>8. QED
  BY <1>2, <1>4, <1>5, <1>7 DEF a, b, c, d

\* an eviction frees what it evicts
LEMMA EvictMemoryStays ==
    ASSUME SurviveInv, MemoryInv, NEW ks, Apply(Remove(ks)), UNCHANGED <<metaFile, saver>>
    PROVE  MemoryInv'
<1>1. trackers' = Drop(trackers, ks) /\ memoryUsage' = Remove(ks).memoryUsage
  BY DEF Apply, Remove
<1>2. DOMAIN trackers' = DOMAIN trackers \ ks
  BY <1>1 DEF Drop
<1>3. QED
  BY ZenonT(30), <1>1, <1>2, EvictedMemory DEF MemoryInv, Fits

\* The victims of memory pressure bring the memory down to the target.
LEMMA VictimsSuffice ==
    ASSUME SurviveInv, MemoryInv, NEW ks \in MemoryVictims
    PROVE  Remove(ks).memoryUsage <= memoryEvictionTarget
<1>1. PICK n \in 0..Cardinality(DOMAIN index) : ks \in Oldest(n) /\ memoryUsage - n * TrackerMemory <= memoryEvictionTarget
  BY DEF MemoryVictims
<1>2. ks \subseteq DOMAIN index /\ Cardinality(ks) = n
  BY <1>1 DEF Oldest
<1>3. ks \intersect DOMAIN trackers = ks
  BY <1>2 DEF SurviveInv, StoreShape
<1>4. Cardinality(ks) \in Nat /\ Remove(ks).memoryUsage = memoryUsage - TrackerMemory * Cardinality(ks)
  BY ZenonT(30), <1>3, EvictedMemory
<1>5. TrackerMemory * Cardinality(ks) = n * TrackerMemory
  BY <1>2, <1>4, StoreAssumption
<1>6. QED
  BY <1>1, <1>4, <1>5

\* the target of an eviction is below the limit
LEMMA TargetIsLess ==
    ASSUME MaxMemory > 0
    PROVE  memoryEvictionTarget < MaxMemory /\ memoryEvictionTarget \in Int
  BY StoreAssumption DEF memoryEvictionTarget

\* a new tracker is counted after room was made
LEMMA GetOrCreateMemory ==
    ASSUME SurviveInv, MemoryInv, NEW k \in Keys, GetOrCreate(k)
    PROVE  MemoryInv'
<1>1. metaFile' = metaFile /\ saver' = saver
  BY ZenonT(30) DEF GetOrCreate
<1>2. CASE k \in DOMAIN trackers
  <2>1. trackers' = trackers /\ memoryUsage' = memoryUsage
    BY <1>2 DEF GetOrCreate
  <2>2. QED
    BY <1>1, <2>1 DEF MemoryInv
<1>3. CASE k \notin DOMAIN trackers
  <2> DEFINE t == [id |-> ids + 1, elems |-> {}, last |-> hour]
             i == [id |-> ids + 1, last |-> hour, size |-> 0]
  <2>1. PICK ks \in (IF MaxMemory > 0 /\ memoryUsage >= MaxMemory THEN MemoryVictims ELSE {{}}) :
            Apply([Remove(ks) EXCEPT !.trackers = With(@, k, t), !.index = With(@, k, i),
                                     !.dirty = @ \union {k}, !.memoryUsage = @ + TrackerMemory])
    BY ZenonT(30), <1>3 DEF GetOrCreate
  <2> DEFINE left == DOMAIN trackers \ ks
             n == Cardinality(left)
  <2>2. trackers' = With(Drop(trackers, ks), k, t) /\ memoryUsage' = Remove(ks).memoryUsage + TrackerMemory
    BY <2>1 DEF Apply, Remove
  <2>3. DOMAIN trackers' = left \union {k}
    BY <2>2 DEF With, Over, Drop
  <2>4. /\ Fits(left) /\ k \notin left /\ Remove(ks).memoryUsage = TrackerMemory * n
    BY ZenonT(30), <1>3, EvictedMemory
  <2>5. MaxMemory > 0 => Remove(ks).memoryUsage < MaxMemory
    <3>1. SUFFICES ASSUME MaxMemory > 0 PROVE Remove(ks).memoryUsage < MaxMemory
      OBVIOUS
    <3>2. CASE memoryUsage >= MaxMemory
      <4>1. Remove(ks).memoryUsage <= memoryEvictionTarget
        BY <2>1, <3>1, <3>2, VictimsSuffice
      <4>2. n \in Nat
        BY <2>4, FS_CardinalityType DEF Fits
      <4>3. Remove(ks).memoryUsage \in Int
        BY <2>4, <4>2, StoreAssumption
      <4>4. QED
        BY <3>1, <4>1, <4>3, TargetIsLess, StoreAssumption
    <3>3. CASE ~(memoryUsage >= MaxMemory)
      <4>1. ks = {}
        BY <2>1, <3>3
      <4>2. left = DOMAIN trackers
        BY <4>1
      <4>3. Remove(ks).memoryUsage = memoryUsage
        BY <2>4, <4>2 DEF MemoryInv
      <4>4. Cardinality(DOMAIN trackers) \in Nat
        BY FS_CardinalityType DEF SurviveInv, StoreShape
      <4>5. memoryUsage \in Int
        BY <4>4, StoreAssumption DEF MemoryInv
      <4>6. QED
        BY <3>3, <4>3, <4>5, StoreAssumption
    <3>4. QED
      BY <3>2, <3>3
  <2> HIDE DEF left, t, i
  <2>6. /\ IsFiniteSet(left \union {k}) /\ Cardinality(left \union {k}) = n + 1 /\ n \in Nat
    BY <2>4, FS_AddElement, FS_CardinalityType DEF Fits
  <2> HIDE DEF n
  <2>7. TrackerMemory * (n + 1) = TrackerMemory * n + TrackerMemory /\ TrackerMemory * n \in Int
    BY <2>6, StoreAssumption
  <2>8. memoryUsage' = TrackerMemory * (n + 1) /\ (MaxMemory > 0 => TrackerMemory * (n + 1) < MaxMemory + TrackerMemory)
    BY <2>2, <2>4, <2>5, <2>7, StoreAssumption
  <2>9. QED
    BY <1>1, <2>3, <2>6, <2>8 DEF MemoryInv, Fits
<1>4. QED
  BY <1>2, <1>3

\* A restart loads no more than the index names, which fitted when it was
\* written.
LEMMA RestoredMemory ==
    ASSUME SurviveInv, MemoryInv, NEW ks, ks \subseteq Loadable, Restored(ks)
    PROVE  MemoryInv'
<1>1. /\ DOMAIN trackers' = ks /\ memoryUsage' = TrackerMemory * Cardinality(ks)
      /\ metaFile' = metaFile /\ saver'.pc = "idle"
  BY NoSaveIs DEF Restored
<1>2. Fits(Loadable)
  <2>1. CASE Loadable = {}
    <3>1. IsFiniteSet({}) /\ Cardinality({}) = 0
      BY FS_EmptySet
    <3>2. Fits({})
      BY <3>1, StoreAssumption DEF Fits
    <3>3. QED
      BY <2>1, <3>2
  <2>2. CASE \E f \in metaFile : Loadable \subseteq DOMAIN f
    BY <2>2, FitsLess DEF MemoryInv
  <2>3. QED
    BY <2>1, <2>2, LoadableIs DEF SurviveInv, StoreShape
<1>3. Fits(ks)
  BY <1>2, FitsLess
<1>4. QED
  BY <1>1, <1>3 DEF MemoryInv

\* nothing is counted at the start
LEMMA MemoryInit == StoreInit => MemoryInv
<1> SUFFICES ASSUME StoreInit PROVE MemoryInv
  OBVIOUS
<1>1. DOMAIN trackers = {} /\ metaFile = {} /\ memoryUsage = 0 /\ saver.pc = "idle"
  BY NoSaveIs, DomainOfNone DEF StoreInit
<1>2. IsFiniteSet({}) /\ Cardinality({}) = 0
  BY FS_EmptySet
<1>3. QED
  BY <1>1, <1>2, StoreAssumption DEF MemoryInv, Fits

\* The invariant behind MemoryCounted is inductive.
LEMMA MemoryNext == SurviveInv /\ MemoryInv /\ [StoreNext]_storeVars => MemoryInv'
<1> SUFFICES ASSUME SurviveInv, MemoryInv, [StoreNext]_storeVars PROVE MemoryInv'
  OBVIOUS
<1>1. CASE Cleanup \/ CheckMemoryPressure
  <2>1. PICK ks : Apply(Remove(ks)) /\ UNCHANGED <<metaFile, saver>>
    BY <1>1 DEF Cleanup, CheckMemoryPressure
  <2>2. QED
    BY <2>1, EvictMemoryStays
<1>2. CASE \E k \in Keys : GetOrCreate(k)
  BY <1>2, GetOrCreateMemory
<1>3. CASE LoadAll \/ LoadIndexFails
  <2>1. PICK ks \in SUBSET Loadable : Restored(ks)
    BY ZenonT(30), <1>3 DEF LoadAll, LoadIndexFails
  <2>2. QED
    BY <2>1, RestoredMemory
<1>4. CASE SaveIndexCopy
  <2>1. /\ UNCHANGED <<trackers, memoryUsage, metaFile>> /\ DOMAIN saver'.meta = DOMAIN index
    BY <1>4 DEF SaveIndexCopy, callerVars, diskVars, SurviveInv, StoreShape
  <2>2. DOMAIN index = DOMAIN trackers
    BY DEF SurviveInv, StoreShape
  <2>3. QED
    BY <2>1, <2>2 DEF MemoryInv
<1>5. CASE SaveIndexRename
  <2>1. UNCHANGED <<trackers, memoryUsage>> /\ metaFile' = {saver.meta} /\ saver'.pc = "idle" /\ saver.pc = "index"
    BY <1>5, NoSaveIs DEF SaveIndexRename, callerVars
  <2>2. QED
    BY <2>1 DEF MemoryInv
<1>6. CASE \E e \in Elements : Add(e)
  <2>1. DOMAIN trackers' = DOMAIN trackers /\ UNCHANGED <<memoryUsage, metaFile, saver>>
    BY ZenonT(30), <1>6 DEF Add, SurviveInv, StoreShape
  <2>2. QED
    BY <2>1 DEF MemoryInv
<1>7. CASE MarkDirty \/ Hour \/ UNCHANGED storeVars
  <2>1. UNCHANGED <<trackers, memoryUsage, metaFile, saver>>
    BY <1>7 DEF MarkDirty, Hour, storeVars
  <2>2. QED
    BY <2>1 DEF MemoryInv
<1>8. CASE SaveStart \/ SaveNext \/ SaveWrite \/ SaveRename \/ SaveMeta \/ SaveIndexFails \/ Close \/ Crash
  <2>1. UNCHANGED <<trackers, memoryUsage, metaFile>>
    BY ZenonT(30), <1>8 DEF SaveStart, SaveNext, SaveWrite, SaveRename, SaveMeta, SaveIndexFails, Close, Crash, callerVars, diskVars
  <2>2. DOMAIN saver = {"pc", "keys", "key", "id", "elems", "meta"}
    BY DEF SurviveInv, StoreShape
  <2>3. saver'.pc # "index"
    <3>1. CASE SaveStart
      BY <3>1, NoSaveIs DEF SaveStart
    <3>2. CASE SaveNext
      BY ZenonT(30), <2>2, <3>2 DEF SaveNext
    <3>3. CASE SaveWrite \/ SaveRename \/ SaveMeta
      BY ZenonT(30), <2>2, <3>3 DEF SaveWrite, SaveRename, SaveMeta
    <3>4. CASE SaveIndexFails \/ Close \/ Crash
      BY <3>4, NoSaveIs DEF SaveIndexFails, Close, Crash
    <3>5. QED
      BY <1>8, <3>1, <3>2, <3>3, <3>4
  <2>4. QED
    BY <2>1, <2>3 DEF MemoryInv
<1>9. QED
  BY <1>1, <1>2, <1>3, <1>4, <1>5, <1>6, <1>7, <1>8 DEF StoreNext

\* The memory the store believes to use is that of its trackers, and it passes
\* its limit by less than one tracker, for any limit and any size of a tracker,
\* whatever callers, three rules of eviction, saves, crashes and restarts do
\* (GetOrCreate, removeTrackerUnlocked, evictForMemoryUnlocked, LoadAll).
THEOREM MemoryCountedAlways == StoreSpec => []MemoryCounted
<1>1. StateTTL \in Int
  BY StoreAssumption
<1>2. SurviveInv /\ [StoreNext]_storeVars => SurviveInv'
  BY <1>1, SurviveNext
<1>3. MemoryInv => MemoryCounted
  BY DEF MemoryInv, MemoryCounted, Fits
<1>4. QED
  BY SurviveInit, MemoryInit, <1>2, MemoryNext, <1>3, PTL DEF StoreSpec
===============================================================================
