----------------------------- MODULE TrackerStore -----------------------------
(***************************************************************************)
(* The store of persistent cardinality trackers (internal/cardinality,     *)
(* persistence.go).  Callers get trackers by key and add series to them; a *)
(* loop writes the dirty ones to files and then the index to meta.json; a  *)
(* second loop evicts stale and surplus ones; at start the files that the  *)
(* index names are loaded again.  The mutex of the store is not held while *)
(* files are written, so that trackers change, and are evicted, during a   *)
(* save.  The process may crash at any time; a renamed file survives.      *)
(*                                                                         *)
(* All filters have one size in memory, their files one unit of disk.      *)
(* An id tells a tracker from a later one of the same key: the code keeps  *)
(* pointers.                                                               *)
(***************************************************************************)
EXTENDS Integers, FiniteSets, Maps
LOCAL INSTANCE FiniteSetsExt

CONSTANTS
    Keys, Elements,
    TrackerMemory,  \* what one tracker takes
    MaxMemory,      \* 0: without a limit
    MaxSize, StateTTL,
    MaxIds,         \* bound on the trackers created
    MaxHour, MaxRounds, MaxCrashes

ASSUME StoreAssumption == TrackerMemory \in Nat /\ MaxMemory \in Int /\ StateTTL \in Int

VARIABLES
    trackers,       \* key -> [id, elems, last]
    index,          \* key -> [id, last, size]
    dirty,          \* the keys marked for saving
    memoryUsage, diskUsage,
    files,          \* disk: key -> elems, the renamed files
    metaFile,       \* disk: {} or {key -> last}, the index as saved
    saver,          \* the save under way
    held,           \* the tracker a caller holds, and whether it has yet to be marked dirty
    hour, ids, rounds, crashes,
    up,             \* up | closing | down
    started,        \* key -> elems at the start of the round
    safe            \* key -> elems that a completed round has saved, as long as nothing gave them up

storeVars == <<trackers, index, dirty, memoryUsage, diskUsage, files, metaFile, saver, held, hour, ids, rounds,
               crashes, up, started, safe>>

NoSave == [pc |-> "idle", keys |-> {}, key |-> "", id |-> 0, elems |-> {}, meta |-> << >>]
NoHeld == [key |-> "", id |-> 0, pending |-> FALSE]

StoreInit ==
    /\ trackers = << >> /\ index = << >> /\ dirty = {}
    /\ memoryUsage = 0 /\ diskUsage = 0
    /\ files = << >> /\ metaFile = {}
    /\ saver = NoSave /\ held = NoHeld
    /\ hour = 0 /\ ids = 0 /\ rounds = 0 /\ crashes = 0
    /\ up = "up"
    /\ started = << >> /\ safe = << >>

-----------------------------------------------------------------------------
(* Eviction *)

\* What the index has for their files.
SizeOf(ks) == MapThenSumSet(LAMBDA k : index[k].size, ks)

RemoveUncounted(ks) ==                                       \* (mutant)
    [trackers |-> Drop(trackers, ks), index |-> Drop(index, ks), dirty |-> dirty \ ks, files |-> Drop(files, ks),
     memoryUsage |-> memoryUsage,
     diskUsage |-> diskUsage - SizeOf(ks)]

\* removeTrackerUnlocked for each of the keys.
Remove(ks) ==
    [trackers |-> Drop(trackers, ks), index |-> Drop(index, ks), dirty |-> dirty \ ks, files |-> Drop(files, ks),
     memoryUsage |-> memoryUsage - TrackerMemory * Cardinality(ks \intersect DOMAIN trackers),
     diskUsage |-> diskUsage - SizeOf(ks)]

Apply(s) ==
    /\ trackers' = s.trackers /\ index' = s.index /\ dirty' = s.dirty /\ files' = s.files
    /\ memoryUsage' = s.memoryUsage /\ diskUsage' = s.diskUsage

\* The n oldest: no key outside is older than one inside.
Oldest(n) == {s \in SUBSET DOMAIN index : Cardinality(s) = n /\ \A a \in s, b \in DOMAIN index \ s : index[a].last <= index[b].last}

\* evictForMemoryUnlocked: the oldest, until four fifths of the limit are left.
memoryEvictionTarget == (4 * MaxMemory) \div 5
MemoryVictims ==
    UNION {Oldest(n) : n \in {m \in 0..Cardinality(DOMAIN index) :
        /\ memoryUsage - m * TrackerMemory <= memoryEvictionTarget
        /\ m > 0 => memoryUsage - (m - 1) * TrackerMemory > memoryEvictionTarget}}

Stale(age) == {k \in DOMAIN index : hour - index[k].last > age}

\* The keys that Cleanup removes: the stale ones, then the oldest as long as
\* the disk usage that is left by then is beyond its limit.
CleanupVictims ==
    LET usage(s) == diskUsage - SizeOf(s)
        stale == Stale(StateTTL)
        rest == DOMAIN index \ stale
        oldest(s) == \A a \in s, b \in rest \ s : index[a].last <= index[b].last
    IN {stale \union s : s \in {x \in SUBSET rest :
            /\ oldest(x)
            /\ usage(stale \union x) <= MaxSize \/ x = rest
            /\ x = {} \/ \E last \in x : oldest(x \ {last}) /\ usage(stale \union (x \ {last})) > MaxSize}}

Evicted(ks) == safe' = Drop(safe, ks) /\ started' = Drop(started, ks)

Cleanup ==
    /\ up = "up"
    /\ \E ks \in CleanupVictims : ks # {} /\ Apply(Remove(ks)) /\ Evicted(ks)
    /\ UNCHANGED <<metaFile, saver, held, hour, ids, rounds, crashes, up>>

\* At 95% of the memory the oldest go, at 80% those at half of the time to live.
CheckMemoryPressure ==
    /\ up = "up" /\ MaxMemory > 0 /\ 100 * memoryUsage >= 80 * MaxMemory
    /\ \E ks \in IF 100 * memoryUsage >= 95 * MaxMemory THEN MemoryVictims ELSE {Stale(StateTTL \div 2)} :
            ks # {} /\ Apply(Remove(ks)) /\ Evicted(ks)
    /\ UNCHANGED <<metaFile, saver, held, hour, ids, rounds, crashes, up>>

-----------------------------------------------------------------------------
(* Callers *)

\* A full store evicts before it creates.
GetOrCreate(k) ==
    /\ up = "up" /\ ~held.pending
    /\ IF k \in DOMAIN trackers
       THEN /\ held' = [key |-> k, id |-> trackers[k].id, pending |-> FALSE]
            /\ UNCHANGED <<trackers, index, dirty, files, memoryUsage, diskUsage, ids, safe, started>>
       ELSE /\ ids < MaxIds
            /\ \E ks \in IF MaxMemory > 0 /\ memoryUsage >= MaxMemory THEN MemoryVictims ELSE {{}} :
                LET s == Remove(ks)
                    id == ids + 1
                IN /\ Apply([s EXCEPT !.trackers = With(@, k, [id |-> id, elems |-> {}, last |-> hour]),
                                      !.index = With(@, k, [id |-> id, last |-> hour, size |-> 0]),
                                      !.dirty = @ \union {k}, !.memoryUsage = @ + TrackerMemory])
                   /\ Evicted(ks)
                   /\ ids' = id
                   /\ held' = [key |-> k, id |-> id, pending |-> FALSE]
    /\ UNCHANGED <<metaFile, saver, hour, rounds, crashes, up>>

\* The series goes into the filter first, which the store may have dropped
\* by now; the mark follows under the store's lock.
Add(e) ==
    /\ up = "up" /\ held.key # "" /\ ~held.pending
    /\ LET live == held.key \in DOMAIN trackers /\ trackers[held.key].id = held.id
       IN /\ live => e \notin trackers[held.key].elems
          /\ trackers' = IF live THEN [trackers EXCEPT ![held.key].elems = @ \union {e}, ![held.key].last = hour]
                         ELSE trackers
    /\ held' = [held EXCEPT !.pending = TRUE]
    /\ UNCHANGED <<index, dirty, memoryUsage, diskUsage, files, metaFile, saver, hour, ids, rounds, crashes, up,
                   started, safe>>

MarkDirty ==
    /\ up = "up" /\ held.pending
    /\ dirty' = dirty \union {held.key}
    /\ index' = IF held.key \in DOMAIN index THEN [index EXCEPT ![held.key].last = hour] ELSE index
    /\ held' = [held EXCEPT !.pending = FALSE]
    /\ UNCHANGED <<trackers, memoryUsage, diskUsage, files, metaFile, saver, hour, ids, rounds, crashes, up, started,
                   safe>>

-----------------------------------------------------------------------------
(* Saving *)

diskVars == <<files, metaFile>>
callerVars == <<trackers, held, hour, ids, crashes>>

\* SaveAll, or the final save of Close, takes the dirty keys.
SaveStart ==
    /\ up # "down" /\ saver.pc = "idle" /\ rounds < MaxRounds
    /\ dirty # {} \/ up = "closing"
    /\ saver' = [NoSave EXCEPT !.pc = "next", !.keys = dirty]
    /\ started' = [k \in dirty \intersect DOMAIN trackers |-> trackers[k].elems]
    /\ rounds' = rounds + 1
    /\ UNCHANGED <<callerVars, diskVars, index, dirty, memoryUsage, diskUsage, up, safe>>

\* saveTracker: the tracker and its metadata are looked up; one that is gone
\* is skipped, and so is one the disk has no room for (or a failed write).
SaveNext ==
    /\ saver.pc = "next"
    /\ \E k \in saver.keys :
        \/ /\ k \in DOMAIN trackers /\ k \in DOMAIN index
           /\ saver' = [saver EXCEPT !.pc = "write", !.keys = @ \ {k}, !.key = k, !.id = index[k].id,
                                      !.elems = trackers[k].elems]
           /\ UNCHANGED started
        \/ /\ saver' = [saver EXCEPT !.keys = @ \ {k}]
           /\ started' = Drop(started, {k})
    /\ UNCHANGED <<callerVars, diskVars, index, dirty, memoryUsage, diskUsage, up, rounds, safe>>

\* The filter is written to the temporary file under its own lock, that of an
\* evicted tracker too (without what a caller has added to it since).
SaveWrite ==
    /\ saver.pc = "write"
    /\ LET k == saver.key
           live == k \in DOMAIN trackers /\ trackers[k].id = saver.id
       IN saver' = [saver EXCEPT !.pc = "rename", !.elems = IF live THEN trackers[k].elems ELSE @]
    /\ UNCHANGED <<callerVars, diskVars, index, dirty, memoryUsage, diskUsage, up, rounds, started, safe>>

SaveRename ==
    /\ saver.pc = "rename"
    /\ files' = With(files, saver.key, saver.elems)
    /\ saver' = [saver EXCEPT !.pc = "meta"]
    /\ UNCHANGED <<callerVars, metaFile, index, dirty, memoryUsage, diskUsage, up, rounds, started, safe>>

\* The metadata object found at the start is updated, the mark is taken off
\* the key, and the size is added to the disk usage on every save.
SaveMeta ==
    /\ saver.pc = "meta"
    /\ LET k == saver.key
       IN /\ index' = IF k \in DOMAIN index /\ index[k].id = saver.id
                      THEN [index EXCEPT ![k].size = 1, ![k].last = trackers[k].last] ELSE index
          /\ dirty' = dirty \ {k}
    /\ diskUsage' = diskUsage + 1
    /\ saver' = [saver EXCEPT !.pc = "next"]
    /\ UNCHANGED <<callerVars, diskVars, memoryUsage, up, rounds, started, safe>>

SaveIndexCopy ==
    /\ saver.pc = "next" /\ saver.keys = {}
    /\ saver' = [saver EXCEPT !.pc = "index", !.meta = [k \in DOMAIN index |-> index[k].last]]
    /\ UNCHANGED <<callerVars, diskVars, index, dirty, memoryUsage, diskUsage, up, rounds, started, safe>>

SaveIndexLost ==                                             \* (mutant)
    /\ saver.pc = "index"
    /\ metaFile' = IF metaFile = {} THEN {saver.meta} ELSE metaFile
    /\ safe' = Over(started, safe)
    /\ started' = << >>
    /\ saver' = NoSave
    /\ up' = IF up = "closing" THEN "down" ELSE up
    /\ UNCHANGED <<callerVars, files, index, dirty, memoryUsage, diskUsage, rounds>>

\* meta.json is replaced; the round, and with it Close, ends.
SaveIndexRename ==
    /\ saver.pc = "index"
    /\ metaFile' = {saver.meta}
    /\ safe' = Over(started, safe)
    /\ started' = << >>
    /\ saver' = NoSave
    /\ up' = IF up = "closing" THEN "down" ELSE up
    /\ UNCHANGED <<callerVars, files, index, dirty, memoryUsage, diskUsage, rounds>>

\* The index cannot be written: the old one stays.
SaveIndexFails ==
    /\ saver.pc = "index"
    /\ started' = << >>
    /\ saver' = NoSave
    /\ up' = IF up = "closing" THEN "down" ELSE up
    /\ UNCHANGED <<callerVars, diskVars, index, dirty, memoryUsage, diskUsage, rounds, safe>>

\* Close cancels the context: a round stops before its next key, without the
\* index, which the final round writes.
Close ==
    /\ up = "up" /\ saver.pc \in {"idle", "next"}
    /\ up' = "closing"
    /\ saver' = NoSave
    /\ started' = << >>
    /\ UNCHANGED <<callerVars, diskVars, index, dirty, memoryUsage, diskUsage, rounds, safe>>

-----------------------------------------------------------------------------
(* Crash and restart *)

Crash ==
    /\ up # "down" /\ crashes < MaxCrashes
    /\ crashes' = crashes + 1
    /\ up' = "down"
    /\ saver' = NoSave /\ held' = NoHeld /\ started' = << >>
    /\ UNCHANGED <<trackers, index, dirty, memoryUsage, diskUsage, files, metaFile, hour, ids, rounds, safe>>

\* The time of the key in the index on disk, as a set.
Indexed(k) == {f[k] : f \in {x \in metaFile : k \in DOMAIN x}}
LastIndexed(k) == CHOOSE h \in Indexed(k) : TRUE

\* What LoadAll looks for: the files of the index that are not stale.
Loadable == {k \in DOMAIN files : \E h \in Indexed(k) : hour - h <= StateTTL}

\* The store of the next process has these trackers.
Restored(ks) ==
    /\ up = "down" /\ up' = "up"
    /\ trackers' = [k \in ks |-> [id |-> 0, elems |-> files[k], last |-> LastIndexed(k)]]
    /\ index' = [k \in ks |-> [id |-> 0, last |-> LastIndexed(k), size |-> 1]]
    /\ dirty' = {}
    /\ memoryUsage' = TrackerMemory * Cardinality(ks) /\ diskUsage' = Cardinality(ks)
    /\ saver' = NoSave /\ held' = NoHeld /\ started' = << >>
    /\ UNCHANGED <<metaFile, hour, ids, rounds, crashes>>

\* LoadAll of the next process.  loadTracker fails for a file that cannot be read
\* or is larger than maxTrackerFileSize, which saving does not look at: the
\* tracker is skipped.  When there is an index, the files without a loaded
\* tracker are removed, those that were skipped too.
LoadAll ==
    \E failed \in SUBSET Loadable :
        /\ Restored(Loadable \ failed)
        /\ files' = IF metaFile = {} THEN files ELSE [k \in Loadable \ failed |-> files[k]]
        /\ safe' = Drop(safe, failed \union {k \in DOMAIN safe : \E h \in Indexed(k) : hour - h > StateTTL})

\* The index cannot be read, or not be parsed, or has another version: the store
\* starts empty, with the files still there, and its next save replaces the index.
LoadIndexFails ==
    /\ metaFile # {}
    /\ Restored({})
    /\ safe' = << >>
    /\ UNCHANGED files

Hour ==
    /\ hour < MaxHour
    /\ hour' = hour + 1
    /\ UNCHANGED <<trackers, index, dirty, memoryUsage, diskUsage, files, metaFile, saver, held, ids, rounds, crashes,
                   up, started, safe>>

StoreNext ==
    \/ Cleanup \/ CheckMemoryPressure
    \/ \E k \in Keys : GetOrCreate(k)
    \/ \E e \in Elements : Add(e)
    \/ MarkDirty
    \/ SaveStart \/ SaveNext \/ SaveWrite \/ SaveRename \/ SaveMeta \/ SaveIndexCopy \/ SaveIndexRename
    \/ SaveIndexFails
    \/ Close \/ Crash \/ LoadAll \/ LoadIndexFails \/ Hour

StoreSpec == StoreInit /\ [][StoreNext]_storeVars

-----------------------------------------------------------------------------
(* Properties *)

\* What a completed round of saves has written of a tracker is on disk and in the
\* index, whatever crash, restart or save has come in between (a later round only
\* replaces it by more), and a running store has it in memory.  It is given up
\* only by an eviction, or by a restart that finds it stale, cannot load its file
\* (and deletes it) or cannot read the index (and starts empty).
SavedSurvives ==
    \A k \in DOMAIN safe :
        /\ Indexed(k) # {} /\ k \in DOMAIN files /\ safe[k] \subseteq files[k]
        /\ up # "down" => k \in DOMAIN trackers /\ safe[k] \subseteq trackers[k].elems

\* The memory that eviction goes by is that of the trackers held, whatever
\* saves, evictions and restarts have done to them, and it passes its limit, if
\* there is one, by less than the one tracker that was created last.
MemoryCounted ==
    up = "up" => /\ memoryUsage = TrackerMemory * Cardinality(DOMAIN trackers)
                 /\ MaxMemory > 0 => memoryUsage < MaxMemory + TrackerMemory
===============================================================================
