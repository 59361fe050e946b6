------------------------------ MODULE FileCache ------------------------------
(***************************************************************************)
(* http::FileCache (src/http/file_cache.cpp) and its only client, Response *)
(* (src/http/response.cpp), which the workers run concurrently: a table    *)
(* from path to a mapped file with a reference count, guarded by a         *)
(* shared_mutex, and the responses that hold a raw pointer into a mapping  *)
(* until they are answered or closed.                                      *)
(*                                                                         *)
(* A critical section is one step; the stat() of MakeResponse, the gap     *)
(* between the shared and the exclusive lock, the use of the CachedFile    *)
(* after the unlock and the sending of the bytes are steps of their own.   *)
(* A file on disk is its modification time, and so are the bytes mapped.    *)
(***************************************************************************)
EXTENDS Naturals, FiniteSets

CONSTANTS
    Response,    \* the responses in progress, one per connection
    Path,        \* the files asked for
    MaxLoad,     \* bound: mappings made by LoadFile
    MaxModify,   \* bound: changes of a file on disk
    Cleaning,    \* whether CleanupCache is called
    LoadFails    \* whether open or mmap may fail

ASSUME BoundAssumption == MaxLoad \in Nat /\ MaxModify \in Nat
ASSUME SwitchAssumption ==
    Cleaning \in BOOLEAN /\ LoadFails \in BOOLEAN
ASSUME ResponseAssumption == IsFiniteSet(Response)

Mapping == 1..MaxLoad     \* CachedFile objects, numbered as they are made
None == 0

VARIABLES
    disk,       \* the st_mtime of each file
    modifies,   \* changes so far
    cache,      \* _fileCache
    maps,       \* the CachedFile objects and the mappings they own
    loads,      \* how many were made
    total,      \* _totalMappedFiles
    resp        \* control state and fields of each Response

vars == <<disk, modifies, cache, maps, loads, total, resp>>

CachedFile == [live : BOOLEAN, path : Path \cup {None}, lastModTime : Nat, bytes : Nat, refCount : Nat]
Fields     == [pc : {"idle", "lookup", "lock", "got", "held", "sent"}, path : Path \cup {None},
               mtime : Nat, map : Mapping \cup {None}]

TypeOK ==
    /\ disk \in [Path -> Nat] /\ modifies \in Nat
    /\ cache \in [Path -> Mapping \cup {None}]
    /\ maps \in [Mapping -> CachedFile]
    /\ loads \in 0..MaxLoad /\ total \in Nat
    /\ resp \in [Response -> Fields]

Unmade == [live |-> FALSE, path |-> None, lastModTime |-> 0, bytes |-> 0, refCount |-> 0]
Idle   == [pc |-> "idle", path |-> None, mtime |-> 0, map |-> None]

Init ==
    /\ disk = [p \in Path |-> 0] /\ modifies = 0
    /\ cache = [p \in Path |-> None]
    /\ maps = [m \in Mapping |-> Unmade]
    /\ loads = 0 /\ total = 0
    /\ resp = [r \in Response |-> Idle]

-----------------------------------------------------------------------------
(* The file system *)

(* A file is replaced.  st_mtime counts seconds: a change within the second *)
(* of the one before is a change nothing here can see, and not a step.      *)
Modify(p) ==
    /\ modifies < MaxModify
    /\ modifies' = modifies + 1
    /\ disk' = [disk EXCEPT ![p] = @ + 1]
    /\ UNCHANGED <<cache, maps, loads, total, resp>>

-----------------------------------------------------------------------------
(* Response: MakeResponse and addContent, through GetFileMapping *)

At(r, pc) == resp[r].pc = pc

(* MakeResponse and errorHtml decide on a file and stat it. *)
Stat(r, p) ==
    /\ At(r, "idle")
    /\ resp' = [resp EXCEPT ![r] = [pc |-> "lookup", path |-> p, mtime |-> disk[p],
                                    map |-> None]]
    /\ UNCHANGED <<disk, modifies, cache, maps, loads, total>>

\* Mutant of Hit: the modification time is not compared.
HitAnyTime(r) == cache[resp[r].path] # None

(* The file is in the table and was not modified. *)
Hit(r) ==
    LET m == cache[resp[r].path] IN m # None /\ maps[m].lastModTime = resp[r].mtime

TakeReference(r) ==
    LET m == cache[resp[r].path] IN
    /\ maps' = [maps EXCEPT ![m].refCount = @ + 1]
    /\ resp' = [resp EXCEPT ![r].pc = "got", ![r].map = m]
    /\ UNCHANGED <<cache, loads, total>>

(* GetFileMapping under the shared lock. *)
Lookup(r) ==
    /\ At(r, "lookup")
    /\ \/ Hit(r) /\ TakeReference(r)
       \/ ~Hit(r) /\ resp' = [resp EXCEPT ![r].pc = "lock"] /\ UNCHANGED <<cache, maps, loads, total>>
    /\ UNCHANGED <<disk, modifies>>

(* UnloadFile: the mapping is unmapped and the CachedFile deleted. *)
Unloaded(ms, S) == [m \in Mapping |-> IF m \in S THEN [ms[m] EXCEPT !.live = FALSE] ELSE ms[m]]

\* Mutant of LoadFile: the first reference is not counted.
LoadFileNoRef(r) ==
    [live |-> TRUE, path |-> resp[r].path, lastModTime |-> resp[r].mtime,
     bytes |-> disk[resp[r].path], refCount |-> 0]

(* LoadFile maps what the file holds now, and records the time of the stat. *)
LoadFile(r) ==
    [live |-> TRUE, path |-> resp[r].path, lastModTime |-> resp[r].mtime,
     bytes |-> disk[resp[r].path], refCount |-> 1]

(* An entry of another time is dropped, referenced or not; then the file is *)
(* loaded, or nothing is when open or mmap fails.                           *)
Reload(r) ==
    LET p == resp[r].path
        ms == Unloaded(maps, {cache[p]})
        new == loads + 1
    IN
    \/ /\ loads < MaxLoad
       /\ loads' = new
       /\ maps' = [ms EXCEPT ![new] = LoadFile(r)]
       /\ cache' = [cache EXCEPT ![p] = new]
       /\ total' = total + 1
       /\ resp' = [resp EXCEPT ![r].pc = "got", ![r].map = new]
    \/ /\ LoadFails
       /\ maps' = ms
       /\ cache' = [cache EXCEPT ![p] = None]
       /\ resp' = [resp EXCEPT ![r] = Idle]
       /\ UNCHANGED <<loads, total>>

\* Mutant of GetFileMapping: no second look at the table under the exclusive lock, where
\* _fileCache[filePath] then replaces what another thread has put there.
GetFileMappingNoCheck(r) ==
    /\ At(r, "lock")
    /\ loads < MaxLoad
    /\ loads' = loads + 1
    /\ maps' = [maps EXCEPT ![loads + 1] = LoadFile(r)]
    /\ cache' = [cache EXCEPT ![resp[r].path] = loads + 1]
    /\ total' = total + 1
    /\ resp' = [resp EXCEPT ![r].pc = "got", ![r].map = loads + 1]
    /\ UNCHANGED <<disk, modifies>>

(* GetFileMapping under the exclusive lock: the table is looked at again. *)
GetFileMapping(r) ==
    /\ At(r, "lock")
    /\ \/ Hit(r) /\ TakeReference(r)
       \/ ~Hit(r) /\ Reload(r)
    /\ UNCHANGED <<disk, modifies>>

(* addContent reads the data pointer out of the CachedFile, with no lock. *)
SetFile(r) ==
    /\ At(r, "got")
    /\ resp' = [resp EXCEPT ![r].pc = "held"]
    /\ UNCHANGED <<disk, modifies, cache, maps, loads, total>>

(* writev has sent the last byte of the mapping. *)
Sent(r) ==
    /\ At(r, "held")
    /\ resp' = [resp EXCEPT ![r].pc = "sent"]
    /\ UNCHANGED <<disk, modifies, cache, maps, loads, total>>

\* Mutant of Released: the count is not guarded against zero.
ReleasedUnguarded(f) == [f EXCEPT !.refCount = @ - 1]

\* Mutant of Released: the reference is kept.
ReleasedNothing(f) == f

Released(f) == IF f.refCount > 0 THEN [f EXCEPT !.refCount = @ - 1] ELSE f

(* UnmapFile, on the next Init or on Close, releases by path: it is the      *)
(* mapping now in the table that loses a reference.                          *)
UnmapFile(r) ==
    LET m == cache[resp[r].path] IN
    /\ At(r, "held") \/ At(r, "sent")
    /\ maps' = IF m = None THEN maps ELSE [maps EXCEPT ![m] = Released(@)]
    /\ resp' = [resp EXCEPT ![r] = Idle]
    /\ UNCHANGED <<disk, modifies, cache, loads, total>>

\* Mutant of Cleanable: entries in use are not spared.
CleanableAll == {p \in Path : cache[p] # None}

(* What CleanupCache may unload: no reference, idle for any time. *)
Cleanable == {p \in Path : cache[p] # None /\ maps[cache[p]].refCount = 0}

CleanupCache(S) ==
    /\ Cleaning
    /\ S # {} /\ S \subseteq Cleanable
    /\ maps' = Unloaded(maps, {cache[p] : p \in S})
    /\ cache' = [p \in Path |-> IF p \in S THEN None ELSE cache[p]]
    /\ total' = total - Cardinality(S)
    /\ UNCHANGED <<disk, modifies, loads, resp>>

-----------------------------------------------------------------------------

Next ==
    \/ \E p \in Path : Modify(p)
    \/ \E r \in Response :
         \/ \E p \in Path : Stat(r, p)
         \/ Lookup(r) \/ GetFileMapping(r) \/ SetFile(r) \/ Sent(r) \/ UnmapFile(r)
    \/ \E S \in SUBSET Path : CleanupCache(S)

Spec == Init /\ [][Next]_vars

-----------------------------------------------------------------------------

Holds(r) == resp[r].pc \in {"got", "held", "sent"}
Holders(m) == {r \in Response : Holds(r) /\ resp[r].map = m}

(* file_cache.h:7: one mapping per path, however many responses miss at once *)
(* or find the entry out of date; and no mapping that the table has lost.    *)
OneMapping ==
    /\ \A p \in Path : cache[p] # None => maps[cache[p]].live /\ maps[cache[p]].path = p
    /\ \A m \in Mapping : maps[m].live => cache[maps[m].path] = m

(* No entry is pinned: the count of a mapping never exceeds the responses    *)
(* that hold it, so one that nobody uses can be cleaned.                     *)
NotPinned == \A p \in Path :
    cache[p] # None => maps[cache[p]].refCount <= Cardinality(Holders(cache[p]))

(* No response serves bytes older than the file it has stat'ed, although the *)
(* file may change between the stat, the lookup and the load.                *)
NotStale == \A r \in Response : Holds(r) => maps[resp[r].map].bytes >= resp[r].mtime

(* The count of a file that never changed is exact, whatever happens to the  *)
(* others: lookups, loads that fail, releases and cleaning balance.          *)
RefCountExact == \A p \in Path :
    cache[p] # None /\ disk[p] = 0 => maps[cache[p]].refCount = Cardinality(Holders(cache[p]))

(* What a response reads or sends of a file that never changed stays mapped, *)
(* cleaning and changes of other files notwithstanding.                      *)
HeldIsMapped ==
    \A r \in Response : resp[r].pc \in {"got", "held"} /\ disk[resp[r].path] = 0 =>
        maps[resp[r].map].live

(* The bookkeeping of the cache: one mapping per path, and counts that agree *)
(* with the responses that hold one, as far as a release by path allows.     *)
CacheSound == TypeOK /\ OneMapping /\ NotPinned /\ RefCountExact
=============================================================================
