--------------------------- MODULE FileCacheProofs ---------------------------
(***************************************************************************)
(* Proofs about FileCache for any finite set of responses, any files, any   *)
(* number of loads and of changes on disk.                                  *)
(***************************************************************************)
EXTENDS FileCache, FiniteSetTheorems, TLAPS

Cached == {p \in Path : cache[p] # None}

(* Mappings are made in order, and nobody knows one that was not made. *)
Fresh ==
    /\ \A m \in Mapping : m > loads => ~maps[m].live
    /\ \A p \in Path : cache[p] <= loads
    /\ \A r \in Response : resp[r].map <= loads

(* A mapping, unloaded or not, and a response belong to a path; the mapping  *)
(* a response holds is of its path.                                          *)
Paths ==
    /\ \A m \in Mapping : m <= loads => maps[m].path \in Path
    /\ \A r \in Response : ~At(r, "idle") => resp[r].path \in Path
    /\ \A r \in Response :
         Holds(r) => resp[r].map \in Mapping /\ maps[resp[r].map].path = resp[r].path

(* Nobody is ahead of the file, and no mapping is older than the time it     *)
(* was loaded for.                                                           *)
Times ==
    /\ \A r \in Response : ~At(r, "idle") => resp[r].mtime <= disk[resp[r].path]
    /\ \A m \in Mapping : m <= loads => maps[m].lastModTime <= disk[maps[m].path]
    /\ \A m \in Mapping : maps[m].lastModTime <= maps[m].bytes

(* What a response holds of a file that never changed is in the table. *)
HeldInTable ==
    \A r \in Response : Holds(r) /\ disk[resp[r].path] = 0 => cache[resp[r].path] = resp[r].map

(* _totalMappedFiles counts every entry, and so does not go below zero. *)
TotalCovers == IsFiniteSet(Cached) /\ Cardinality(Cached) <= total

(* The inductive invariant. *)
IInv ==
    /\ TypeOK
    /\ Fresh
    /\ Paths
    /\ Times
    /\ OneMapping
    /\ NotStale
    /\ HeldInTable
    /\ NotPinned
    /\ RefCountExact
    /\ TotalCovers

-----------------------------------------------------------------------------
(* The steps *)

(* The outcomes of Lookup and GetFileMapping. *)
Take(r) ==
    /\ At(r, "lookup") \/ At(r, "lock")
    /\ Hit(r) /\ TakeReference(r) /\ UNCHANGED <<disk, modifies>>

Miss(r) ==
    /\ At(r, "lookup")
    /\ resp' = [resp EXCEPT ![r].pc = "lock"]
    /\ UNCHANGED <<disk, modifies, cache, maps, loads, total>>

Load(r) ==
    /\ At(r, "lock") /\ ~Hit(r)
    /\ loads < MaxLoad
    /\ loads' = loads + 1
    /\ maps' = [Unloaded(maps, {cache[resp[r].path]}) EXCEPT ![loads + 1] = LoadFile(r)]
    /\ cache' = [cache EXCEPT ![resp[r].path] = loads + 1]
    /\ total' = total + 1
    /\ resp' = [resp EXCEPT ![r].pc = "got", ![r].map = loads + 1]
    /\ UNCHANGED <<disk, modifies>>

LoadFail(r) ==
    /\ At(r, "lock") /\ ~Hit(r)
    /\ maps' = Unloaded(maps, {cache[resp[r].path]})
    /\ cache' = [cache EXCEPT ![resp[r].path] = None]
    /\ resp' = [resp EXCEPT ![r] = Idle]
    /\ UNCHANGED <<disk, modifies, loads, total>>

LEMMA NextCases ==
    ASSUME [Next]_vars
    PROVE  \/ \E p \in Path : Modify(p)
           \/ \E r \in Response, p \in Path : Stat(r, p)
           \/ \E r \in Response : \/ Take(r) \/ Miss(r) \/ Load(r) \/ LoadFail(r)
                                  \/ SetFile(r) \/ Sent(r) \/ UnmapFile(r)
           \/ \E S \in SUBSET Path : CleanupCache(S)
           \/ UNCHANGED vars
<1>1. ASSUME NEW r \in Response, Lookup(r) PROVE Take(r) \/ Miss(r)
  BY <1>1 DEF Lookup, Take, Miss
<1>2. ASSUME NEW r \in Response, GetFileMapping(r) PROVE Take(r) \/ Load(r) \/ LoadFail(r)
  BY <1>2, Zenon DEF GetFileMapping, Reload, Take, Load, LoadFail
<1> QED
  BY <1>1, <1>2 DEF Next

(* Only Modify changes what is on disk. *)
LEMMA DiskStep ==
    ASSUME [Next]_vars
    PROVE  (\E p \in Path : Modify(p)) \/ UNCHANGED <<disk, modifies>>
  BY NextCases DEF Stat, Take, Miss, Load, LoadFail, SetFile, Sent, UnmapFile, CleanupCache, vars

LEMMA InitInv == Init => IInv
<1> SUFFICES ASSUME Init PROVE IInv
  OBVIOUS
<1> USE BoundAssumption DEF Init, Mapping, None
<1>1. TypeOK
  BY DEF TypeOK, CachedFile, Fields, Unmade, Idle
<1>2. \A r \in Response : At(r, "idle") /\ ~Holds(r) /\ resp[r].map = None
  BY DEF At, Holds, Idle
<1>3. Fresh /\ Paths /\ Times /\ OneMapping /\ NotStale /\ HeldInTable /\ NotPinned /\ RefCountExact
  BY <1>2 DEF Fresh, Paths, Times, OneMapping, NotStale, HeldInTable, NotPinned, RefCountExact, Unmade
<1>4. TotalCovers
  <2>1. Cached = {}
    BY DEF Cached
  <2> QED
    BY <2>1, FS_EmptySet DEF TotalCovers
<1> QED
  BY <1>1, <1>3, <1>4 DEF IInv

LEMMA HoldersFinite ==
    ASSUME NEW m PROVE IsFiniteSet(Holders(m)) /\ Cardinality(Holders(m)) \in Nat
  BY ResponseAssumption, FS_Subset, FS_CardinalityType DEF Holders

(* What LoadFile and a failed load leave of the objects. *)
LEMMA LoadMaps ==
    ASSUME TypeOK, Fresh, Paths, NEW r \in Response, Load(r)
    PROVE  /\ loads + 1 \in Mapping /\ resp[r].path \in Path
           /\ maps'[loads + 1] = LoadFile(r)
           /\ \A m \in Mapping : m # loads + 1 =>
                maps'[m] = IF m = cache[resp[r].path] THEN [maps[m] EXCEPT !.live = FALSE] ELSE maps[m]
           /\ maps' \in [Mapping -> CachedFile]
<1>1. loads + 1 \in Mapping /\ resp[r].path \in Path
  BY BoundAssumption DEF Load, TypeOK, Mapping, Paths, At
<1>2. LoadFile(r) \in CachedFile
  BY <1>1 DEF LoadFile, CachedFile, TypeOK, Fields
<1>3. \A m \in Mapping : [maps[m] EXCEPT !.live = FALSE] \in CachedFile
  BY DEF TypeOK, CachedFile
<1> QED
  BY <1>1, <1>2, <1>3 DEF Load, TypeOK, Unloaded

LEMMA UnloadedMaps ==
    ASSUME TypeOK, NEW S
    PROVE  /\ Unloaded(maps, S) \in [Mapping -> CachedFile]
           /\ \A m \in Mapping :
                Unloaded(maps, S)[m] = IF m \in S THEN [maps[m] EXCEPT !.live = FALSE] ELSE maps[m]
<1>1. \A m \in Mapping : [maps[m] EXCEPT !.live = FALSE] \in CachedFile
  BY DEF TypeOK, CachedFile
<1> QED
  BY <1>1 DEF Unloaded, TypeOK

-----------------------------------------------------------------------------
(* Types and _totalMappedFiles *)

(* Cleaning takes its entries out of the table and out of the count. *)
LEMMA CleanupTotal ==
    ASSUME TypeOK, TotalCovers, NEW S \in SUBSET Path, CleanupCache(S)
    PROVE  TotalCovers' /\ total' \in Nat
<1>1. S \subseteq Cached /\ Cached' = Cached \ S
  BY DEF CleanupCache, Cleanable, Cached, TypeOK
<1>2. /\ IsFiniteSet(S) /\ Cardinality(S) \in Nat /\ Cardinality(S) <= Cardinality(Cached)
      /\ Cardinality(Cached) \in Nat
  BY <1>1, FS_Subset, FS_CardinalityType DEF TotalCovers
<1>3. IsFiniteSet(Cached \ S) /\ Cardinality(Cached \ S) = Cardinality(Cached) - Cardinality(S)
  <2>1. Cached \cap S = S
    BY <1>1
  <2> QED
    BY <2>1, FS_Difference DEF TotalCovers
<1> QED
  BY <1>1, <1>2, <1>3 DEF TotalCovers, CleanupCache, TypeOK

LEMMA TotalStep ==
    ASSUME TypeOK, Fresh, Paths, TotalCovers, [Next]_vars
    PROVE  TotalCovers' /\ total' \in Nat
<1> USE DEF TotalCovers
<1>1. ASSUME NEW r \in Response, Load(r) PROVE TotalCovers' /\ total' \in Nat
  <2>0. loads + 1 \in Mapping /\ resp[r].path \in Path
    BY <1>1, LoadMaps
  <2>1. Cached' = Cached \cup {resp[r].path}
    BY <1>1, <2>0 DEF Load, Cached, TypeOK, Mapping, None
  <2>2. IsFiniteSet(Cached') /\ Cardinality(Cached') <= Cardinality(Cached) + 1
    BY <2>1, FS_AddElement, FS_CardinalityType
  <2>3. Cardinality(Cached') \in Nat /\ Cardinality(Cached) \in Nat
    BY <2>2, FS_CardinalityType
  <2> QED
    BY <1>1, <2>2, <2>3 DEF Load, TypeOK
<1>2. ASSUME NEW r \in Response, LoadFail(r) PROVE TotalCovers' /\ total' \in Nat
  <2>1. Cached' \subseteq Cached
    BY <1>2 DEF LoadFail, Cached, TypeOK
  <2>2. /\ IsFiniteSet(Cached') /\ Cardinality(Cached') <= Cardinality(Cached)
        /\ Cardinality(Cached') \in Nat /\ Cardinality(Cached) \in Nat
    BY <2>1, FS_Subset, FS_CardinalityType
  <2> QED
    BY <1>2, <2>2 DEF LoadFail, TypeOK
<1>3. ASSUME UNCHANGED <<cache, total>> PROVE TotalCovers' /\ total' \in Nat
  BY <1>3 DEF Cached, TypeOK
<1> QED
  BY <1>1, <1>2, <1>3, NextCases, CleanupTotal
     DEF Modify, Stat, Take, TakeReference, Miss, SetFile, Sent, UnmapFile, vars

(* A step changes the fields of one response. *)
LEMMA FieldsStep ==
    ASSUME TypeOK, Fresh, Paths, [Next]_vars
    PROVE  resp' \in [Response -> Fields]
<1>1. ASSUME NEW r \in Response, NEW p \in Path, Stat(r, p) PROVE resp' \in [Response -> Fields]
  <2>1. [pc |-> "lookup", path |-> p, mtime |-> disk[p], map |-> None] \in Fields
    BY DEF Fields, TypeOK
  <2> QED
    BY <1>1, <2>1 DEF Stat, TypeOK
<1>2. ASSUME NEW r \in Response, Take(r) PROVE resp' \in [Response -> Fields]
  <2> DEFINE m == cache[resp[r].path]
  <2>1. m \in Mapping
    BY <1>2 DEF Take, Hit, TypeOK, Paths, At
  <2>2. [resp[r] EXCEPT !.pc = "got", !.map = m] \in Fields
    BY <2>1 DEF TypeOK, Fields
  <2>3. resp' = [resp EXCEPT ![r] = [resp[r] EXCEPT !.pc = "got", !.map = m]]
    BY <1>2 DEF Take, TakeReference, TypeOK
  <2> QED
    BY <2>2, <2>3 DEF TypeOK
<1>3. ASSUME NEW r \in Response, NEW pc \in {"lock", "held", "sent"},
             resp' = [resp EXCEPT ![r].pc = pc]
      PROVE  resp' \in [Response -> Fields]
  <2>1. [resp[r] EXCEPT !.pc = pc] \in Fields
    BY DEF TypeOK, Fields
  <2> QED
    BY <1>3, <2>1 DEF TypeOK
<1>4. ASSUME NEW r \in Response, Load(r) PROVE resp' \in [Response -> Fields]
  <2>0. loads + 1 \in Mapping
    BY <1>4, LoadMaps
  <2>1. [resp[r] EXCEPT !.pc = "got", !.map = loads + 1] \in Fields
    BY <2>0 DEF TypeOK, Fields
  <2>2. resp' = [resp EXCEPT ![r] = [resp[r] EXCEPT !.pc = "got", !.map = loads + 1]]
    BY <1>4 DEF Load, TypeOK
  <2> QED
    BY <2>1, <2>2 DEF TypeOK
<1>5. ASSUME NEW r \in Response, resp' = [resp EXCEPT ![r] = Idle]
      PROVE  resp' \in [Response -> Fields]
  BY <1>5 DEF TypeOK, Fields, Idle
<1>6. CASE resp' = resp
  BY <1>6 DEF TypeOK
<1> QED
  BY <1>1, <1>2, <1>3, <1>4, <1>5, <1>6, NextCases
     DEF Modify, Miss, LoadFail, SetFile, Sent, UnmapFile, CleanupCache, vars

LEMMA MapsStep ==
    ASSUME TypeOK, Fresh, Paths, [Next]_vars
    PROVE  maps' \in [Mapping -> CachedFile]
<1>1. ASSUME NEW m \in Mapping, NEW n \in Nat
      PROVE  [maps[m] EXCEPT !.refCount = n] \in CachedFile
  BY DEF TypeOK, CachedFile
<1>2. \A m \in Mapping : maps[m].refCount \in Nat
  BY DEF TypeOK, CachedFile
<1>3. ASSUME NEW r \in Response, Take(r) PROVE maps' \in [Mapping -> CachedFile]
  <2>1. cache[resp[r].path] \in Mapping
    BY <1>3 DEF Take, Hit, TypeOK, Paths, At
  <2>2. maps' = [maps EXCEPT ![cache[resp[r].path]] =
                   [maps[cache[resp[r].path]] EXCEPT !.refCount = maps[cache[resp[r].path]].refCount + 1]]
    BY <1>3, <2>1 DEF Take, TakeReference, TypeOK
  <2>3. maps[cache[resp[r].path]].refCount + 1 \in Nat
    BY <1>2, <2>1
  <2> QED
    BY <1>1, <2>1, <2>2, <2>3 DEF TypeOK
<1>4. ASSUME NEW r \in Response, UnmapFile(r) PROVE maps' \in [Mapping -> CachedFile]
  <2>1. cache[resp[r].path] \in Mapping \cup {None}
    BY <1>4 DEF UnmapFile, TypeOK, Paths, At
  <2>2. \A m \in Mapping : Released(maps[m]) \in CachedFile
    BY <1>1, <1>2 DEF Released, TypeOK
  <2> QED
    BY <1>4, <2>1, <2>2 DEF UnmapFile, TypeOK
<1>5. CASE maps' = maps
  BY <1>5 DEF TypeOK
<1>6. ASSUME NEW r \in Response, Load(r) PROVE maps' \in [Mapping -> CachedFile]
  BY <1>6, LoadMaps
<1>7. ASSUME NEW S, maps' = Unloaded(maps, S) PROVE maps' \in [Mapping -> CachedFile]
  BY <1>7, UnloadedMaps
<1> QED
  BY <1>3, <1>4, <1>5, <1>6, <1>7, NextCases
     DEF Modify, Stat, Miss, LoadFail, SetFile, Sent, CleanupCache, vars

LEMMA TypeStep ==
    ASSUME TypeOK, Fresh, Paths, TotalCovers, [Next]_vars
    PROVE  TypeOK'
<1>1. disk' \in [Path -> Nat] /\ modifies' \in Nat
  <2>1. ASSUME NEW p \in Path, Modify(p) PROVE disk' \in [Path -> Nat] /\ modifies' \in Nat
    BY <2>1 DEF TypeOK, Modify
  <2>2. CASE UNCHANGED <<disk, modifies>>
    BY <2>2 DEF TypeOK
  <2> QED
    BY <2>1, <2>2, DiskStep
<1>2. cache' \in [Path -> Mapping \cup {None}] /\ loads' \in 0..MaxLoad
  <2>1. ASSUME NEW r \in Response, Load(r)
        PROVE  cache' \in [Path -> Mapping \cup {None}] /\ loads' \in 0..MaxLoad
    <3>1. loads + 1 \in Mapping /\ resp[r].path \in Path
      BY <2>1, LoadMaps
    <3> QED
      BY <2>1, <3>1 DEF TypeOK, Load, Mapping
  <2>2. ASSUME NEW r \in Response, LoadFail(r)
        PROVE  cache' \in [Path -> Mapping \cup {None}] /\ loads' \in 0..MaxLoad
    BY <2>2 DEF TypeOK, LoadFail
  <2>3. ASSUME NEW S, CleanupCache(S)
        PROVE  cache' \in [Path -> Mapping \cup {None}] /\ loads' \in 0..MaxLoad
    BY <2>3 DEF TypeOK, CleanupCache
  <2>4. CASE UNCHANGED <<cache, loads>>
    BY <2>4 DEF TypeOK
  <2> QED
    BY <2>1, <2>2, <2>3, <2>4, NextCases
       DEF Modify, Stat, Take, TakeReference, Miss, SetFile, Sent, UnmapFile, vars
<1> QED
  BY <1>1, <1>2, TotalStep, FieldsStep, MapsStep DEF TypeOK

-----------------------------------------------------------------------------
(* Mappings, paths and times *)

(* A mapping keeps its path, time and bytes, is not mapped again once it is  *)
(* unloaded, and changes only through its count and its end.                 *)
LEMMA MappingKept ==
    ASSUME TypeOK, Fresh, Paths, [Next]_vars
    PROVE  /\ loads' \in Nat /\ loads <= loads'
           /\ \A m \in Mapping : m <= loads \/ loads' = loads =>
                /\ maps'[m].path = maps[m].path /\ maps'[m].lastModTime = maps[m].lastModTime
                /\ maps'[m].bytes = maps[m].bytes
                /\ maps'[m].live => maps[m].live
<1> DEFINE Kept(m) == /\ maps'[m].path = maps[m].path /\ maps'[m].lastModTime = maps[m].lastModTime
                      /\ maps'[m].bytes = maps[m].bytes
                      /\ maps'[m].live => maps[m].live
<1>0. \A m \in Mapping :
        LET f == [maps[m] EXCEPT !.live = FALSE]
        IN  /\ f.path = maps[m].path /\ f.lastModTime = maps[m].lastModTime /\ f.bytes = maps[m].bytes
            /\ ~f.live
  BY DEF TypeOK, CachedFile
<1>1. ASSUME NEW r \in Response, Load(r)
      PROVE  loads' = loads + 1 /\ \A m \in Mapping : m <= loads => Kept(m)
  <2>1. \A m \in Mapping : m # loads + 1 =>
          maps'[m] = IF m = cache[resp[r].path] THEN [maps[m] EXCEPT !.live = FALSE] ELSE maps[m]
    BY <1>1, LoadMaps
  <2>2. \A m \in Mapping : m <= loads => m # loads + 1
    BY DEF TypeOK, Mapping
  <2>3. \A m \in Mapping : m <= loads =>
          maps'[m] = maps[m] \/ maps'[m] = [maps[m] EXCEPT !.live = FALSE]
    BY <2>1, <2>2
  <2> QED
    BY <1>0, <1>1, <2>3 DEF Load
<1>2. ASSUME NEW S, maps' = Unloaded(maps, S) PROVE \A m \in Mapping : Kept(m)
  <2>1. \A m \in Mapping : maps'[m] = maps[m] \/ maps'[m] = [maps[m] EXCEPT !.live = FALSE]
    BY <1>2, UnloadedMaps
  <2> QED
    BY <1>0, <2>1
<1>3. ASSUME NEW r \in Response, Take(r) PROVE \A m \in Mapping : Kept(m)
  BY <1>3 DEF Take, TakeReference, TypeOK, CachedFile
<1>4. ASSUME NEW r \in Response, UnmapFile(r) PROVE \A m \in Mapping : Kept(m)
  <2>1. \A m \in Mapping : /\ Released(maps[m]).path = maps[m].path
                           /\ Released(maps[m]).lastModTime = maps[m].lastModTime
                           /\ Released(maps[m]).bytes = maps[m].bytes
                           /\ Released(maps[m]).live = maps[m].live
    BY DEF Released, TypeOK, CachedFile
  <2>2. \A m \in Mapping : maps'[m] = maps[m] \/ maps'[m] = Released(maps[m])
    BY <1>4 DEF UnmapFile, TypeOK
  <2> QED
    BY <2>1, <2>2
<1>5. ASSUME maps' = maps PROVE \A m \in Mapping : Kept(m)
  BY <1>5
<1>6. (\E r \in Response : Load(r)) \/ (loads' = loads /\ \A m \in Mapping : Kept(m))
  BY <1>2, <1>3, <1>4, <1>5, NextCases
     DEF Modify, Stat, Take, TakeReference, Miss, LoadFail, SetFile, Sent, UnmapFile, CleanupCache, vars
<1> QED
  BY <1>1, <1>6 DEF TypeOK

(* What a step does to a response that is not about to be idle. *)
LEMMA ResponseStep ==
    ASSUME TypeOK, Fresh, Paths, [Next]_vars, NEW r \in Response
    PROVE  \/ resp'[r] = resp[r]
           \/ resp'[r] = Idle
           \/ At(r, "idle") /\ ~Holds(r)' /\ \E p \in Path : Stat(r, p)
           \/ At(r, "lookup") /\ Miss(r)
           \/ Take(r) \/ Load(r)
           \/ /\ At(r, "got") \/ At(r, "held")
              /\ \E pc \in {"held", "sent"} : resp' = [resp EXCEPT ![r].pc = pc]
              /\ UNCHANGED <<disk, modifies, cache, maps, loads, total>>
<1>1. ASSUME NEW q \in Response, NEW p \in Path, Stat(q, p)
      PROVE  resp'[r] = resp[r] \/ (At(r, "idle") /\ ~Holds(r)' /\ Stat(r, p))
  BY <1>1 DEF Stat, TypeOK, Holds
<1>2. ASSUME NEW q \in Response, Take(q) PROVE resp'[r] = resp[r] \/ Take(r)
  BY <1>2 DEF Take, TakeReference, TypeOK
<1>3. ASSUME NEW q \in Response, Miss(q) PROVE resp'[r] = resp[r] \/ (At(r, "lookup") /\ Miss(r))
  BY <1>3 DEF Miss, TypeOK
<1>4. ASSUME NEW q \in Response, Load(q) PROVE resp'[r] = resp[r] \/ Load(r)
  BY <1>4 DEF Load, TypeOK
<1>5. ASSUME NEW q \in Response, LoadFail(q) \/ UnmapFile(q) PROVE resp'[r] = resp[r] \/ resp'[r] = Idle
  BY <1>5 DEF LoadFail, UnmapFile, TypeOK
<1>6. ASSUME NEW q \in Response, SetFile(q) \/ Sent(q)
      PROVE  \/ resp'[r] = resp[r]
             \/ /\ At(r, "got") \/ At(r, "held")
                /\ \E pc \in {"held", "sent"} : resp' = [resp EXCEPT ![r].pc = pc]
                /\ UNCHANGED <<disk, modifies, cache, maps, loads, total>>
  BY <1>6 DEF SetFile, Sent, TypeOK
<1>7. CASE resp' = resp
  BY <1>7
<1> QED
  BY <1>1, <1>2, <1>3, <1>4, <1>5, <1>6, <1>7, NextCases DEF Modify, CleanupCache, vars

LEMMA PathsStep ==
    ASSUME IInv, [Next]_vars
    PROVE  Fresh' /\ Paths' /\ Times' /\ NotStale'
<1> USE DEF IInv
<1>1. /\ TypeOK' /\ loads' \in Nat /\ loads <= loads'
      /\ \A m \in Mapping : m <= loads \/ loads' = loads =>
           /\ maps'[m].path = maps[m].path /\ maps'[m].lastModTime = maps[m].lastModTime
           /\ maps'[m].bytes = maps[m].bytes
           /\ maps'[m].live => maps[m].live
  BY TypeStep, MappingKept
<1>2. \A p \in Path : disk[p] <= disk'[p] /\ disk[p] \in Nat /\ disk'[p] \in Nat
  <2>1. ASSUME NEW q \in Path, Modify(q) PROVE \A p \in Path : disk[p] <= disk'[p]
    BY <2>1 DEF Modify, TypeOK
  <2> QED
    BY <1>1, <2>1, DiskStep DEF TypeOK
<1>3. ASSUME NEW r \in Response, Load(r)
      PROVE  /\ loads' = loads + 1 /\ loads' \in Mapping /\ disk' = disk
             /\ maps'[loads'].path = resp[r].path /\ resp[r].path \in Path
             /\ maps'[loads'].lastModTime = resp[r].mtime /\ maps'[loads'].bytes = disk[resp[r].path]
             /\ maps'[loads'].refCount = 1 /\ maps'[loads'].live
             /\ resp[r].mtime <= disk[resp[r].path] /\ resp[r].mtime \in Nat
             /\ resp'[r].map = loads' /\ resp'[r].path = resp[r].path /\ resp'[r].mtime = resp[r].mtime
  <2>1. loads + 1 \in Mapping /\ resp[r].path \in Path /\ maps'[loads + 1] = LoadFile(r)
    BY <1>3, LoadMaps
  <2>2. resp[r].mtime <= disk[resp[r].path]
    BY <1>3 DEF Load, At, Times
  <2> QED
    BY <1>3, <2>1, <2>2 DEF Load, LoadFile, TypeOK, Fields
<1>4. loads' = loads \/ \E r \in Response : Load(r)
  BY NextCases DEF Modify, Stat, Take, TakeReference, Miss, LoadFail, SetFile, Sent, UnmapFile,
                   CleanupCache, vars
<1>5. Fresh'
  <2>1. CASE loads' = loads
    <3>1. \A p \in Path : cache'[p] <= loads
      <4>1. ASSUME NEW r \in Response, LoadFail(r) PROVE \A p \in Path : cache'[p] <= loads
        BY <4>1 DEF LoadFail, Fresh, TypeOK, None
      <4>2. ASSUME NEW S, CleanupCache(S) PROVE \A p \in Path : cache'[p] <= loads
        BY <4>2 DEF CleanupCache, Fresh, TypeOK, None
      <4>3. ASSUME NEW r \in Response PROVE ~Load(r)
        BY <2>1 DEF Load, TypeOK
      <4> QED
        BY <4>1, <4>2, <4>3, NextCases DEF Fresh, Modify, Stat, Take, TakeReference, Miss, SetFile, Sent,
                                         UnmapFile, vars
    <3>2. ASSUME NEW r \in Response PROVE resp'[r].map <= loads
      <4>1. CASE Take(r)
        BY <4>1 DEF Take, TakeReference, TypeOK, Fresh, Paths, At, Fields
      <4>2. CASE Load(r)
        BY <2>1, <4>2 DEF Load, TypeOK
      <4> QED
        BY <4>1, <4>2, ResponseStep DEF Stat, Miss, Fresh, TypeOK, Fields, Idle, None
    <3> QED
      BY <1>1, <2>1, <3>1, <3>2 DEF Fresh
  <2>2. ASSUME NEW r \in Response, Load(r) PROVE Fresh'
    <3>0. /\ loads' = loads + 1 /\ resp[r].path \in Path /\ loads \in Nat
          /\ cache[resp[r].path] <= loads /\ cache[resp[r].path] \in Nat
      BY <1>3, <2>2 DEF Fresh, TypeOK, Mapping, None
    <3>1. \A m \in Mapping : m > loads' => maps'[m] = maps[m]
      <4>1. \A m \in Mapping : m > loads' => m # loads + 1 /\ m # cache[resp[r].path]
        BY <3>0 DEF Mapping
      <4> QED
        BY <2>2, <4>1, LoadMaps
    <3>2. \A p \in Path : cache'[p] = loads' \/ cache'[p] = cache[p]
      BY <1>3, <2>2 DEF Load, TypeOK
    <3>3. \A q \in Response : resp'[q].map = loads' \/ resp'[q].map = resp[q].map
      BY <1>3, <2>2 DEF Load, TypeOK, Fields
    <3> QED
      <4>1. \A m \in Mapping : m > loads' => ~maps'[m].live
        BY <3>0, <3>1 DEF Fresh, Mapping
      <4>2. \A p \in Path : cache'[p] <= loads'
        BY <3>0, <3>2 DEF Fresh, TypeOK, Mapping, None
      <4>3. \A q \in Response : resp'[q].map <= loads'
        BY <3>0, <3>3 DEF Fresh, TypeOK, Fields, Mapping, None
      <4> QED
        BY <4>1, <4>2, <4>3 DEF Fresh
  <2> QED
    BY <1>4, <2>1, <2>2
<1>6. Paths'
  <2>1. ASSUME NEW m \in Mapping, m <= loads' PROVE maps'[m].path \in Path
    <3>1. CASE m <= loads
      BY <1>1, <3>1 DEF Paths
    <3>2. CASE ~(m <= loads)
      <4>1. PICK r \in Response : Load(r)
        BY <1>4, <2>1, <3>2
      <4>2. m = loads'
        BY <1>3, <2>1, <3>2, <4>1 DEF Mapping, TypeOK
      <4> QED
        BY <1>3, <4>1, <4>2
    <3> QED
      BY <3>1, <3>2
  <2>2. ASSUME NEW r \in Response
        PROVE  /\ ~At(r, "idle")' => resp'[r].path \in Path
               /\ Holds(r)' => resp'[r].map \in Mapping /\ maps'[resp'[r].map].path = resp'[r].path
    <3>1. ASSUME NEW m \in Mapping, m <= loads PROVE maps'[m].path = maps[m].path
      BY <1>1, <3>1
    <3>2. CASE resp'[r] = resp[r]
      BY <3>1, <3>2 DEF Paths, At, Holds, Fresh
    <3>3. CASE resp'[r] = Idle
      BY <3>3 DEF At, Holds, Idle
    <3>4. CASE \E p \in Path : Stat(r, p)
      BY <3>4 DEF Stat, Holds, TypeOK
    <3>5. CASE Miss(r)
      BY <3>5 DEF Miss, At, Holds, Paths, TypeOK, Fields
    <3>6. CASE Take(r)
      <4> DEFINE m == cache[resp[r].path]
      <4>1. resp[r].path \in Path
        BY <3>6 DEF Take, Paths, At
      <4>2. m \in Mapping /\ m <= loads /\ maps[m].path = resp[r].path
        BY <3>6, <4>1 DEF Take, Hit, TypeOK, Fresh, OneMapping
      <4>3. resp'[r].path = resp[r].path /\ resp'[r].map = m
        BY <3>6 DEF Take, TakeReference, TypeOK, Fields
      <4> QED
        BY <3>1, <4>1, <4>2, <4>3
    <3>7. CASE Load(r)
      BY <1>3, <3>7
    <3>8. CASE /\ At(r, "got") \/ At(r, "held")
               /\ \E pc \in {"held", "sent"} : resp' = [resp EXCEPT ![r].pc = pc]
               /\ maps' = maps
      BY <3>8 DEF Paths, At, Holds, TypeOK, Fields
    <3> QED
      BY <3>2, <3>3, <3>4, <3>5, <3>6, <3>7, <3>8, ResponseStep
  <2> QED
    BY <2>1, <2>2 DEF Paths
<1>7. Times'
  <2>1. ASSUME NEW m \in Mapping, m <= loads' PROVE maps'[m].lastModTime <= disk'[maps'[m].path]
    <3>1. CASE m <= loads
      <4>1. maps[m].path \in Path /\ maps[m].lastModTime <= disk[maps[m].path]
        BY <3>1 DEF Paths, Times
      <4>2. maps'[m].path = maps[m].path /\ maps'[m].lastModTime = maps[m].lastModTime
        BY <1>1, <3>1
      <4>3. maps[m].lastModTime \in Nat
        BY DEF TypeOK, CachedFile
      <4> QED
        BY <1>2, <4>1, <4>2, <4>3
    <3>2. CASE ~(m <= loads)
      <4>1. PICK r \in Response : Load(r)
        BY <1>4, <2>1, <3>2
      <4>2. m = loads'
        BY <1>3, <2>1, <3>2, <4>1 DEF Mapping, TypeOK
      <4> QED
        BY <1>3, <4>1, <4>2
    <3> QED
      BY <3>1, <3>2
  <2>2. ASSUME NEW m \in Mapping PROVE maps'[m].lastModTime <= maps'[m].bytes
    <3>1. CASE m <= loads \/ loads' = loads
      BY <1>1, <3>1 DEF Times
    <3>2. ASSUME NEW r \in Response, Load(r), ~(m <= loads), m # loads'
          PROVE  maps'[m] = maps[m]
      <4>1. m # cache[resp[r].path]
        BY <1>3, <3>2 DEF Fresh
      <4> QED
        BY <1>3, <3>2, <4>1, LoadMaps
    <3> QED
      BY <1>3, <1>4, <3>1, <3>2 DEF Times
  <2>3. ASSUME NEW r \in Response, ~At(r, "idle")' PROVE resp'[r].mtime <= disk'[resp'[r].path]
    <3>1. CASE /\ resp[r].path = resp'[r].path /\ resp[r].mtime = resp'[r].mtime
               /\ ~At(r, "idle")
      <4>1. resp[r].path \in Path /\ resp[r].mtime <= disk[resp[r].path] /\ resp[r].mtime \in Nat
        BY <3>1 DEF Paths, Times, TypeOK, Fields
      <4> QED
        BY <1>2, <3>1, <4>1
    <3>2. CASE \E p \in Path : Stat(r, p)
      BY <3>2 DEF Stat, TypeOK
    <3>3. resp'[r] # Idle
      BY <2>3 DEF At, Idle
    <3>4. CASE Take(r) \/ Load(r)
      BY <3>1, <3>4 DEF At, Take, TakeReference, Load, TypeOK, Fields
    <3>5. CASE Miss(r)
      BY <3>1, <3>5 DEF At, Miss, TypeOK, Fields
    <3>6. CASE /\ At(r, "got") \/ At(r, "held")
               /\ \E pc \in {"held", "sent"} : resp' = [resp EXCEPT ![r].pc = pc]
      BY <3>1, <3>6 DEF At, TypeOK, Fields
    <3>7. CASE resp'[r] = resp[r]
      BY <2>3, <3>1, <3>7 DEF At
    <3> QED
      BY <3>2, <3>3, <3>4, <3>5, <3>6, <3>7, ResponseStep
  <2> QED
    BY <2>1, <2>2, <2>3 DEF Times
<1>8. NotStale'
  <2> SUFFICES ASSUME NEW r \in Response, Holds(r)'
               PROVE  maps'[resp'[r].map].bytes >= resp'[r].mtime
    BY DEF NotStale
  <2>1. CASE /\ Holds(r) /\ resp'[r].map = resp[r].map /\ resp'[r].mtime = resp[r].mtime
    <3>1. resp[r].map \in Mapping /\ resp[r].map <= loads
      BY <2>1 DEF Paths, Fresh
    <3> QED
      BY <1>1, <2>1, <3>1 DEF NotStale
  <2>2. CASE Take(r)
    <3> DEFINE m == cache[resp[r].path]
    <3>1. m \in Mapping /\ m <= loads /\ maps[m].lastModTime = resp[r].mtime
      BY <2>2 DEF Take, Hit, TypeOK, Fresh, Paths, At
    <3>2. resp'[r].mtime = resp[r].mtime /\ resp'[r].map = m
      BY <2>2 DEF Take, TakeReference, TypeOK, Fields
    <3>3. maps'[m].bytes = maps[m].bytes /\ maps[m].lastModTime <= maps[m].bytes
      BY <1>1, <3>1 DEF Times
    <3>4. maps[m].bytes \in Nat /\ maps[m].lastModTime \in Nat
      BY <3>1 DEF TypeOK, CachedFile
    <3> QED
      BY <3>1, <3>2, <3>3, <3>4
  <2>3. CASE Load(r)
    BY <1>3, <2>3 DEF TypeOK
  <2>4. resp'[r] # Idle
    BY DEF Holds, Idle
  <2> QED
    BY <2>1, <2>2, <2>3, <2>4, ResponseStep DEF Holds, At, Miss, TypeOK, Fields
<1> QED
  BY <1>5, <1>6, <1>7, <1>8

-----------------------------------------------------------------------------
(* One mapping per path *)

LEMMA OneMappingStep ==
    ASSUME IInv, [Next]_vars
    PROVE  OneMapping'
<1> USE DEF IInv
<1>0. ASSUME NEW m \in Mapping, maps[m].live
      PROVE  m <= loads /\ maps[m].path \in Path /\ cache[maps[m].path] = m
  BY <1>0 DEF Fresh, Paths, OneMapping, TypeOK, Mapping
<1>1. ASSUME cache' = cache,
             \A m \in Mapping : maps'[m].live = maps[m].live /\ maps'[m].path = maps[m].path
      PROVE  OneMapping'
  BY <1>1 DEF OneMapping, TypeOK
<1>2. ASSUME NEW r \in Response, Take(r) PROVE OneMapping'
  <2>1. \A m \in Mapping : maps'[m].live = maps[m].live /\ maps'[m].path = maps[m].path
    BY <1>2 DEF Take, TakeReference, TypeOK, CachedFile
  <2> QED
    BY <1>1, <1>2, <2>1 DEF Take, TakeReference
<1>3. ASSUME NEW r \in Response, UnmapFile(r) PROVE OneMapping'
  <2>1. \A m \in Mapping : /\ Released(maps[m]).path = maps[m].path
                           /\ Released(maps[m]).live = maps[m].live
    BY DEF Released, TypeOK, CachedFile
  <2>2. \A m \in Mapping : maps'[m] = maps[m] \/ maps'[m] = Released(maps[m])
    BY <1>3 DEF UnmapFile, TypeOK
  <2> QED
    BY <1>1, <1>3, <2>1, <2>2 DEF UnmapFile
<1>4. \A m \in Mapping : LET f == [maps[m] EXCEPT !.live = FALSE] IN f.path = maps[m].path /\ ~f.live
  BY DEF TypeOK, CachedFile
<1>5. ASSUME NEW S \in SUBSET Path, NEW D, D = {cache[p] : p \in S}, maps' = Unloaded(maps, D),
             cache' = [p \in Path |-> IF p \in S THEN None ELSE cache[p]]
      PROVE  OneMapping'
  <2>0. \A m \in Mapping : maps'[m] = IF m \in D THEN [maps[m] EXCEPT !.live = FALSE] ELSE maps[m]
    BY <1>5, UnloadedMaps
  <2>1. ASSUME NEW p \in Path, cache'[p] # None
        PROVE  maps'[cache'[p]].live /\ maps'[cache'[p]].path = p
    <3>1. p \notin S /\ cache'[p] = cache[p] /\ cache[p] \in Mapping
      BY <1>5, <2>1 DEF TypeOK
    <3>2. maps[cache[p]].live /\ maps[cache[p]].path = p
      BY <2>1, <3>1 DEF OneMapping
    <3>3. cache[p] \notin D
      <4> SUFFICES ASSUME NEW q \in S, cache[q] = cache[p] PROVE FALSE
        BY <1>5
      <4>1. maps[cache[q]].path = q
        BY <2>1, <3>1 DEF OneMapping
      <4> QED
        BY <3>1, <3>2, <4>1
    <3> QED
      <4>1. maps'[cache[p]] = maps[cache[p]]
        BY <2>0, <3>1, <3>3
      <4> QED
        BY <3>1, <3>2, <4>1
  <2>2. ASSUME NEW m \in Mapping, maps'[m].live PROVE cache'[maps'[m].path] = m
    <3>1. m \notin D /\ maps'[m] = maps[m]
      BY <1>4, <2>0, <2>2
    <3>2. maps[m].path \in Path /\ cache[maps[m].path] = m
      BY <1>0, <2>2, <3>1
    <3> QED
      BY <1>5, <3>1, <3>2
  <2> QED
    BY <2>1, <2>2 DEF OneMapping
<1>6. ASSUME NEW r \in Response, LoadFail(r) PROVE OneMapping'
  <2>1. resp[r].path \in Path
    BY <1>6 DEF LoadFail, At, Paths
  <2> DEFINE S == {resp[r].path}
             D == {cache[resp[r].path]}
  <2>2. S \in SUBSET Path /\ D = {cache[p] : p \in S}
    BY <2>1
  <2>3. maps' = Unloaded(maps, D)
    BY <1>6 DEF LoadFail
  <2>4. cache' = [p \in Path |-> IF p \in S THEN None ELSE cache[p]]
    BY <1>6, <2>1 DEF LoadFail, TypeOK
  <2> HIDE DEF S, D
  <2> QED
    BY <1>5, <2>2, <2>3, <2>4
<1>7. ASSUME NEW r \in Response, Load(r) PROVE OneMapping'
  <2> DEFINE q == resp[r].path
             new == loads + 1
  <2>1. /\ new \in Mapping /\ q \in Path /\ maps'[new] = LoadFile(r)
        /\ \A m \in Mapping : m # new =>
             maps'[m] = IF m = cache[q] THEN [maps[m] EXCEPT !.live = FALSE] ELSE maps[m]
    BY <1>7, LoadMaps
  <2>2. maps'[new].live /\ maps'[new].path = q /\ cache' = [cache EXCEPT ![q] = new]
    <3>1. cache' = [cache EXCEPT ![q] = new]
      BY <1>7 DEF Load
    <3>2. LoadFile(r).live /\ LoadFile(r).path = q
      BY DEF LoadFile
    <3> QED
      BY <2>1, <3>1, <3>2
  <2> HIDE DEF new, q
  <2>3. ASSUME NEW p \in Path, cache'[p] # None
        PROVE  maps'[cache'[p]].live /\ maps'[cache'[p]].path = p
    <3>1. CASE p = q
      BY <2>1, <2>2, <3>1 DEF TypeOK
    <3>2. CASE p # q
      <4>1. cache'[p] = cache[p] /\ cache[p] \in Mapping /\ cache[p] # new
        BY <2>2, <2>3, <3>2 DEF TypeOK, Fresh, Mapping, new
      <4>2. maps[cache[p]].live /\ maps[cache[p]].path = p
        BY <2>3, <4>1 DEF OneMapping
      <4>3. cache[p] # cache[q]
        BY <2>1, <2>3, <3>2, <4>1, <4>2 DEF OneMapping
      <4> QED
        BY <2>1, <4>1, <4>2, <4>3
    <3> QED
      BY <3>1, <3>2
  <2>4. ASSUME NEW m \in Mapping, maps'[m].live PROVE cache'[maps'[m].path] = m
    <3>1. CASE m = new
      BY <2>1, <2>2, <3>1 DEF TypeOK
    <3>2. CASE m # new
      <4>1. m # cache[q] /\ maps'[m] = maps[m]
        BY <1>4, <2>1, <2>4, <3>2
      <4>2. maps[m].path \in Path /\ cache[maps[m].path] = m
        BY <1>0, <2>4, <4>1
      <4> QED
        BY <2>2, <4>1, <4>2 DEF TypeOK
    <3> QED
      BY <3>1, <3>2
  <2> QED
    BY <2>3, <2>4 DEF OneMapping
<1>8. ASSUME NEW S \in SUBSET Path, CleanupCache(S) PROVE OneMapping'
  BY <1>5, <1>8 DEF CleanupCache
<1> QED
  BY <1>1, <1>2, <1>3, <1>6, <1>7, <1>8, NextCases DEF Modify, Stat, Miss, SetFile, Sent, vars

-----------------------------------------------------------------------------
(* Reference counts *)

(* For a file that never changed, what is looked for is what is in the       *)
(* table: GetFileMapping loads it only if the table has no entry.            *)
LEMMA UnchangedHits ==
    ASSUME IInv, NEW r \in Response, ~At(r, "idle"), disk[resp[r].path] = 0, ~Hit(r)
    PROVE  cache[resp[r].path] = None
<1> DEFINE p == resp[r].path
           m == cache[p]
<1>1. p \in Path
  BY DEF IInv, Paths
<1>2. resp[r].mtime = 0
  BY DEF IInv, Times, TypeOK, Fields
<1>3. ASSUME m # None PROVE FALSE
  <2>1. m \in Mapping /\ m <= loads /\ maps[m].path = p
    BY <1>1, <1>3 DEF IInv, TypeOK, Fresh, OneMapping
  <2>2. maps[m].lastModTime <= 0 /\ maps[m].lastModTime \in Nat
    BY <2>1 DEF IInv, Times, TypeOK, CachedFile
  <2> QED
    BY <1>2, <1>3, <2>2 DEF Hit
<1> QED
  BY <1>3

LEMMA HeldInTableStep ==
    ASSUME IInv, [Next]_vars
    PROVE  HeldInTable'
<1> USE DEF IInv
<1>1. \A p \in Path : disk'[p] = 0 => disk[p] = 0
  <2>1. ASSUME NEW q \in Path, Modify(q) PROVE \A p \in Path : disk'[p] = 0 => disk[p] = 0
    BY <2>1 DEF Modify, TypeOK
  <2> QED
    BY <2>1, DiskStep
<1> SUFFICES ASSUME NEW r \in Response, Holds(r)', disk'[resp'[r].path] = 0
             PROVE  cache'[resp'[r].path] = resp'[r].map
  BY DEF HeldInTable
<1>2. CASE Take(r)
  BY <1>2 DEF Take, TakeReference, TypeOK, Fields
<1>3. CASE Load(r)
  <2>1. resp[r].path \in Path
    BY <1>3, LoadMaps
  <2> QED
    BY <1>3, <2>1 DEF Load, TypeOK, Fields
<1>4. CASE Holds(r) /\ resp'[r].path = resp[r].path /\ resp'[r].map = resp[r].map
  <2> DEFINE p == resp[r].path
             m == resp[r].map
  <2>1. /\ p \in Path /\ m \in Mapping /\ disk[p] = 0 /\ cache[p] = m /\ m # None
        /\ maps[m].refCount = Cardinality(Holders(m)) /\ r \in Holders(m)
    <3>1. p \in Path /\ m \in Mapping /\ m # None
      BY <1>4 DEF Paths, Holds, At, Mapping, None
    <3>2. disk[p] = 0 /\ cache[p] = m
      BY <1>1, <1>4, <3>1 DEF HeldInTable
    <3> QED
      BY <1>4, <3>1, <3>2 DEF RefCountExact, Holders
  <2> HIDE DEF p, m
  <2>2. cache'[p] = cache[p]
    <3>1. ASSUME NEW q \in Response, Load(q) \/ LoadFail(q) PROVE cache'[p] = cache[p]
      <4>1. resp[q].path # p
        <5> SUFFICES ASSUME resp[q].path = p PROVE FALSE
          OBVIOUS
        <5>1. ~At(q, "idle") /\ ~Hit(q)
          BY <3>1 DEF Load, LoadFail, At
        <5> QED
          BY <2>1, <5>1, UnchangedHits
      <4> QED
        BY <2>1, <3>1, <4>1 DEF Load, LoadFail, TypeOK
    <3>2. ASSUME NEW S \in SUBSET Path, CleanupCache(S) PROVE cache'[p] = cache[p]
      <4>1. Cardinality(Holders(m)) # 0
        BY <2>1, HoldersFinite, FS_EmptySet
      <4>2. p \notin S
        BY <2>1, <3>2, <4>1 DEF CleanupCache, Cleanable
      <4> QED
        BY <2>1, <3>2, <4>2 DEF CleanupCache
    <3> QED
      BY <3>1, <3>2, NextCases DEF Modify, Stat, Take, TakeReference, Miss, SetFile, Sent, UnmapFile, vars
  <2> QED
    BY <1>4, <2>1, <2>2 DEF p, m
<1>5. resp'[r] # Idle
  BY DEF Holds, Idle
<1> QED
  BY <1>2, <1>3, <1>4, <1>5, ResponseStep DEF Holds, At, Miss, TypeOK, Fields

(* The count of entry p agrees with its holders, as NotPinned and            *)
(* RefCountExact ask.                                                        *)
Counted(p) ==
    cache[p] # None =>
        /\ maps[cache[p]].refCount <= Cardinality(Holders(cache[p]))
        /\ disk[p] = 0 => maps[cache[p]].refCount = Cardinality(Holders(cache[p]))

LEMMA CountedMeans == NotPinned /\ RefCountExact <=> \A p \in Path : Counted(p)
  BY DEF NotPinned, RefCountExact, Counted

(* A step that touches neither the entry nor its holders. *)
LEMMA CountedKept ==
    ASSUME NEW p \in Path, Counted(p), cache'[p] = cache[p],
           cache[p] # None => maps'[cache[p]].refCount = maps[cache[p]].refCount,
           Holders(cache[p])' = Holders(cache[p]), disk'[p] = 0 => disk[p] = 0
    PROVE  Counted(p)'
  BY DEF Counted

LEMMA TakeCounted ==
    ASSUME IInv, NEW r \in Response, Take(r), NEW p \in Path
    PROVE  Counted(p)'
<1> USE DEF IInv
<1>0. PICK m : m = cache[resp[r].path]
  OBVIOUS
<1>1. /\ m \in Mapping /\ m # None /\ resp[r].path \in Path
      /\ ~Holds(r) /\ Counted(p)
  BY <1>0, CountedMeans DEF Take, Hit, TypeOK, Paths, At, Holds
<1>2. /\ resp'[r].map = m /\ Holds(r)'
      /\ \A q \in Response : q # r => resp'[q] = resp[q]
  BY <1>0 DEF Take, TakeReference, TypeOK, Fields, Holds
<1>3. /\ UNCHANGED <<cache, disk>>
      /\ maps'[m].refCount = maps[m].refCount + 1
      /\ \A n \in Mapping : n # m => maps'[n] = maps[n]
  BY <1>0, <1>1 DEF Take, TakeReference, TypeOK, CachedFile
<1>4. CASE cache[p] = m
  <2>1. Holders(m)' = Holders(m) \cup {r} /\ r \notin Holders(m)
    BY <1>1, <1>2 DEF Holders, Holds
  <2>2. Cardinality(Holders(m)') = Cardinality(Holders(m)) + 1
    BY <2>1, HoldersFinite, FS_AddElement
  <2>3. maps[m].refCount \in Nat /\ Cardinality(Holders(m)) \in Nat
    BY <1>1, HoldersFinite DEF TypeOK, CachedFile
  <2> QED
    BY <1>1, <1>3, <1>4, <2>2, <2>3 DEF Counted
<1>5. CASE cache[p] # m
  <2>1. Holders(cache[p])' = Holders(cache[p])
    BY <1>1, <1>2, <1>3, <1>5 DEF Holders, Holds
  <2>2. cache[p] # None => maps'[cache[p]] = maps[cache[p]]
    BY <1>3, <1>5 DEF TypeOK
  <2> QED
    BY <1>1, <1>3, <2>1, <2>2, CountedKept
<1> QED
  BY <1>4, <1>5

LEMMA LoadCounted ==
    ASSUME IInv, NEW r \in Response, Load(r), NEW p \in Path
    PROVE  Counted(p)'
<1> USE DEF IInv
<1>0. PICK q, new : q = resp[r].path /\ new = loads + 1
  OBVIOUS
<1>1. /\ new \in Mapping /\ q \in Path /\ maps'[new] = LoadFile(r)
      /\ \A m \in Mapping : m # new =>
           maps'[m] = IF m = cache[q] THEN [maps[m] EXCEPT !.live = FALSE] ELSE maps[m]
  BY <1>0, LoadMaps
<1>2. /\ cache' = [cache EXCEPT ![q] = new] /\ disk' = disk
      /\ resp'[r].map = new /\ Holds(r)' /\ ~Holds(r)
      /\ \A s \in Response : s # r => resp'[s] = resp[s]
  BY <1>0 DEF Load, TypeOK, Fields, Holds, At
<1>3. \A s \in Response : resp[s].map # new
  BY <1>0 DEF Fresh, TypeOK, Fields, Mapping, None
<1>4. LoadFile(r).refCount = 1
  BY DEF LoadFile
<1>5. CASE p = q
  <2>1. Holders(new)' = {r}
    BY <1>2, <1>3 DEF Holders, Holds
  <2>2. Cardinality(Holders(new)') = 1
    BY <2>1, FS_Singleton
  <2>3. cache'[p] = new /\ maps'[new].refCount = 1
    BY <1>1, <1>2, <1>4, <1>5 DEF TypeOK
  <2> QED
    BY <2>2, <2>3 DEF Counted
<1>6. CASE p # q
  <2>1. cache'[p] = cache[p] /\ Counted(p)
    BY <1>2, <1>6, CountedMeans DEF TypeOK
  <2>2. ASSUME cache[p] # None PROVE cache[p] # cache[q] /\ cache[p] # new /\ cache[p] \in Mapping
    BY <1>0, <1>1, <1>6, <2>2 DEF OneMapping, TypeOK, Fresh, Mapping
  <2>3. cache[p] # None => maps'[cache[p]] = maps[cache[p]]
    BY <1>1, <2>2
  <2>4. ASSUME cache[p] # None PROVE Holders(cache[p])' = Holders(cache[p])
    BY <1>2, <1>3, <2>1, <2>2, <2>4 DEF Holders, Holds
  <2> QED
    BY <1>2, <2>1, <2>3, <2>4 DEF Counted
<1> QED
  BY <1>5, <1>6

(* The holders after a response becomes idle. *)
LEMMA IdleHolders ==
    ASSUME TypeOK, NEW r \in Response, resp' = [resp EXCEPT ![r] = Idle], NEW m
    PROVE  Holders(m)' = Holders(m) \ {r}
<1>1. ~Holds(r)' /\ \A s \in Response : s # r => resp'[s] = resp[s]
  BY DEF TypeOK, Holds, Idle
<1> QED
  BY <1>1 DEF Holders, Holds

(* The other entries when some are taken out of the table. *)
LEMMA DroppedCounted ==
    ASSUME IInv, NEW S \in SUBSET Path, NEW D, D = {cache[q] : q \in S}, maps' = Unloaded(maps, D),
           cache' = [q \in Path |-> IF q \in S THEN None ELSE cache[q]], disk' = disk,
           \A m : Holders(m)' = Holders(m), NEW p \in Path
    PROVE  Counted(p)'
<1> USE DEF IInv
<1>1. CASE p \in S
  BY <1>1 DEF Counted
<1>2. CASE p \notin S
  <2>1. cache'[p] = cache[p] /\ Counted(p)
    BY <1>2, CountedMeans
  <2>2. ASSUME cache[p] # None PROVE maps'[cache[p]] = maps[cache[p]]
    <3>1. cache[p] \notin D /\ cache[p] \in Mapping
      BY <1>2, <2>2 DEF OneMapping, TypeOK
    <3> QED
      BY <3>1, UnloadedMaps
  <2> QED
    BY <2>1, <2>2, CountedKept
<1> QED
  BY <1>1, <1>2

LEMMA UnmapCounted ==
    ASSUME IInv, NEW r \in Response, UnmapFile(r), NEW p \in Path
    PROVE  Counted(p)'
<1> USE DEF IInv
<1> DEFINE q == resp[r].path
           m == cache[q]
<1>1. q \in Path /\ Holds(r) /\ Counted(p) /\ UNCHANGED <<cache, disk>>
  BY CountedMeans DEF UnmapFile, At, Holds, Paths
<1>2. Holders(cache[p])' = Holders(cache[p]) \ {r}
  <2>1. \A n : Holders(n)' = Holders(n) \ {r}
    BY IdleHolders DEF UnmapFile
  <2> QED
    BY <1>1, <2>1 DEF Holders, Holds
<1>3. maps' = IF m = None THEN maps ELSE [maps EXCEPT ![m] = Released(maps[m])]
  BY DEF UnmapFile
<1>4. r \in Holders(resp[r].map) /\ maps[resp[r].map].path = q /\ resp[r].map \in Mapping
  BY <1>1 DEF Holders, Paths
<1>5. disk[q] = 0 => m = resp[r].map
  BY <1>1 DEF HeldInTable
<1> HIDE DEF m, q
<1>6. CASE p = q /\ m # None
  <2>0. m \in Mapping /\ cache[p] = m
    BY <1>1, <1>6 DEF TypeOK, m
  <2>1. maps'[m] = Released(maps[m])
    BY <1>3, <1>6, <2>0 DEF TypeOK
  <2>2. maps[m].refCount \in Nat
    BY <2>0 DEF TypeOK, CachedFile
  <2>3. maps'[m].refCount = IF maps[m].refCount > 0 THEN maps[m].refCount - 1 ELSE 0
    BY <2>0, <2>1, <2>2 DEF Released, TypeOK, CachedFile
  <2>4. /\ IsFiniteSet(Holders(m)) /\ Cardinality(Holders(m)) \in Nat
        /\ Cardinality(Holders(m) \ {r}) =
             IF r \in Holders(m) THEN Cardinality(Holders(m)) - 1 ELSE Cardinality(Holders(m))
    BY HoldersFinite, FS_RemoveElement
  <2>5. r \in Holders(m) => Cardinality(Holders(m)) # 0
    BY <2>4, FS_EmptySet
  <2>6. disk[p] = 0 => r \in Holders(m)
    BY <1>4, <1>5, <1>6
  <2>7. /\ maps[m].refCount <= Cardinality(Holders(m))
        /\ disk[p] = 0 => maps[m].refCount = Cardinality(Holders(m))
    BY <1>1, <1>6, <2>0 DEF Counted
  <2>8. /\ maps'[m].refCount <= Cardinality(Holders(m) \ {r})
        /\ disk[p] = 0 => maps'[m].refCount = Cardinality(Holders(m) \ {r})
    BY <2>2, <2>3, <2>4, <2>5, <2>6, <2>7
  <2> QED
    BY <1>1, <1>2, <2>0, <2>8 DEF Counted
<1>7. CASE p = q /\ m = None
  BY <1>1, <1>7 DEF Counted, m
<1>8. CASE p # q
  <2>1. ASSUME cache[p] # None
        PROVE  cache[p] # m /\ cache[p] # resp[r].map /\ cache[p] \in Mapping
    BY <1>1, <1>4, <1>8, <2>1 DEF OneMapping, TypeOK, m
  <2>2. cache[p] # None => maps'[cache[p]] = maps[cache[p]] /\ r \notin Holders(cache[p])
    BY <1>3, <2>1 DEF TypeOK, Holders
  <2>3. cache[p] # None => Holders(cache[p])' = Holders(cache[p])
    BY <1>2, <2>2
  <2> QED
    BY <1>1, <2>2, <2>3 DEF Counted
<1> QED
  BY <1>6, <1>7, <1>8

LEMMA CountedStep ==
    ASSUME IInv, [Next]_vars
    PROVE  NotPinned' /\ RefCountExact'
<1> USE DEF IInv
<1>0. /\ \A p \in Path : Counted(p)
      /\ (\A p \in Path : Counted(p)') => NotPinned' /\ RefCountExact'
  BY CountedMeans DEF NotPinned, RefCountExact, Counted
<1>1. ASSUME UNCHANGED <<cache, maps>>, \A m : Holders(m)' = Holders(m),
             \A p \in Path : disk'[p] = 0 => disk[p] = 0
      PROVE  \A p \in Path : Counted(p)'
  BY <1>0, <1>1, CountedKept
<1>2. ASSUME UNCHANGED resp PROVE \A m : Holders(m)' = Holders(m)
  BY <1>2 DEF Holders, Holds
<1>3. ASSUME NEW p \in Path, Modify(p) PROVE \A q \in Path : Counted(q)'
  <2>1. \A q \in Path : disk'[q] = 0 => disk[q] = 0
    BY <1>3 DEF Modify, TypeOK
  <2> QED
    BY <1>1, <1>2, <1>3, <2>1 DEF Modify
<1>4. ASSUME NEW r \in Response, (\E p \in Path : Stat(r, p)) \/ Miss(r) \/ SetFile(r) \/ Sent(r)
      PROVE  \A q \in Path : Counted(q)'
  <2>1. \A s \in Response : Holds(s)' = Holds(s) /\ (Holds(s) => resp'[s].map = resp[s].map)
    BY <1>4 DEF Stat, Miss, SetFile, Sent, At, Holds, TypeOK, Fields
  <2>2. \A m : Holders(m)' = Holders(m)
    BY <2>1 DEF Holders
  <2> QED
    BY <1>1, <1>4, <2>2 DEF Stat, Miss, SetFile, Sent
<1>5. ASSUME NEW r \in Response, LoadFail(r) PROVE \A q \in Path : Counted(q)'
  <2> DEFINE S == {resp[r].path}
             D == {cache[resp[r].path]}
  <2>1. resp[r].path \in Path /\ ~Holds(r)
    BY <1>5 DEF LoadFail, At, Paths, Holds
  <2>2. S \in SUBSET Path /\ D = {cache[p] : p \in S}
    BY <2>1
  <2>3. maps' = Unloaded(maps, D) /\ disk' = disk
    BY <1>5 DEF LoadFail
  <2>4. cache' = [p \in Path |-> IF p \in S THEN None ELSE cache[p]]
    BY <1>5, <2>1 DEF LoadFail, TypeOK
  <2>5. \A m : Holders(m)' = Holders(m)
    <3>1. \A m : Holders(m)' = Holders(m) \ {r}
      BY <1>5, IdleHolders DEF LoadFail
    <3> QED
      BY <2>1, <3>1 DEF Holders
  <2> HIDE DEF S, D
  <2> QED
    BY <2>2, <2>3, <2>4, <2>5, DroppedCounted
<1>6. ASSUME NEW S \in SUBSET Path, CleanupCache(S) PROVE \A q \in Path : Counted(q)'
  <2>1. UNCHANGED <<disk, resp>>
    BY <1>6 DEF CleanupCache
  <2> QED
    BY <1>2, <1>6, <2>1, DroppedCounted DEF CleanupCache
<1>7. CASE UNCHANGED vars
  BY <1>0, <1>1, <1>2, <1>7 DEF vars
<1> QED
  BY <1>0, <1>3, <1>4, <1>5, <1>6, <1>7, NextCases, TakeCounted, LoadCounted, UnmapCounted

-----------------------------------------------------------------------------

LEMMA InvStep == IInv /\ [Next]_vars => IInv'
  BY TypeStep, PathsStep, OneMappingStep, HeldInTableStep, CountedStep, TotalStep DEF IInv

LEMMA Invariance == Spec => []IInv
  BY InitInv, InvStep, PTL DEF Spec

(* The table of FileCache, for any number of responses, files, loads and     *)
(* changes: one mapping per path and none the table has lost; counts that    *)
(* pin nothing, and that are exact for files that never changed; and a       *)
(* _totalMappedFiles that does not go below zero.                            *)
THEOREM CacheIsSound == Spec => []CacheSound
<1>1. IInv => CacheSound
  BY DEF IInv, CacheSound
<1> QED
  BY <1>1, Invariance, PTL

(* No response serves bytes older than the file its stat() saw. *)
THEOREM NeverStale == Spec => []NotStale
<1>1. IInv => NotStale
  BY DEF IInv
<1> QED
  BY <1>1, Invariance, PTL

(* What a response reads or sends of a file that never changed is not        *)
(* unmapped under it, by cleaning or by the loads of others.                 *)
THEOREM HeldStaysMapped == Spec => []HeldIsMapped
<1>1. IInv => HeldIsMapped
  <2> SUFFICES ASSUME IInv, NEW r \in Response, resp[r].pc \in {"got", "held"}, disk[resp[r].path] = 0
               PROVE  maps[resp[r].map].live
    BY DEF HeldIsMapped
  <2>1. Holds(r) /\ resp[r].map \in Mapping /\ resp[r].path \in Path
    BY DEF IInv, Paths, Holds, At
  <2>2. cache[resp[r].path] = resp[r].map /\ resp[r].map # None
    BY <2>1 DEF IInv, HeldInTable, Mapping, None
  <2> QED
    BY <2>1, <2>2 DEF IInv, OneMapping
<1> QED
  BY <1>1, Invariance, PTL
=============================================================================
