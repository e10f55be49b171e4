--------------------------- MODULE StaticFileCache ---------------------------
(***************************************************************************)
(* The cache of static files of the web UI: a Map in the order of use, the *)
(* total size kept beside it, a time to live and an eviction loop.         *)
(*                                                                         *)
(* A time stamp appears as the time passed since, in units as long as the  *)
(* shortest time that matters; Old stands for every time beyond Ttl.       *)
(***************************************************************************)
EXTENDS Integers, SequencesExt

CONSTANTS
  Paths,
  Versions,  \* the contents a file may have
  Size,      \* the length of each content of each file
  MaxSize, MaxFiles, Ttl

ASSUME CacheAssumption ==
  /\ Size \in [Paths \X Versions -> Nat]
  /\ MaxSize \in Nat \ {0} /\ MaxFiles \in Nat \ {0} /\ Ttl \in Nat

Old == Ttl + 1

\* cached is the time since cachedAt, accessed that since lastAccessedAt.
CacheEntry == [path: Paths, version: Versions, cached: 0..Old, accessed: 0..Old]

\* The entries are in the order of the Map's keys.
EmptyCache == [entries |-> <<>>, currentSize |-> 0]

SizeOf(e) == Size[e.path, e.version]

Expired(e) == e.cached > Ttl

Has(c, path) == \E i \in DOMAIN c.entries : c.entries[i].path = path

\* Where the entry of path is, and the entry.
Place(c, path) == CHOOSE i \in DOMAIN c.entries : c.entries[i].path = path
EntryOf(c, path) == c.entries[Place(c, path)]

Without(c, path) == RemoveAt(c.entries, Place(c, path))

\* remove.
RemoveEntry(c, path) ==
  IF ~Has(c, path) THEN c
  ELSE [entries |-> Without(c, path), currentSize |-> c.currentSize - SizeOf(EntryOf(c, path))]

EvictLRU(c) == RemoveEntry(c, Head(c.entries).path)

Full(c, size) == c.currentSize + size > MaxSize \/ Len(c.entries) >= MaxFiles

\* The loop of set: room[n] is the cache after at most n evictions.
MakeRoom(c, size) ==
  LET room[n \in 0..Len(c.entries)] ==
        IF n = 0 THEN c
        ELSE LET d == room[n - 1] IN IF Full(d, size) THEN EvictLRU(d) ELSE d
  IN room[Len(c.entries)]

\* get finds an entry that is still good.
Hit(c, path) == Has(c, path) /\ ~Expired(EntryOf(c, path))

BugGetAge(c, path) ==
  IF ~Hit(c, path) THEN RemoveEntry(c, path)
  ELSE [c EXCEPT !.entries =
          Append(Without(c, path), [EntryOf(c, path) EXCEPT !.accessed = 0, !.cached = 0])]

BugGetOrder(c, path) ==
  IF ~Hit(c, path) THEN RemoveEntry(c, path)
  ELSE [c EXCEPT !.entries[Place(c, path)].accessed = 0]

\* What get leaves: an expired entry goes, a used one becomes the last.
Get(c, path) ==
  IF ~Hit(c, path) THEN RemoveEntry(c, path)
  ELSE [c EXCEPT !.entries =
          Append(Without(c, path), [EntryOf(c, path) EXCEPT !.accessed = 0])]

BugSet(c, path, version) ==
  LET new  == [path |-> path, version |-> version, cached |-> 0, accessed |-> 0]
      room == MakeRoom(RemoveEntry(c, path), SizeOf(new))
  IN IF SizeOf(new) > MaxSize THEN c
     ELSE [entries |-> Append(room.entries, new), currentSize |-> room.currentSize]

\* set: a file larger than the cache is not cached, and an older content of it
\* stays.
SetEntry(c, path, version) ==
  LET new  == [path |-> path, version |-> version, cached |-> 0, accessed |-> 0]
      room == MakeRoom(RemoveEntry(c, path), SizeOf(new))
  IN IF SizeOf(new) > MaxSize THEN c
     ELSE [entries |-> Append(room.entries, new),
           currentSize |-> room.currentSize + SizeOf(new)]

\* clean[n] is the cache after the loop has seen n entries.
CleanupExpired(c) ==
  LET clean[n \in 0..Len(c.entries)] ==
        IF n = 0 THEN c
        ELSE LET d == clean[n - 1]
                 e == c.entries[n]
             IN IF Expired(e) THEN RemoveEntry(d, e.path) ELSE d
  IN clean[Len(c.entries)]

\* One unit of time passes.
Aged(c) ==
  LET older(t) == IF t = Old THEN Old ELSE t + 1
  IN [c EXCEPT !.entries = [i \in DOMAIN c.entries |->
        [c.entries[i] EXCEPT !.cached = older(@), !.accessed = older(@)]]]

\* The length of all that is cached.
TotalSize(c) ==
  LET total[n \in 0..Len(c.entries)] ==
        IF n = 0 THEN 0 ELSE total[n - 1] + SizeOf(c.entries[n])
  IN total[Len(c.entries)]
=============================================================================
