----------------------------- MODULE WebUIServer -----------------------------
(***************************************************************************)
(* The HTTP side of the web UI: handleHttpRequest admits a request through *)
(* the rate limiter, serveStaticFile looks for the file, in the cache and  *)
(* then on the disk.  Files change while requests wait for the disk.       *)
(***************************************************************************)
EXTENDS StaticFileCache, RateLimiter

CONSTANTS
  Handlers,  \* bound: so many requests are served at a time
  Edited     \* bound: the files that change

ASSUME VersionsAssumption == Versions \subseteq Nat /\ Versions # {}

VARIABLES
  cache,
  disk,     \* the content each file has now
  serving,  \* what each handler awaits: "looking" for the path, "reading" the
            \* file, or to go on with the content "read"
  running   \* stop has not been called

vars == <<limiterVars, cache, disk, serving, running>>

Idle == [stage |-> "idle"]

First == CHOOSE v \in Versions : \A w \in Versions : v <= w

Init ==
  /\ LimiterInit
  /\ cache = EmptyCache
  /\ disk = [p \in Paths |-> First]
  /\ serving = [h \in Handlers |-> Idle]
  /\ running = TRUE

\* A request comes: refused with 429, ended at once (401, or an API request),
\* or served from a file; a connection kept alive brings some even after stop.
HandleHttpRequest(h, c) ==
  /\ serving[h] = Idle
  /\ CheckDetailed(c)
  /\ \/ UNCHANGED serving
     \/ /\ Allowed(c)
        /\ \E p \in Paths : serving' = [serving EXCEPT ![h] = [stage |-> "looking", path |-> p]]
  /\ UNCHANGED <<cache, disk, running>>

\* The path has been resolved; a path that does not exist, or is forbidden, is
\* answered without the cache.
LookUp(h) ==
  /\ serving[h].stage = "looking"
  /\ LET path == serving[h].path
     IN \/ serving' = [serving EXCEPT ![h] = Idle] /\ UNCHANGED cache
        \/ /\ cache' = Get(cache, path)
           /\ serving' = [serving EXCEPT ![h] =
                IF Hit(cache, path) THEN Idle ELSE [stage |-> "reading", path |-> path]]
  /\ UNCHANGED <<limiterVars, disk, running>>

\* readFile takes the content, or fails (500).
ReadFile(h) ==
  /\ serving[h].stage = "reading"
  /\ LET path == serving[h].path
     IN serving' \in {[serving EXCEPT ![h] = Idle],
                      [serving EXCEPT ![h] = [stage |-> "read", path |-> path,
                                              version |-> disk[path]]]}
  /\ UNCHANGED <<limiterVars, cache, disk, running>>

\* readFile has returned, perhaps after other requests for the same path, or
\* after stop.
CacheFile(h) ==
  /\ serving[h].stage = "read"
  /\ cache' = SetEntry(cache, serving[h].path, serving[h].version)
  /\ serving' = [serving EXCEPT ![h] = Idle]
  /\ UNCHANGED <<limiterVars, disk, running>>

FileChanges(p) ==
  /\ \E v \in Versions : v > disk[p] /\ disk' = [disk EXCEPT ![p] = v]
  /\ UNCHANGED <<limiterVars, cache, serving, running>>

CacheCleanup ==
  /\ running
  /\ cache' = CleanupExpired(cache)
  /\ UNCHANGED <<limiterVars, disk, serving, running>>

LimiterCleanup ==
  /\ running
  /\ Cleanup
  /\ UNCHANGED <<cache, disk, serving, running>>

\* stop; the requests that are being served go on.
Stop ==
  /\ running
  /\ running' = FALSE
  /\ cache' = EmptyCache
  /\ Destroy
  /\ UNCHANGED <<disk, serving>>

TimePasses ==
  /\ cache' = Aged(cache)
  /\ Elapse
  /\ UNCHANGED <<disk, serving, running>>

Next ==
  \/ \E h \in Handlers : \/ \E c \in Clients : HandleHttpRequest(h, c)
                         \/ LookUp(h) \/ ReadFile(h) \/ CacheFile(h)
  \/ \E p \in Edited : FileChanges(p)
  \/ CacheCleanup \/ LimiterCleanup \/ Stop \/ TimePasses

Spec == Init /\ [][Next]_vars

\* Time passes, and the cleanup interval fires.
FairSpec == Spec /\ WF_vars(TimePasses) /\ WF_vars(CacheCleanup)

-----------------------------------------------------------------------------
\* The accounted size is that of the entries through every replacement,
\* eviction, expiry and late set, no path has two entries, and both limits
\* hold.
CacheBounded ==
  /\ cache.entries \in Seq(CacheEntry)
  /\ cache.currentSize = TotalSize(cache)
  /\ cache.currentSize <= MaxSize /\ Len(cache.entries) <= MaxFiles
  /\ \A i, j \in DOMAIN cache.entries :
       cache.entries[i].path = cache.entries[j].path => i = j

\* What evictLRU takes for the least recently used entry is: the Map is in the
\* order of lastAccessedAt.
LruOrder ==
  \A i, j \in DOMAIN cache.entries :
    i < j => cache.entries[i].accessed >= cache.entries[j].accessed

\* Whatever 60 s are taken, no client is admitted more often than the limit,
\* and none below the limit is refused, although the cleanup drops time stamps
\* and a refusal keeps expired ones.
LimitExact ==
  \A c \in Clients :
    /\ Len(admitted[c]) <= MaxRequests
    /\ Allowed(c) <=> Len(admitted[c]) < MaxRequests

Stale(p) == Has(cache, p) /\ EntryOf(cache, p).version # disk[p]

\* A content that the disk no longer has leaves the cache of a running server:
\* hits do not keep it alive, and a late set only starts its time again.
StaleLeaves == \A p \in Edited : Stale(p) ~> ~running \/ ~Stale(p)
=============================================================================
