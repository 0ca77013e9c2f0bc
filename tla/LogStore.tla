------------------------------ MODULE LogStore ------------------------------
(***************************************************************************)
(* The request log (src/logstore/logstore.go, with log in                  *)
(* src/server/server.go and startLogCleanup in src/main.go): one detail    *)
(* file per request, one line per request in index.tsv, and a cache of the *)
(* latest lines. Handlers stamp their entry before they take the store's   *)
(* lock; the retention sweep runs beside them; a write may be cut short by *)
(* a full disk or a crash, and the process may die at any step.            *)
(*                                                                         *)
(* Every step below is one system call or one stretch under the lock.      *)
(***************************************************************************)
EXTENDS Integers, SequencesExt

CONSTANTS
    Requests,       \* the logged requests: the ids of their entries
    Garbage,        \* the path a line has when the one before it was cut short
    CacheMax,       \* cacheMax, cacheMin, cacheWindow
    CacheMin,
    CacheWindow,
    DayLength,      \* ticks of a calendar day
    Retention,      \* log_retention_days, in ticks
    MaxTime,        \* bound on the clock
    MaxTorn,        \* bound on the appends cut short
    MaxCrashes      \* bound on the crashes

ASSUME LogAssumption ==
    /\ Garbage \notin Requests
    /\ CacheMin \in Nat \ {0} /\ CacheMax \in Nat \ {0} /\ CacheMin <= CacheMax
    /\ {CacheWindow, DayLength, Retention, MaxTime} \subseteq Nat \ {0}
    /\ MaxTorn \in Nat /\ MaxCrashes \in Nat

Times == 1..MaxTime
Day(t) == t \div DayLength

\* An IndexEntry, and a line of the index: readable tells whether parseIndexLine
\* takes it.
Row == [id: Requests \cup {Garbage}, time: Times]
Line == [id: Requests \cup {Garbage}, time: Times, readable: BOOLEAN]

\* Where the index's last line was cut: not at all (it ends in a newline), in its
\* path, in its time (or it begins with NUL bytes), right behind the time, or in
\* a later field.
Cuts == {"none", "path", "time", "edge", "field"}

VARIABLES
    now,        \* the clock
    up,         \* is the process running?
    stage,      \* stage[r]: how far the logging of r is
    stamp,      \* stamp[r]: Entry.Time, 0 before there is one
    files,      \* the detail files on disk
    index,      \* the lines of index.tsv below its header
    tail,       \* where the last line is cut
    cache,      \* Store.cache
    sweep,      \* the running Cleanup: waits for the lock, is the one that main
                \* runs first, or is about to prune
    cutoff,     \* the cutoff day of the latest Cleanup
    torn,       \* appends cut short so far
    crashes     \* crashes so far

disk == <<files, index, tail, torn>>
logVars == <<now, up, stage, stamp, disk, cache, sweep, cutoff, crashes>>

\* "open" until stamped; "filed" and "indexed" hold the lock; "logged" once Write
\* returned nil; "unlogged" once it failed or the process died.
LogStages == {"open", "stamped", "filed", "indexed", "logged", "unlogged"}

LogTypeOK ==
    /\ now \in Times
    /\ up \in BOOLEAN
    /\ stage \in [Requests -> LogStages]
    /\ stamp \in [Requests -> 0..MaxTime]
    /\ files \subseteq Requests
    /\ index \in Seq(Line) /\ tail \in Cuts
    /\ cache \in Seq(Row) /\ Len(cache) <= CacheMax
    /\ sweep \in {"idle", "wait", "start", "prune"}
    /\ cutoff \in 0..Day(MaxTime)
    /\ torn \in 0..MaxTorn /\ crashes \in 0..MaxCrashes

\* New on an empty directory; the first sweep has nothing to do.
LogInit ==
    /\ now = 1
    /\ up = TRUE
    /\ stage = [r \in Requests |-> "open"]
    /\ stamp = [r \in Requests |-> 0]
    /\ files = {}
    /\ index = <<>> /\ tail = "none"
    /\ cache = <<>>
    /\ sweep = "idle" /\ cutoff = 0
    /\ torn = 0 /\ crashes = 0

\* Nobody holds the store's lock.
Unlocked == sweep \notin {"start", "prune"} /\ \A r \in Requests : stage[r] \notin {"filed", "indexed"}

\* newLastN and slice: the last n elements.
LastN(s, n) == IF Len(s) <= n THEN s ELSE SubSeq(s, Len(s) - n + 1, Len(s))

\* The elements of s that are in keep, in their order: SelectSeq by a set.
Chosen(s, keep) ==
    LET chosen[n \in 0..Len(s)] ==
            IF n = 0 THEN <<>> ELSE IF s[n] \in keep THEN Append(chosen[n - 1], s[n]) ELSE chosen[n - 1]
    IN  chosen[Len(s)]

\* forEachIndexLine: what a reader of the index gets to see.
Readable == {l \in Line : l.readable}
ReadRows(lines) ==
    LET seen == Chosen(lines, Readable)
    IN  [i \in DOMAIN seen |-> [id |-> seen[i].id, time |-> seen[i].time]]

-----------------------------------------------------------------------------
(* Write *)

\* server.log: the entry gets its time before Write takes the lock.
Stamp(r) ==
    /\ up /\ stage[r] = "open"
    /\ stamp' = [stamp EXCEPT ![r] = now]
    /\ stage' = [stage EXCEPT ![r] = "stamped"]
    /\ UNCHANGED <<now, up, disk, cache, sweep, cutoff, crashes>>

\* Mutant: a failed WriteFile goes unnoticed.
WriteFileUnchecked(r) ==
    /\ up /\ Unlocked /\ stage[r] = "stamped"
    /\ files' \in {files, files \cup {r}}
    /\ stage' = [stage EXCEPT ![r] = "filed"]
    /\ UNCHANGED <<now, up, stamp, index, tail, torn, cache, sweep, cutoff, crashes>>

\* The detail file comes first; if it fails the entry is given up.
WriteFile(r) ==
    /\ up /\ Unlocked /\ stage[r] = "stamped"
    /\ \/ /\ files' = files \cup {r}
          /\ stage' = [stage EXCEPT ![r] = "filed"]
       \/ /\ UNCHANGED files
          /\ stage' = [stage EXCEPT ![r] = "unlogged"]
    /\ UNCHANGED <<now, up, stamp, index, tail, torn, cache, sweep, cutoff, crashes>>

\* r's line, up to cut, written behind a last line that was cut at tail: behind
\* a newline it is a line of its own, otherwise it becomes part of that line.
Extended(r, cut) ==
    LET own == [id |-> r, time |-> stamp[r], readable |-> cut \in {"none", "edge", "field"}]
        n == Len(index)
    IN  CASE tail = "none" -> Append(index, own)
          [] tail = "path" -> [index EXCEPT ![n] = [own EXCEPT !.id = Garbage]]
          [] tail \in {"time", "edge"} -> [index EXCEPT ![n].readable = FALSE]
          [] tail = "field" -> index

CutAfter(cut) ==
    IF cut = "none" \/ tail \in {"none", "path"} THEN cut
    ELSE IF tail = "edge" THEN "time" ELSE tail

\* appendIndexLine: one write, which may be cut short; then Write fails.
AppendIndexLine(r) ==
    /\ stage[r] = "filed"
    /\ \/ /\ index' = Extended(r, "none") /\ tail' = "none"
          /\ stage' = [stage EXCEPT ![r] = "indexed"]
          /\ UNCHANGED torn
       \/ /\ torn < MaxTorn
          /\ \E cut \in Cuts \ {"none"} : index' = Extended(r, cut) /\ tail' = CutAfter(cut)
          /\ torn' = torn + 1
          /\ stage' = [stage EXCEPT ![r] = "unlogged"]
       \/ /\ stage' = [stage EXCEPT ![r] = "unlogged"]
          /\ UNCHANGED <<index, tail, torn>>
    /\ UNCHANGED <<now, up, stamp, files, cache, sweep, cutoff, crashes>>

\* evict: the hard cap, then rows older than the window from the front, as long
\* as more than CacheMin remain.
Evicted(rows) ==
    LET capped == LastN(rows, CacheMax)
        drop == Min({n \in 0..Len(capped) :
                      Len(capped) - n <= CacheMin \/ capped[n + 1].time > now - CacheWindow})
    IN  SubSeq(capped, drop + 1, Len(capped))

UpdateCache(r) ==
    /\ stage[r] = "indexed"
    /\ cache' = Evicted(Append(cache, [id |-> r, time |-> stamp[r]]))
    /\ stage' = [stage EXCEPT ![r] = "logged"]
    /\ UNCHANGED <<now, up, stamp, disk, sweep, cutoff, crashes>>

-----------------------------------------------------------------------------
(* Cleanup *)

CutoffDay == IF now > Retention THEN Day(now - Retention) ELSE 0

\* Cleanup takes the time before it takes the lock.
BeginCleanup ==
    /\ up /\ sweep = "idle"
    /\ cutoff' = CutoffDay /\ sweep' = "wait"
    /\ UNCHANGED <<now, up, stage, stamp, disk, cache, crashes>>

Expired(r) == Day(stamp[r]) < cutoff

\* removeOldDayDirs, once Cleanup has the lock: the old days go one by one; an
\* error ends the sweep midway.
RemoveOldDayDirs ==
    /\ sweep = "start" \/ (sweep = "wait" /\ Unlocked)
    /\ \/ files' = {r \in files : ~Expired(r)} /\ sweep' = "prune"
       \/ /\ \E gone \in SUBSET {r \in files : Expired(r)} : files' = files \ gone
          /\ sweep' = "idle"
    /\ UNCHANGED <<now, up, stage, stamp, index, tail, torn, cache, cutoff, crashes>>

KeptLines == Chosen(index, {l \in Readable : Day(l.time) >= cutoff})
Drops == \E i \in DOMAIN index : index[i].readable /\ Day(index[i].time) < cutoff

\* Mutants: the cache is not refreshed; the last line gets no newline.
PruneIndexOnly ==
    /\ sweep = "prune"
    /\ sweep' = "idle"
    /\ IF Drops THEN index' = KeptLines /\ tail' = "none" ELSE UNCHANGED <<index, tail>>
    /\ UNCHANGED <<now, up, stage, stamp, files, torn, cache, cutoff, crashes>>
PruneIndexUnended ==
    /\ sweep = "prune"
    /\ sweep' = "idle"
    /\ IF Drops
       THEN /\ index' = KeptLines /\ tail' = IF KeptLines = <<>> THEN "none" ELSE "field"
            /\ cache' = LastN(ReadRows(KeptLines), CacheMax)
       ELSE UNCHANGED <<index, tail, cache>>
    /\ UNCHANGED <<now, up, stage, stamp, files, torn, cutoff, crashes>>

\* pruneIndex: the rows to keep replace the index by a rename, and the cache is
\* filled anew; when nothing is dropped, or an error occurs, all stays as it is.
PruneIndex ==
    /\ sweep = "prune"
    /\ sweep' = "idle"
    /\ \/ /\ Drops
          /\ index' = KeptLines /\ tail' = "none"
          /\ cache' = LastN(ReadRows(KeptLines), CacheMax)
       \/ UNCHANGED <<index, tail, cache>>
    /\ UNCHANGED <<now, up, stage, stamp, files, torn, cutoff, crashes>>

-----------------------------------------------------------------------------
(* Crash and restart *)

Crash ==
    /\ up /\ crashes < MaxCrashes
    /\ up' = FALSE /\ crashes' = crashes + 1
    /\ stage' = [r \in Requests |->
                    IF stage[r] \in {"stamped", "filed", "indexed"} THEN "unlogged" ELSE stage[r]]
    /\ cache' = <<>> /\ sweep' = "idle"
    /\ UNCHANGED <<now, stamp, disk, cutoff>>

\* Mutant: every line counts as an entry.
RestartUnparsed ==
    /\ ~up /\ up' = TRUE
    /\ cache' = index
    /\ cutoff' = CutoffDay /\ sweep' = "start"
    /\ UNCHANGED <<now, stage, stamp, disk, crashes>>

\* New: warmCache; then main runs the first sweep before anything is served.
Restart ==
    /\ ~up /\ up' = TRUE
    /\ cache' = LastN(ReadRows(index), CacheMax)
    /\ cutoff' = CutoffDay /\ sweep' = "start"
    /\ UNCHANGED <<now, stage, stamp, disk, crashes>>

TimePasses ==
    /\ now < MaxTime /\ now' = now + 1
    /\ UNCHANGED <<up, stage, stamp, disk, cache, sweep, cutoff, crashes>>

LogNext ==
    \/ \E r \in Requests : Stamp(r) \/ WriteFile(r) \/ AppendIndexLine(r) \/ UpdateCache(r)
    \/ BeginCleanup \/ RemoveOldDayDirs \/ PruneIndex
    \/ Crash \/ Restart
    \/ TimePasses

LogSpec == LogInit /\ [][LogNext]_logVars

-----------------------------------------------------------------------------
(* What readers get *)

\* Since: from the newest cached row back to the first that is not newer.
Since(c) ==
    LET last == Max({0} \cup {i \in DOMAIN cache : cache[i].time <= c})
    IN  Reverse(SubSeq(cache, last + 1, Len(cache)))

\* Mutant: the page includes the row at the cursor.
BeforeOrAt(c, limit) ==
    LET rows == ReadRows(index)
        stop == Min({Len(rows) + 1} \cup {i \in DOMAIN rows : rows[i].time > c})
    IN  Reverse(LastN(SubSeq(rows, 1, stop - 1), limit))

\* Before: the index is read up to the first row that is not older, and the last
\* rows read are kept.
Before(c, limit) ==
    LET rows == ReadRows(index)
        stop == Min({Len(rows) + 1} \cup {i \in DOMAIN rows : rows[i].time >= c})
    IN  Reverse(LastN(SubSeq(rows, 1, stop - 1), limit))

-----------------------------------------------------------------------------
(* Properties *)

Serving == up /\ Unlocked

Logged == {r \in Requests : stage[r] = "logged" /\ ~Expired(r)}
Listed == {ReadRows(index)[i].id : i \in DOMAIN ReadRows(index)}

\* Across crashes, restarts and sweeps an entry whose Write succeeded stays
\* listed until its day expires, but for one entry per append that was cut short:
\* the line written behind the cut one. (appendIndexLine, forEachIndexLine,
\* pruneIndex; TestTSVReaderTolerance only reads such a file.)
TornLinesCostOneEntryEach == Cardinality(Logged \ Listed) <= torn

\* The index lists no entry without its detail file, but those whose day a sweep
\* was removing. (Order of Write: "so the index never references a missing
\* file"; removeOldDayDirs before pruneIndex.)
ListedRowsHaveFiles ==
    \A r \in Listed \ {Garbage} : Expired(r) \/ r \in files

\* While no line was cut short the cache is the end of the index, however it came
\* about (writes, eviction, a sweep, a restart), and holds CacheMin rows if the
\* index does: the first page of the web UI is never emptier than that. (evict,
\* warmCache, pruneIndex.)
CacheIsTheTail ==
    Serving /\ torn = 0 =>
        /\ IsSuffix(cache, ReadRows(index))
        /\ Len(cache) >= Min({CacheMin, Len(ReadRows(index))})

InOrder(rows) == \A i, j \in DOMAIN rows : i < j => rows[i].time <= rows[j].time
Rows(s) == {s[i] : i \in DOMAIN s}

\* As long as the entries were written in the order of their times, the two
\* shortcuts of the readers are exact: Since gives all newer cached rows, Before
\* the newest rows older than the cursor, as many as fit, newest first. (Since and Before
\* stop at the first row on the wrong side of the cursor.)
ReadersAreExact ==
    Serving /\ InOrder(ReadRows(index)) =>
        \A c \in Times :
            /\ InOrder(cache) => Rows(Since(c)) = {x \in Rows(cache) : x.time > c}
            /\ \A limit \in 1..CacheMax :
                LET rows == ReadRows(index)
                    older == {i \in DOMAIN rows : rows[i].time < c}
                    page == Before(c, limit) IN
                /\ Len(page) = Min({limit, Cardinality(older)}) /\ InOrder(Reverse(page))
                /\ \A x \in Rows(page) :
                    /\ x.time < c
                    /\ \A i \in older : rows[i] \in Rows(page) \/ rows[i].time <= x.time

\* The comment of Since: "returns cached entries strictly newer than ts, newest
\* first", resting on "cache is chronological; nothing older qualifies".
SinceTellsAllNewer ==
    Serving => \A c \in Times : Rows(Since(c)) = {x \in Rows(cache) : x.time > c}
=============================================================================
