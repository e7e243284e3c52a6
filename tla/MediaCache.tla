----------------------------- MODULE MediaCache -----------------------------
(* The cache of downloaded media (qvs-format cache.rs): data files on disk, *)
(* and entries in memory that are not written anywhere. A write opens its   *)
(* file, writes it and only then takes the lock to record the entry; a      *)
(* clean-up drops its entries under the lock and removes the files after    *)
(* it, one by one, and does not look whether a removal went through. So     *)
(* writes, reads, clean-ups, deletes and restarts meet in any order. The    *)
(* .qmv files, which no code writes, are the engine's cached sources.       *)
EXTENDS Naturals, Functions, FiniteSets, FiniteSetsExt, Sequences, SequencesExt

CONSTANTS Hashes,     \* info hashes
          Ends,       \* where a write may end: offset + data.len()
          Threshold,  \* 80 % of max_size, in the same unit
          Times,      \* what the system's clock may show
          Cleaners,   \* calls of cleanup()
          MaxWrites,  \* bound: writes
          MaxWriters  \* bound: writes at a time

ASSUME EndsAssumption == Ends \subseteq Nat \ {0}
ASSUME ThresholdAssumption == Threshold \in Nat
ASSUME TimesAssumption == Times \subseteq Nat

VARIABLE cache  \* entries, disk, the clock, the writes and the removals under
                \* way. `strays` lists the hashes whose file was left by a
                \* failed write, a failed removal, a dropped clean-up or a
                \* restart; `steady` says that the clock did not go back

Absent == 0  \* the length of a data file that is not there, or is empty

\* CacheManager::new: whatever the disk holds, no entry is known.
Fresh(disk, now) ==
    [entries |-> [h \in {} |-> 0], disk |-> disk, writes |-> {},
     removing |-> [k \in Cleaners |-> <<>>], count |-> 0, strays |-> {},
     now |-> now, steady |-> TRUE]

CacheInit == \E t \in Times : cache = Fresh([h \in Hashes |-> Absent], t)

\* SystemTime::now() shows any time, an earlier one when the clock is set back.
Tick ==
    \E t \in Times :
       cache' = [cache EXCEPT !.now = t, !.steady = @ /\ t >= cache.now]

\* write(): the file is created if need be, without truncation. What is
\* written to a file that is removed meanwhile is lost with it (`linked`).
BeginWrite ==
    /\ cache.count < MaxWrites /\ Cardinality(cache.writes) < MaxWriters
    /\ \E h \in Hashes, end \in Ends :
         cache' = [cache EXCEPT
                     !.count = @ + 1,
                     !.writes = @ \cup {[nr |-> cache.count, hash |-> h, end |-> end,
                                         linked |-> TRUE, done |-> FALSE]}]

WriteData ==
    \E w \in cache.writes :
       /\ ~w.done
       /\ cache' = [cache EXCEPT
                      !.writes = (@ \ {w}) \cup {[w EXCEPT !.done = TRUE]},
                      !.disk[w.hash] = IF w.linked THEN Max({@, w.end}) ELSE @]

\* An entry after its first write. `wrote` and `used` keep, for the properties,
\* the times of the last write and of the last write or read of its file.
NewEntry(end, now) ==
    [size |-> end, downloaded |-> end, last |-> now, wrote |-> now, used |-> now]

\* Mutant: a later write of a known entry does not count as an access.
RecordedOnce(entries, h, end, now) ==
    IF h \in DOMAIN entries
    THEN [entries EXCEPT ![h].downloaded = Max({@, end}),
                         ![h].wrote = now, ![h].used = now]
    ELSE [g \in DOMAIN entries \cup {h} |->
            IF g = h THEN NewEntry(end, now) ELSE entries[g]]

\* The entry after a write. Its file_size stays the end of the first write.
Recorded(entries, h, end, now) ==
    IF h \in DOMAIN entries
    THEN [entries EXCEPT ![h].downloaded = Max({@, end}), ![h].last = now,
                         ![h].wrote = now, ![h].used = now]
    ELSE [g \in DOMAIN entries \cup {h} |->
            IF g = h THEN NewEntry(end, now) ELSE entries[g]]

EndWrite ==
    \E w \in cache.writes :
       /\ w.done
       /\ cache' = [cache EXCEPT
                      !.writes = @ \ {w}, !.strays = @ \ {w.hash},
                      !.entries = Recorded(@, w.hash, w.end, cache.now)]

\* A write fails, before or after it reached its file: no entry is recorded.
WriteFails ==
    \E w \in cache.writes :
       cache' = [cache EXCEPT !.writes = @ \ {w}, !.strays = @ \cup {w.hash}]

\* read(): a use of the file that its entry does not show.
Read ==
    \E h \in DOMAIN cache.entries :
       /\ cache.disk[h] # Absent
       /\ cache' = [cache EXCEPT !.entries[h].used = cache.now]

FileSizes(entries, hashes) ==
    LET size(h) == entries[h].size IN MapThenSumSet(size, hashes)

\* sort_by: the entries by last_access, those of the same time in any order.
Sorted(entries) ==
    {q \in SetToSeqs(DOMAIN entries) :
        \A i, j \in DOMAIN q : i < j => entries[q[i]].last <= entries[q[j]].last}

\* cleanup(): one pass over the sorted entries, of which each goes while the
\* rest, with it, is above the threshold.
Evicted(entries, q) ==
    LET total(i) == FileSizes(entries, {q[j] : j \in i..Len(q)})
    IN  SubSeq(q, 1, Cardinality({i \in DOMAIN q : total(i) > Threshold}))

Cleanup(k) ==
    /\ cache.removing[k] = <<>>
    /\ \E q \in Sorted(cache.entries) :
         LET gone == Evicted(cache.entries, q) IN
         cache' = [cache EXCEPT !.removing[k] = gone,
                                !.entries = Restrict(@, DOMAIN @ \ Range(gone))]

Unlinked(c, h) ==
    [c EXCEPT !.disk[h] = Absent, !.strays = @ \ {h},
              !.writes = {[w EXCEPT !.linked = w.linked /\ w.hash # h] : w \in c.writes}]

\* What became of the file of h, whose removal may fail.
Removed(h) ==
    {Unlinked(cache, h), [cache EXCEPT !.strays = @ \cup {h}]}

\* Mutant: a failed removal gives up the ones behind it with `?`.
RemoveFileStops(k) ==
    /\ cache.removing[k] # <<>>
    /\ \E c \in Removed(Head(cache.removing[k])) :
         cache' = [c EXCEPT !.removing[k] =
                               IF Head(@) \in c.strays THEN <<>> ELSE Tail(@)]

\* The files of a clean-up, once the lock is given up, whether or not the one
\* before could be removed; a write that came in between has its entry and no
\* file.
RemoveFile(k) ==
    /\ cache.removing[k] # <<>>
    /\ \E c \in Removed(Head(cache.removing[k])) :
         cache' = [c EXCEPT !.removing[k] = Tail(@)]

\* The future of a clean-up is dropped between two removals.
CleanupDropped(k) ==
    /\ cache.removing[k] # <<>>
    /\ cache' = [cache EXCEPT !.removing[k] = <<>>,
                              !.strays = @ \cup Range(cache.removing[k])]

\* delete(): the files go, the entry stays; when it fails all stays as it is.
Delete == \E h \in Hashes : cache' \in {Unlinked(cache, h), cache}

\* The process dies and starts again: files stay, entries and calls do not.
Restart ==
    cache' = [Fresh(cache.disk, cache.now)
                 EXCEPT !.count = cache.count, !.strays = Hashes]

CacheNext ==
    \/ Tick \/ BeginWrite \/ WriteData \/ EndWrite \/ WriteFails \/ Read
    \/ \E k \in Cleaners : Cleanup(k) \/ RemoveFile(k) \/ CleanupDropped(k)
    \/ Delete \/ Restart

CacheSpec == CacheInit /\ [][CacheNext]_cache

-----------------------------------------------------------------------------

\* Every file of the cache is known to an entry, to a write or to a clean-up
\* that is removing it: none is left where no later clean-up would find it, but
\* for the files that a failed write, a removal that failed, a dropped clean-up
\* or a restart left behind (write, cleanup, delete).
NoStrayFiles ==
    \A h \in Hashes :
        (cache.disk[h] # Absent /\ h \notin cache.strays) =>
            \/ h \in DOMAIN cache.entries
            \/ \E k \in Cleaners : h \in Range(cache.removing[k])
            \/ \E w \in cache.writes : w.hash = h

\* While the clock does not go back, no entry goes that was written to after
\* the last use, by a read or by a write, of an entry that stays (write, read,
\* cleanup). It says nothing of an entry that was read lately and written to
\* long ago: read() leaves its last_access alone, so that one may go first.
CleanupKeepsFresh ==
    [][LET before == cache.entries
           stays  == DOMAIN cache'.entries
       IN  cache.steady =>
             \A h \in DOMAIN before \ stays, g \in DOMAIN before \cap stays :
                before[h].wrote <= before[g].used]_cache
=============================================================================
