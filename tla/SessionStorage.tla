---------------------------- MODULE SessionStorage ----------------------------
(***************************************************************************)
(* Session persistence: a StorageEngine (files, a cache in front of them,  *)
(* a backup of every save) used by one request at a time, and the backup   *)
(* synchronisation, which works on the same files beside it.  Every await  *)
(* of a file operation is a step; std::fs::write is two, because a file is *)
(* truncated before it is filled.  The process may crash between any two.  *)
(* No lock excludes the synchronisation from a save or a delete of the     *)
(* session it is at; the history variables tell where they met.            *)
(*                                                                         *)
(* Abstracted: the contents of a session are a version; the time since the *)
(* last access is whether it exceeds the TTL.  The dirty flags of the      *)
(* cache, which the engine never reads, are left out.                      *)
(***************************************************************************)
EXTENDS Subsequences

CONSTANTS
  Sessions, Versions,
  NoSession,    \* the session of no request
  CacheEnabled, \* config.cache.enabled
  MaxSessions,  \* config.cache.max_sessions; insert never returns for 0
  Expires,      \* whether eviction_policy is "ttl" or "both"
  Backups,      \* config.backup.enabled
  Verify,       \* config.backup.verify_before_delete
  \* What the instance explores:
  MaxFaults     \* crashes and failed file operations

ASSUME StorageAssumption ==
  /\ IsFiniteSet(Sessions) /\ NoSession \notin Sessions
  /\ MaxSessions \in Nat \ {0} /\ MaxFaults \in Nat
  /\ {CacheEnabled, Expires, Backups, Verify} \subseteq BOOLEAN
  /\ {"none", "torn"} \cap Versions = {}

VARIABLES
  data,    \* {data_dir}/{id}.json
  backup,  \* {backup_dir}/{id}.backup.json
  entries, \* `entries` of the cache; "none": not cached
  order,   \* its `access_order`, least recently used first
  stale,   \* cached sessions whose TTL has passed
  stage,   \* what the request that holds the engine waits for
  subject, \* the session it is about,
  payload, \* and the version it saves
  sync,    \* what the backup synchronisation waits for
  todo,    \* sessions whose backup file it listed and has not come to
  current, \* the session it is at,
  copy,    \* and the contents it read for it
  \* History variables, read by properties only:
  faults,  \* crashes and failures so far
  acked,   \* the version of each session last reported as saved
  hits,    \* faults that hit saves of each session since that report
  spoiled, \* sessions whose last write failed half-way
  synced,  \* sessions the synchronisation has written since that report
  met,     \* sessions at which it met a save or a delete, until one of them
           \* is reported that it did not meet
  clash    \* whether the request at hand has met it

files == <<data, backup>>
cache == <<entries, order, stale>>
request == <<stage, subject, payload>>
syncing == <<sync, todo, current, copy>>
records == <<faults, acked, hits, spoiled, synced>>
meeting == <<met, clash>>
ghosts == <<records, meeting>>
vars == <<files, cache, request, syncing, ghosts>>

Contents == Versions \cup {"none", "torn"}
Cached == {s \in Sessions : entries[s] # "none"}

-------------------------------------------------------------------------------
(* The cache. *)

Without(s) == Subsequence(order, {i \in DOMAIN order : order[i] # s})

(* Mutant of MovedToBack: the old position stays. *)
AlsoAtBack(s) == Append(order, s)

(* move_to_back *)
MovedToBack(s) == Append(Without(s), s)

(* CacheManager::get, and insert of a session that is cached. *)
Access(s, contents) ==
  /\ entries' = [entries EXCEPT ![s] = contents]
  /\ order' = MovedToBack(s)
  /\ stale' = stale \ {s}

(* insert of another one, after evict_lru has made room for it. *)
Admit(s, contents) ==
  LET n == IF Cardinality(Cached) < MaxSessions THEN 0 ELSE Cardinality(Cached) + 1 - MaxSessions
      kept == SubSeq(order, n + 1, Len(order))
      Out == {order[i] : i \in 1..n}
  IN  /\ entries' = [x \in Sessions |-> IF x = s THEN contents
                                        ELSE IF x \in Out THEN "none" ELSE entries[x]]
      /\ order' = Append(kept, s)
      /\ stale' = stale \ (Out \cup {s})

Insert(s, contents) == IF s \in Cached THEN Access(s, contents) ELSE Admit(s, contents)

(* evict_entry and remove *)
Drop(s) ==
  /\ entries' = [entries EXCEPT ![s] = "none"]
  /\ order' = Without(s)
  /\ stale' = stale \ {s}

-------------------------------------------------------------------------------
(* Requests.  The engine is behind a mutex, or borrowed mutably. *)

Init ==
  /\ data = [s \in Sessions |-> "none"] /\ backup = [s \in Sessions |-> "none"]
  /\ entries = [s \in Sessions |-> "none"] /\ order = <<>> /\ stale = {}
  /\ stage = "idle" /\ subject = NoSession /\ payload = "none"
  /\ sync = "idle" /\ todo = {} /\ current = NoSession /\ copy = "none"
  /\ faults = 0
  /\ acked = [s \in Sessions |-> "none"]
  /\ hits = [s \in Sessions |-> 0]
  /\ spoiled = {} /\ synced = {}
  /\ met = {} /\ clash = FALSE

Free == stage = "idle"
Begin(st, s, version) ==
  /\ Free
  /\ stage' = st /\ subject' = s /\ payload' = version
Return == stage' = "idle" /\ subject' = NoSession /\ payload' = "none" /\ clash' = FALSE
Await(st) == stage' = st /\ UNCHANGED <<subject, payload>>

\* A save or a delete of s begins, where the synchronisation is or not.
Meet(s) ==
  /\ clash' = (current = s)
  /\ met' = IF current = s THEN met \cup {s} ELSE met

\* What a file holds once std::fs::write has filled it: the file it opened may
\* have been removed since, or filled by another write, of another length.
Filled(contents, version) ==
  IF contents = "none" THEN {"none"}
  ELSE IF contents = "torn" THEN {version}
  ELSE {version, "torn"}

BeginSave(s, version) ==
  /\ Begin("save", s, version) /\ Meet(s)
  /\ UNCHANGED <<files, cache, syncing, records>>

(* Mutant of TruncateData: the old backup is removed first. *)
TruncateBoth ==
  /\ stage = "save" /\ Await("write")
  /\ data' = [data EXCEPT ![subject] = "torn"]
  /\ backup' = [backup EXCEPT ![subject] = "none"]
  /\ UNCHANGED <<cache, syncing, ghosts>>

TruncateData ==
  /\ stage = "save" /\ Await("write")
  /\ data' = [data EXCEPT ![subject] = "torn"]
  /\ UNCHANGED <<backup, cache, syncing, ghosts>>

Acknowledge(s, version) ==
  /\ acked' = [acked EXCEPT ![s] = version]
  /\ hits' = [hits EXCEPT ![s] = 0]
  /\ IF clash
     THEN UNCHANGED <<synced, met>>
     ELSE synced' = synced \ {s} /\ met' = met \ {s}

(* backend.save returned: the cache is updated before the next await. *)
SaveWritten ==
  /\ stage = "write"
  /\ \E contents \in Filled(data[subject], payload) : data' = [data EXCEPT ![subject] = contents]
  /\ IF CacheEnabled THEN Insert(subject, payload) ELSE UNCHANGED cache
  /\ spoiled' = spoiled \ {subject}
  /\ IF Backups
     THEN Await("backup") /\ UNCHANGED <<acked, hits, synced, meeting>>
     ELSE Return /\ Acknowledge(subject, payload)
  /\ UNCHANGED <<backup, syncing, faults>>

TruncateBackup ==
  /\ stage = "backup" /\ Await("copy")
  /\ backup' = [backup EXCEPT ![subject] = "torn"]
  /\ UNCHANGED <<data, cache, syncing, ghosts>>

BackupWritten ==
  /\ stage = "copy" /\ Return
  /\ \E contents \in Filled(backup[subject], payload) : backup' = [backup EXCEPT ![subject] = contents]
  /\ Acknowledge(subject, payload)
  /\ UNCHANGED <<data, cache, syncing, faults, spoiled>>

(* load: a hit is returned at once; an expired entry is evicted first. *)
Hit(s) == CacheEnabled /\ s \in Cached /\ ~(Expires /\ s \in stale)

LoadHit(s) ==
  /\ Free /\ Hit(s)
  /\ Access(s, entries[s])
  /\ UNCHANGED <<files, request, syncing, ghosts>>

BeginLoad(s) ==
  /\ ~Hit(s) /\ Begin("load", s, "none")
  /\ IF CacheEnabled /\ s \in Cached THEN Drop(s) ELSE UNCHANGED cache
  /\ UNCHANGED <<files, syncing, ghosts>>

LoadRead ==
  /\ stage = "load" /\ Return
  /\ IF CacheEnabled /\ data[subject] # "none"
     THEN Insert(subject, data[subject])
     ELSE UNCHANGED cache
  /\ UNCHANGED <<files, syncing, records, met>>

BeginDelete(s) ==
  /\ Begin("delete", s, "none") /\ Meet(s)
  /\ UNCHANGED <<files, cache, syncing, records>>

(* Mutant of Deleted: the cache is not told. *)
DeletedOnDisk ==
  /\ stage = "delete" /\ Return
  /\ data' = [data EXCEPT ![subject] = "none"]
  /\ UNCHANGED cache
  /\ Acknowledge(subject, "none")
  /\ spoiled' = spoiled \ {subject}
  /\ UNCHANGED <<backup, syncing, faults>>

(* delete: the file goes, then the entry; a backup file stays. *)
Deleted ==
  /\ stage = "delete" /\ Return
  /\ data' = [data EXCEPT ![subject] = "none"]
  /\ IF CacheEnabled THEN Drop(subject) ELSE UNCHANGED cache
  /\ Acknowledge(subject, "none")
  /\ spoiled' = spoiled \ {subject}
  /\ UNCHANGED <<backup, syncing, faults>>

(* sweep_cache *)
SweepCache ==
  /\ Free /\ CacheEnabled /\ Expires /\ stale # {}
  /\ entries' = [s \in Sessions |-> IF s \in stale THEN "none" ELSE entries[s]]
  /\ order' = Subsequence(order, {i \in DOMAIN order : order[i] \notin stale})
  /\ stale' = {}
  /\ UNCHANGED <<files, request, syncing, ghosts>>

(* The session that a fault hits now, if its files are being written. *)
Struck(s) == s = subject /\ stage \notin {"load", "delete"}

(* A file operation fails and the request returns its error. *)
Fail ==
  /\ stage # "idle" /\ Return
  /\ faults < MaxFaults /\ faults' = faults + 1
  /\ hits' = [s \in Sessions |-> IF Struck(s) THEN hits[s] + 1 ELSE hits[s]]
  /\ spoiled' = IF stage = "write" THEN spoiled \cup {subject} ELSE spoiled
  /\ UNCHANGED <<files, cache, syncing, acked, synced, met>>

-------------------------------------------------------------------------------
(* BackupCoordinator::sync_pending. *)

(* The backup files of the directory. *)
ListBackups ==
  /\ sync = "idle"
  /\ todo' = {s \in Sessions : backup[s] # "none"}
  /\ todo' # {}
  /\ sync' = "next"
  /\ UNCHANGED <<files, cache, request, current, copy, ghosts>>

(* On to the next file, or the end of the cycle. *)
Onward == sync' = (IF todo = {} THEN "idle" ELSE "next") /\ current' = NoSession /\ copy' = "none"

\* The synchronisation begins with s, which is being saved or deleted or not.
MeetSync(s) ==
  IF s = subject /\ stage # "load"
  THEN clash' = TRUE /\ met' = met \cup {s}
  ELSE UNCHANGED meeting

(* sync_single reads it; a file that is gone counts as a failure. *)
ReadBackup(s) ==
  /\ sync = "next" /\ s \in todo
  /\ todo' = todo \ {s}
  /\ IF backup[s] = "none"
     THEN /\ sync' = (IF todo' = {} THEN "idle" ELSE "next")
          /\ UNCHANGED <<current, copy, meeting>>
     ELSE sync' = "save" /\ current' = s /\ copy' = backup[s] /\ MeetSync(s)
  /\ UNCHANGED <<files, cache, request, records>>

SyncTruncate ==
  /\ sync = "save" /\ sync' = "write"
  /\ data' = [data EXCEPT ![current] = "torn"]
  /\ synced' = synced \cup {current}
  /\ UNCHANGED <<backup, cache, request, todo, current, copy, faults, acked, hits, spoiled, meeting>>

SyncWritten ==
  /\ sync = "write" /\ sync' = IF Verify THEN "verify" ELSE "remove"
  /\ \E contents \in Filled(data[current], copy) : data' = [data EXCEPT ![current] = contents]
  /\ UNCHANGED <<backup, cache, request, todo, current, copy, ghosts>>

(* verify_sync: there is a file. *)
VerifySync ==
  /\ sync = "verify"
  /\ IF data[current] # "none"
     THEN sync' = "remove" /\ UNCHANGED <<current, copy>>
     ELSE Onward
  /\ UNCHANGED <<files, cache, request, todo, ghosts>>

RemoveBackup ==
  /\ sync = "remove" /\ Onward
  /\ backup' = [backup EXCEPT ![current] = "none"]
  /\ UNCHANGED <<data, cache, request, todo, ghosts>>

(* A step of sync_single fails: the file counts as a failure and stays. *)
SyncFail ==
  /\ current # NoSession /\ Onward
  /\ faults < MaxFaults /\ faults' = faults + 1
  /\ UNCHANGED <<files, cache, request, todo, acked, hits, spoiled, synced, meeting>>

-------------------------------------------------------------------------------
(* Time and crashes. *)

(* A cached session has not been accessed for ttl_seconds. *)
Age(s) ==
  /\ Expires /\ s \in Cached \ stale
  /\ stale' = stale \cup {s}
  /\ UNCHANGED <<files, entries, order, request, syncing, ghosts>>

(* The process stops and another one starts: only the files are left. *)
Crash ==
  /\ faults < MaxFaults /\ faults' = faults + 1
  /\ entries' = [s \in Sessions |-> "none"] /\ order' = <<>> /\ stale' = {}
  /\ Return
  /\ sync' = "idle" /\ todo' = {} /\ current' = NoSession /\ copy' = "none"
  /\ hits' = [s \in Sessions |-> IF Struck(s) THEN hits[s] + 1 ELSE hits[s]]
  /\ UNCHANGED <<files, acked, spoiled, synced, met>>

Next ==
  \/ \E s \in Sessions :
       \/ \E version \in Versions : BeginSave(s, version)
       \/ LoadHit(s) \/ BeginLoad(s) \/ BeginDelete(s)
       \/ ReadBackup(s) \/ Age(s)
  \/ TruncateData \/ SaveWritten \/ TruncateBackup \/ BackupWritten
  \/ LoadRead \/ Deleted \/ SweepCache \/ Fail
  \/ ListBackups \/ SyncTruncate \/ SyncWritten \/ VerifySync \/ RemoveBackup
  \/ SyncFail \/ Crash

Spec == Init /\ [][Next]_vars

-------------------------------------------------------------------------------
(* Properties. *)

(* Every variable has its type. *)
TypeOK ==
  /\ data \in [Sessions -> Contents] /\ backup \in [Sessions -> Contents]
  /\ entries \in [Sessions -> Contents]
  /\ order \in Seq(Sessions) /\ stale \subseteq Cached
  /\ stage \in {"idle", "save", "write", "backup", "copy", "load", "delete"}
  /\ subject \in Sessions \cup {NoSession} /\ (subject = NoSession <=> stage = "idle")
  /\ payload \in Versions \cup {"none"}
  /\ sync \in {"idle", "next", "save", "write", "verify", "remove"}
  /\ todo \subseteq Sessions /\ current \in Sessions \cup {NoSession}
  /\ copy \in Contents
  /\ faults \in Nat /\ hits \in [Sessions -> Nat]
  /\ acked \in [Sessions -> Versions \cup {"none"}]
  /\ spoiled \subseteq Sessions /\ synced \subseteq Sessions
  /\ met \subseteq Sessions /\ clash \in BOOLEAN

(* The map and the queue of the cache agree, whatever order of hits,       *)
(* inserts, evictions and expirations: an id missing from the queue could  *)
(* never be evicted, and one too many would make an eviction free nothing. *)
CacheOrdered ==
  /\ {order[i] : i \in DOMAIN order} = Cached
  /\ Len(order) = Cardinality(Cached)
  /\ Cardinality(Cached) <= MaxSessions

(* A session in the cache is the one on disk, so that a load returns the   *)
(* same before and after an eviction, an expiry or a restart -- but for a  *)
(* session that is being written, whose last write failed half-way, or     *)
(* that the synchronisation wrote, past the cache.                         *)
CacheCoherent ==
  \A s \in Cached :
    \/ entries[s] = data[s]
    \/ s = subject /\ stage = "write"
    \/ s \in spoiled \cup synced

(* With backups, one fault -- a crash between any two steps of a save, or  *)
(* a file operation that fails -- never loses a session that was reported  *)
(* as saved: its file or its backup is whole.  Two faults may.  Nor does   *)
(* the synchronisation, beside whatever requests, crashed between any two  *)
(* of its steps: it loses a session only by copying a torn backup after a  *)
(* fault, or where it met a save of that very session.                     *)
Whole(contents) == contents \in Versions
OneWholeCopy ==
  \A s \in Sessions \ ({subject} \cup met) :
    acked[s] # "none" /\ hits[s] <= (IF s \in synced THEN 0 ELSE 1)
      => Whole(data[s]) \/ Whole(backup[s])

(* "The system ensures DB success before deleting the backup file": what   *)
(* the synchronisation deletes is in the primary storage.                  *)
BackupDeletedWhenSynced ==
  [][\A s \in Sessions : RemoveBackup /\ s = current => data[s] = backup[s]]_vars
===============================================================================
