-------------------------- MODULE SessionStorage_proofs -------------------------
(***************************************************************************)
(* Proofs about SessionStorage, for any sessions, versions, cache and      *)
(* number of faults, with a synchronisation that runs at any time, beside  *)
(* any request: the types; that the queue lists what the map of the cache  *)
(* holds; that what the cache holds is what is on disk; and that a session *)
(* that was reported as saved has a whole copy, whatever step a fault      *)
(* falls on.                                                               *)
(***************************************************************************)
EXTENDS SessionStorage, Subsequences_proofs

Stages == {"idle", "save", "write", "backup", "copy", "load", "delete"}
Syncs == {"idle", "next", "save", "write", "verify", "remove"}

\* The files, the entries of the cache and where each of the two actors is.
Typed ==
  /\ data \in [Sessions -> Contents] /\ backup \in [Sessions -> Contents]
  /\ entries \in [Sessions -> Contents]
  /\ stage \in Stages /\ sync \in Syncs
  /\ stage = "idle" => subject = NoSession
  /\ stage # "idle" => subject \in Sessions
  /\ stage \in {"save", "write", "backup", "copy"} => payload \in Versions
  /\ sync \in {"idle", "next"} => current = NoSession
  /\ sync \notin {"idle", "next"} => current \in Sessions /\ copy \in Contents
  /\ todo \subseteq Sessions
  /\ hits \in [Sessions -> Nat] /\ acked \in [Sessions -> Versions \cup {"none"}]
  /\ spoiled \subseteq Sessions /\ synced \subseteq Sessions
  /\ met \subseteq Sessions /\ clash \in BOOLEAN

\* A request that has not met the synchronisation does not share a session
\* with it, and has its file to itself; what the synchronisation writes counts
\* as written by it to the end.
Meetings ==
  /\ stage \in {"save", "write", "backup", "copy", "delete"} /\ current = subject
       => clash = TRUE
  /\ clash = TRUE => stage # "idle" /\ subject \in met
  /\ sync \in {"write", "verify", "remove"} => current \in synced
  /\ stage = "write" /\ data[subject] # "torn" => clash = TRUE /\ subject \in synced
  /\ sync = "write" /\ data[current] # "torn" => current \in met

\* After the file was written its cached copy is what was written.
Settled(s) ==
  \/ entries[s] \in {"none", data[s]}
  \/ s = subject /\ stage = "write"
  \/ s \in spoiled
  \/ s \in synced /\ ~(s = subject /\ stage \in {"backup", "copy"} /\ clash = FALSE)

CoherentInv ==
  /\ Typed /\ Meetings
  /\ ~CacheEnabled => \A s \in Sessions : entries[s] = "none"
  /\ \A s \in Sessions : Settled(s)

-------------------------------------------------------------------------------
(* The cache is what is on disk. *)

\* Whatever an insertion evicts, the others keep their entries.
LEMMA InsertKeeps ==
  ASSUME entries \in [Sessions -> Contents], NEW s \in Sessions,
         NEW contents \in Contents, Insert(s, contents)
  PROVE  /\ entries' \in [Sessions -> Contents] /\ entries'[s] = contents
         /\ \A x \in Sessions \ {s} : entries'[x] \in {"none", entries[x]}
<1>1. "none" \in Contents
  BY DEF Contents
<1>2. CASE s \in Cached
  BY <1>2 DEF Insert, Access
<1>3. CASE s \notin Cached
  <2> DEFINE n == IF Cardinality(Cached) < MaxSessions THEN 0
                  ELSE Cardinality(Cached) + 1 - MaxSessions
             Out == {order[i] : i \in 1..n}
  <2>1. entries' = [x \in Sessions |-> IF x = s THEN contents
                                       ELSE IF x \in Out THEN "none" ELSE entries[x]]
    BY <1>3, Zenon DEF Insert, Admit
  <2> HIDE DEF n, Out
  <2> QED
    BY <1>1, <2>1
<1> QED
  BY <1>2, <1>3

\* What a file holds once it has been filled.
LEMMA FilledIs ==
  ASSUME NEW contents \in Contents, NEW version \in Contents
  PROVE  /\ Filled(contents, version) \subseteq Contents
         /\ contents = "torn" => Filled(contents, version) = {version}
BY DEF Filled, Contents

\* The types: what each step changes, whoever else is at work.
LEMMA TypedAlways ==
  ASSUME Typed, [Next]_vars
  PROVE  Typed'
<1> USE DEF files, cache, request, syncing, records, meeting, ghosts, Stages, Syncs
<1>1. /\ NoSession \notin Sessions
      /\ {"none", "torn"} \subseteq Contents /\ Versions \subseteq Contents
  BY StorageAssumption DEF Contents
<1> USE <1>1
<1>2. ASSUME NEW s \in Sessions, NEW version \in Versions, BeginSave(s, version)
      PROVE  Typed'
  BY <1>2 DEF BeginSave, Begin, Meet, Free, Typed
<1>3. ASSUME NEW s \in Sessions, LoadHit(s)
      PROVE  Typed'
  BY <1>3 DEF LoadHit, Access, Free, Typed
<1>4. ASSUME NEW s \in Sessions, BeginLoad(s)
      PROVE  Typed'
  BY <1>4 DEF BeginLoad, Begin, Drop, Free, Typed
<1>5. ASSUME NEW s \in Sessions, BeginDelete(s)
      PROVE  Typed'
  BY <1>5 DEF BeginDelete, Begin, Meet, Free, Typed
<1>6. ASSUME NEW s \in Sessions, ReadBackup(s)
      PROVE  Typed'
  BY <1>6 DEF ReadBackup, MeetSync, Typed
<1>7. ASSUME NEW s \in Sessions, Age(s)
      PROVE  Typed'
  BY <1>7 DEF Age, Typed
<1>8. CASE TruncateData
  BY <1>8 DEF TruncateData, Await, Typed
<1>9. CASE SaveWritten
  <2>1. entries' \in [Sessions -> Contents]
    BY <1>9, InsertKeeps DEF SaveWritten, Typed
  <2>2. /\ stage = "write" /\ subject \in Sessions /\ payload \in Versions
        /\ spoiled' = spoiled \ {subject} /\ UNCHANGED <<backup, sync, todo, current, copy>>
    BY <1>9 DEF SaveWritten, Typed
  <2>3. data' \in [Sessions -> Contents]
    BY <1>9, <2>2, FilledIs DEF SaveWritten, Typed
  <2>4. CASE Backups
    <3>1. stage' = "backup" /\ UNCHANGED <<subject, payload, acked, hits, synced, met, clash>>
      BY <1>9, <2>4 DEF SaveWritten, Await, meeting
    <3> QED
      BY <2>1, <2>2, <2>3, <3>1 DEF Typed
  <2>5. CASE ~Backups
    <3>1. /\ stage' = "idle" /\ subject' = NoSession /\ clash' = FALSE
          /\ synced' \subseteq synced /\ met' \subseteq met
          /\ hits' = [hits EXCEPT ![subject] = 0] /\ acked' = [acked EXCEPT ![subject] = payload]
      BY <1>9, <2>5 DEF SaveWritten, Return, Acknowledge
    <3> QED
      BY <2>1, <2>2, <2>3, <3>1 DEF Typed
  <2> QED
    BY <2>4, <2>5
<1>10. CASE TruncateBackup
  BY <1>10 DEF TruncateBackup, Await, Typed
<1>11. CASE BackupWritten
  <2>1. stage = "copy" /\ subject \in Sessions /\ payload \in Versions
    BY <1>11 DEF BackupWritten, Typed
  <2>2. backup' \in [Sessions -> Contents]
    BY <1>11, <2>1, FilledIs DEF BackupWritten, Typed
  <2> QED
    BY <1>11, <2>1, <2>2 DEF BackupWritten, Return, Acknowledge, Typed
<1>12. CASE LoadRead
  <2>1. entries' \in [Sessions -> Contents]
    BY <1>12, InsertKeeps DEF LoadRead, Typed
  <2> QED
    BY <1>12, <2>1 DEF LoadRead, Return, Typed
<1>13. CASE Deleted
  BY <1>13 DEF Deleted, Drop, Return, Acknowledge, Typed
<1>14. CASE SweepCache
  BY <1>14 DEF SweepCache, Typed
<1>15. CASE Fail
  <2>1. hits' \in [Sessions -> Nat]
    BY <1>15 DEF Fail, Typed
  <2> QED
    BY <1>15, <2>1 DEF Fail, Return, Typed
<1>16. CASE ListBackups
  BY <1>16 DEF ListBackups, Typed
<1>17. CASE SyncTruncate
  BY <1>17 DEF SyncTruncate, Typed
<1>18. CASE SyncWritten
  <2>1. current \in Sessions /\ copy \in Contents
    BY <1>18 DEF SyncWritten, Typed
  <2>2. data' \in [Sessions -> Contents]
    BY <1>18, <2>1, FilledIs DEF SyncWritten, Typed
  <2> QED
    BY <1>18, <2>2 DEF SyncWritten, Typed
<1>19. CASE VerifySync
  BY <1>19 DEF VerifySync, Onward, Typed
<1>20. CASE RemoveBackup
  BY <1>20 DEF RemoveBackup, Onward, Typed
<1>21. CASE SyncFail
  BY <1>1, <1>21 DEF SyncFail, Onward, Typed
<1>22. CASE Crash
  <2>1. hits' \in [Sessions -> Nat]
    BY <1>22 DEF Crash, Typed
  <2> QED
    BY <1>22, <2>1 DEF Crash, Return, Typed
<1>23. CASE UNCHANGED vars
  BY <1>23 DEF vars, Typed
<1> QED
  BY <1>2, <1>3, <1>4, <1>5, <1>6, <1>7, <1>8, <1>9, <1>10, <1>11, <1>12, <1>13, <1>14,
     <1>15, <1>16, <1>17, <1>18, <1>19, <1>20, <1>21, <1>22, <1>23 DEF Next

\* Who meets whom is recorded, whoever comes first.
LEMMA MeetingsAlways ==
  ASSUME Typed, Meetings, [Next]_vars
  PROVE  Meetings'
<1> USE DEF files, cache, request, syncing, records, meeting, ghosts, Meetings
<1>1. NoSession \notin Sessions /\ clash \in BOOLEAN
  BY StorageAssumption DEF Typed
<1>2. ASSUME NEW s \in Sessions,
             BeginDelete(s) \/ \E version \in Versions : BeginSave(s, version)
      PROVE  Meetings'
  BY <1>2 DEF BeginSave, BeginDelete, Begin, Meet, Free
<1>3. ASSUME NEW s \in Sessions, LoadHit(s) \/ BeginLoad(s) \/ Age(s)
      PROVE  Meetings'
  BY <1>3 DEF LoadHit, BeginLoad, Begin, Free, Age
<1>4. ASSUME NEW s \in Sessions, ReadBackup(s)
      PROVE  Meetings'
  <2>1. CASE backup[s] = "none"
    BY <1>4, <2>1 DEF ReadBackup, Typed
  <2>2. CASE backup[s] # "none" /\ s = subject /\ stage # "load"
    BY <1>1, <1>4, <2>2 DEF ReadBackup, MeetSync, Typed
  <2>3. CASE backup[s] # "none" /\ ~(s = subject /\ stage # "load")
    BY <1>4, <2>3 DEF ReadBackup, MeetSync, Typed
  <2> QED
    BY <2>1, <2>2, <2>3
<1>5. CASE TruncateData
  BY <1>5 DEF TruncateData, Await, Typed
<1>6. CASE SaveWritten
  BY <1>1, <1>6 DEF SaveWritten, Await, Return, Acknowledge
<1>7. CASE TruncateBackup
  BY <1>7 DEF TruncateBackup, Await
<1>8. CASE BackupWritten
  BY <1>1, <1>8 DEF BackupWritten, Return, Acknowledge
<1>9. CASE Deleted
  BY <1>1, <1>9 DEF Deleted, Return, Acknowledge
<1>10. CASE LoadRead \/ SweepCache \/ Fail
  BY <1>10 DEF LoadRead, SweepCache, Fail, Return
<1>11. CASE ListBackups
  BY <1>11 DEF ListBackups
<1>12. CASE SyncTruncate
  BY <1>12 DEF SyncTruncate, Typed
<1>13. CASE SyncWritten
  BY <1>13 DEF SyncWritten, Typed
<1>14. CASE VerifySync \/ RemoveBackup \/ SyncFail
  BY <1>1, <1>14 DEF VerifySync, RemoveBackup, SyncFail, Onward, Typed
<1>15. CASE Crash
  BY <1>15 DEF Crash, Return
<1>16. CASE UNCHANGED vars
  BY <1>16 DEF vars
<1> HIDE DEF Meetings
<1> QED
  BY <1>2, <1>3, <1>4, <1>5, <1>6, <1>7, <1>8, <1>9, <1>10, <1>11, <1>12, <1>13, <1>14,
     <1>15, <1>16 DEF Next

LEMMA CoherentAlways ==
  ASSUME CoherentInv, [Next]_vars
  PROVE  CoherentInv'
<1> USE DEF files, cache, request, syncing, records, meeting, ghosts
<1>1. /\ Typed /\ Meetings /\ (~CacheEnabled => \A s \in Sessions : entries[s] = "none")
      /\ \A s \in Sessions : Settled(s)
  BY DEF CoherentInv
<1>2. Typed' /\ Meetings'
  BY TypedAlways, MeetingsAlways DEF CoherentInv
<1>3. NoSession \notin Sessions /\ "none" \in Contents
  BY StorageAssumption DEF Contents
<1> DEFINE Kept == /\ ~CacheEnabled => \A s \in Sessions : entries'[s] = "none"
                   /\ \A s \in Sessions : Settled(s)'
<1> SUFFICES Kept
  BY <1>2 DEF CoherentInv
<1>4. ASSUME NEW s \in Sessions, NEW version \in Versions, BeginSave(s, version)
      PROVE  Kept
  BY <1>1, <1>4 DEF BeginSave, Begin, Meet, Free, Settled, Typed
<1>5. ASSUME NEW s \in Sessions, LoadHit(s)
      PROVE  Kept
  BY <1>1, <1>5 DEF LoadHit, Access, Free, Hit, Settled, Typed
<1>6. ASSUME NEW s \in Sessions, BeginLoad(s)
      PROVE  Kept
  BY <1>1, <1>6 DEF BeginLoad, Begin, Drop, Free, Settled, Typed
<1>7. ASSUME NEW s \in Sessions, BeginDelete(s)
      PROVE  Kept
  BY <1>1, <1>7 DEF BeginDelete, Begin, Meet, Free, Settled, Typed
<1>8. ASSUME NEW s \in Sessions, ReadBackup(s)
      PROVE  Kept
  BY <1>1, <1>8 DEF ReadBackup, MeetSync, Settled
<1>9. ASSUME NEW s \in Sessions, Age(s)
      PROVE  Kept
  BY <1>1, <1>9 DEF Age, Settled
<1>10. CASE TruncateData
  BY <1>1, <1>10 DEF TruncateData, Await, Settled, Typed
<1>11. CASE SaveWritten
  <2>1. /\ stage = "write" /\ subject \in Sessions /\ payload \in Versions /\ payload \in Contents
        /\ spoiled' = spoiled \ {subject} /\ data[subject] \in Contents
    BY <1>1, <1>11 DEF SaveWritten, Typed, Contents
  <2>2. PICK contents \in Filled(data[subject], payload) :
          data' = [data EXCEPT ![subject] = contents]
    BY <1>11 DEF SaveWritten
  <2>3. /\ data'[subject] = contents /\ \A x \in Sessions \ {subject} : data'[x] = data[x]
        /\ contents = payload \/ (clash = TRUE /\ subject \in synced)
    BY <1>1, <2>1, <2>2, FilledIs DEF Typed, Meetings
  <2>4. /\ \A x \in Sessions \ {subject} : x \in synced => x \in synced'
        /\ clash = TRUE => synced' = synced
        /\ \/ stage' = "backup" /\ subject' = subject /\ clash' = clash /\ synced' = synced
           \/ stage' = "idle"
    BY <1>1, <1>11 DEF SaveWritten, Await, Return, Acknowledge, Typed
  <2>5. /\ CacheEnabled => /\ entries'[subject] = payload
                           /\ \A x \in Sessions \ {subject} : entries'[x] \in {"none", entries[x]}
        /\ ~CacheEnabled => entries' = entries
    BY <1>1, <1>11, <2>1, InsertKeeps DEF SaveWritten, Typed
  <2>6. ASSUME NEW x \in Sessions, x = subject
        PROVE  Settled(x)'
    BY <1>1, <2>1, <2>3, <2>4, <2>5, <2>6 DEF Settled
  <2>7. ASSUME NEW x \in Sessions \ {subject}
        PROVE  Settled(x)'
    <3>1. Settled(x)
      BY <1>1
    <3> QED
      BY <1>1, <2>1, <2>3, <2>4, <2>5, <3>1 DEF Settled
  <2> QED
    BY <1>1, <2>1, <2>5, <2>6, <2>7
<1>12. CASE TruncateBackup
  BY <1>1, <1>12 DEF TruncateBackup, Await, Settled
<1>13. CASE BackupWritten
  BY <1>1, <1>13 DEF BackupWritten, Return, Acknowledge, Settled
<1>14. CASE LoadRead
  <2>1. /\ stage = "load" /\ subject \in Sessions /\ data[subject] \in Contents
        /\ stage' = "idle" /\ UNCHANGED <<data, spoiled, synced>>
    BY <1>1, <1>14 DEF LoadRead, Return, Typed
  <2>2. \/ entries' = entries
        \/ /\ CacheEnabled /\ entries'[subject] = data[subject]
           /\ \A x \in Sessions \ {subject} : entries'[x] \in {"none", entries[x]}
    BY <1>1, <1>14, <2>1, InsertKeeps DEF LoadRead, Typed
  <2> QED
    BY <1>1, <2>1, <2>2 DEF Settled
<1>15. CASE Deleted
  BY <1>1, <1>15 DEF Deleted, Drop, Return, Acknowledge, Settled, Typed
<1>16. CASE SweepCache
  BY <1>1, <1>16 DEF SweepCache, Settled
<1>17. CASE Fail
  BY <1>1, <1>17 DEF Fail, Return, Settled
<1>18. CASE ListBackups
  BY <1>1, <1>18 DEF ListBackups, Settled
<1>19. CASE SyncTruncate
  <2>1. current \in Sessions /\ synced' = synced \cup {current}
    BY <1>1, <1>19 DEF SyncTruncate, Typed
  <2> QED
    BY <1>1, <1>19, <2>1 DEF SyncTruncate, Settled, Meetings, Typed
<1>20. CASE SyncWritten
  <2>1. current \in synced /\ current \in Sessions
    BY <1>1, <1>20 DEF SyncWritten, Meetings, Typed
  <2> QED
    BY <1>1, <1>20, <2>1 DEF SyncWritten, Settled, Meetings, Typed
<1>21. CASE VerifySync
  BY <1>1, <1>21 DEF VerifySync, Onward, Settled
<1>22. CASE RemoveBackup
  BY <1>1, <1>22 DEF RemoveBackup, Onward, Settled
<1>23. CASE SyncFail
  BY <1>1, <1>23 DEF SyncFail, Onward, Settled
<1>24. CASE Crash
  BY <1>1, <1>24 DEF Crash, Return, Settled
<1>25. CASE UNCHANGED vars
  BY <1>1, <1>25 DEF vars, Settled
<1> QED
  BY <1>4, <1>5, <1>6, <1>7, <1>8, <1>9, <1>10, <1>11, <1>12, <1>13, <1>14, <1>15, <1>16,
     <1>17, <1>18, <1>19, <1>20, <1>21, <1>22, <1>23, <1>24, <1>25 DEF Next

LEMMA CoherentStarts == Init => CoherentInv
<1> SUFFICES ASSUME Init PROVE CoherentInv
  OBVIOUS
<1>1. Typed
  BY DEF Init, Typed, Stages, Syncs, Contents
<1>2. Meetings
  BY DEF Init, Meetings
<1>3. \A s \in Sessions : entries[s] = "none" /\ Settled(s)
  BY DEF Init, Settled
<1> QED
  BY <1>1, <1>2, <1>3 DEF CoherentInv

(* A session in the cache is the one on disk (cache/mod.rs:91-105 and the  *)
(* engine around it), but for the exceptions that CacheCoherent names, for *)
(* any cache, any settings and any number of faults, whatever requests the *)
(* synchronisation runs beside.                                            *)
THEOREM CacheIsCoherent == Spec => []CacheCoherent
<1>1. Init => CoherentInv
  BY CoherentStarts
<1>2. CoherentInv /\ [Next]_vars => CoherentInv'
  BY CoherentAlways
<1>3. CoherentInv => CacheCoherent
  BY DEF CoherentInv, CacheCoherent, Settled, Cached
<1> QED
  BY <1>1, <1>2, <1>3, PTL DEF Spec

-------------------------------------------------------------------------------
(* One whole copy. *)

\* A session that no fault hit has both copies until the synchronisation came
\* by, and from then on the one that it has not touched yet or has finished; a
\* fault may take one copy of a session that the synchronisation left alone.
Secured(s) ==
  acked[s] # "none" =>
    /\ hits[s] = 0 /\ s \notin synced =>
         /\ Whole(data[s]) \/ (s = subject /\ stage = "write")
         /\ Whole(backup[s]) \/ (s = subject /\ stage = "copy")
    /\ hits[s] = 0 /\ s \in synced =>
         /\ Whole(backup[s]) \/ backup[s] = "none" \/ (s = subject /\ stage = "copy")
         /\ Whole(data[s]) \/ Whole(backup[s]) \/ (s = subject /\ stage = "write")
    /\ hits[s] = 0 /\ s = current =>
         /\ Whole(copy)
         /\ sync \in {"save", "write"} => Whole(backup[s])
         /\ sync \in {"verify", "remove"} => Whole(data[s])
    /\ hits[s] = 1 /\ s \notin synced =>
         \/ Whole(data[s]) \/ Whole(backup[s])
         \/ s = subject /\ stage \in {"save", "write", "backup", "copy"}

CopiesInv ==
  /\ CoherentInv /\ Backups
  /\ stage \in {"backup", "copy"} /\ clash = FALSE => Whole(data[subject])
  /\ stage = "copy" /\ clash = FALSE => backup[subject] = "torn"
  /\ \A s \in Sessions \ met : Secured(s)

LEMMA CopiesAlways ==
  ASSUME CopiesInv, [Next]_vars
  PROVE  CopiesInv'
<1> USE DEF files, cache, request, syncing, records, meeting, ghosts, Whole
<1>1. /\ Typed /\ Meetings /\ Backups
      /\ stage \in {"backup", "copy"} /\ clash = FALSE => Whole(data[subject])
      /\ stage = "copy" /\ clash = FALSE => backup[subject] = "torn"
      /\ \A s \in Sessions \ met : Secured(s)
  BY DEF CopiesInv, CoherentInv
<1>2. CoherentInv'
  BY CoherentAlways DEF CopiesInv
<1>3. NoSession \notin Sessions /\ "none" \notin Versions /\ "torn" \notin Versions
  BY StorageAssumption
<1> DEFINE Kept == /\ stage' \in {"backup", "copy"} /\ clash' = FALSE => Whole(data'[subject'])
                   /\ stage' = "copy" /\ clash' = FALSE => backup'[subject'] = "torn"
                   /\ \A s \in Sessions \ met' : Secured(s)'
<1> SUFFICES Kept
  BY <1>1, <1>2 DEF CopiesInv
<1>4. ASSUME NEW s \in Sessions, NEW version \in Versions, BeginSave(s, version)
      PROVE  Kept
  BY <1>1, <1>4 DEF BeginSave, Begin, Meet, Free, Secured, Typed, Meetings
<1>5. ASSUME NEW s \in Sessions, LoadHit(s)
      PROVE  Kept
  BY <1>1, <1>5 DEF LoadHit, Secured
<1>6. ASSUME NEW s \in Sessions, BeginLoad(s) \/ BeginDelete(s)
      PROVE  Kept
  BY <1>1, <1>6 DEF BeginLoad, BeginDelete, Begin, Meet, Free, Secured, Typed, Meetings
<1>7. ASSUME NEW s \in Sessions, ReadBackup(s)
      PROVE  Kept
  BY <1>1, <1>3, <1>7 DEF ReadBackup, MeetSync, Secured, Typed, Meetings
<1>8. ASSUME NEW s \in Sessions, Age(s)
      PROVE  Kept
  BY <1>1, <1>8 DEF Age, Secured
<1>9. CASE TruncateData
  BY <1>1, <1>9 DEF TruncateData, Await, Secured, Typed, Meetings
<1>10. CASE SaveWritten
  BY <1>1, <1>10 DEF SaveWritten, Filled, Await, Secured, Typed, Meetings
<1>11. CASE TruncateBackup
  BY <1>1, <1>11 DEF TruncateBackup, Await, Secured, Typed, Meetings
<1>12. CASE BackupWritten
  BY <1>1, <1>3, <1>12 DEF BackupWritten, Filled, Return, Acknowledge, Secured, Typed, Meetings
<1>13. CASE LoadRead
  BY <1>1, <1>3, <1>13 DEF LoadRead, Return, Secured, Typed, Meetings
<1>14. CASE Deleted
  BY <1>1, <1>3, <1>14 DEF Deleted, Return, Acknowledge, Secured, Typed, Meetings
<1>15. CASE SweepCache
  BY <1>1, <1>15 DEF SweepCache, Secured
<1>16. CASE Fail
  BY <1>1, <1>3, <1>16 DEF Fail, Struck, Return, Secured, Typed, Meetings
<1>17. CASE ListBackups
  BY <1>1, <1>17 DEF ListBackups, Secured, Typed, Meetings
<1>18. CASE SyncTruncate
  BY <1>1, <1>3, <1>18 DEF SyncTruncate, Secured, Typed, Meetings
<1>19. CASE SyncWritten
  <2>1. /\ sync = "write" /\ current \in Sessions /\ current \in synced /\ copy \in Contents
        /\ sync' \in {"verify", "remove"}
    BY <1>1, <1>19 DEF SyncWritten, Typed, Meetings
  <2>2. PICK contents \in Filled(data[current], copy) :
          data' = [data EXCEPT ![current] = contents]
    BY <1>19 DEF SyncWritten
  <2>3. \A s \in Sessions : data'[s] = (IF s = current THEN contents ELSE data[s])
    BY <1>1, <2>1, <2>2 DEF Typed
  <2>4. contents = copy \/ current \in met
    BY <1>1, <2>1, <2>2 DEF Meetings, Filled
  <2> QED
    BY <1>1, <1>3, <1>19, <2>1, <2>3, <2>4 DEF SyncWritten, Secured, Typed, Meetings
<1>20. CASE VerifySync
  BY <1>1, <1>3, <1>20 DEF VerifySync, Onward, Secured, Typed, Meetings
<1>21. CASE RemoveBackup
  BY <1>1, <1>3, <1>21 DEF RemoveBackup, Onward, Secured, Typed, Meetings
<1>22. CASE SyncFail
  BY <1>1, <1>3, <1>22 DEF SyncFail, Onward, Secured, Typed, Meetings
<1>23. CASE Crash
  BY <1>1, <1>3, <1>23 DEF Crash, Struck, Return, Secured, Typed, Meetings
<1>24. CASE UNCHANGED vars
  BY <1>1, <1>24 DEF vars, Secured
<1> QED
  BY <1>4, <1>5, <1>6, <1>7, <1>8, <1>9, <1>10, <1>11, <1>12, <1>13, <1>14, <1>15, <1>16,
     <1>17, <1>18, <1>19, <1>20, <1>21, <1>22, <1>23, <1>24 DEF Next

(* Crash safety of a save (lib.rs, backend/filesystem.rs:52, backup): with *)
(* backups, no fault that hits a session once loses what was reported as   *)
(* saved, and none that hits the synchronisation does, for any sessions,   *)
(* any number of faults and any requests beside the synchronisation: only  *)
(* a session at which it met a save or a delete is left out, up to the     *)
(* next save that it does not meet.                                        *)
THEOREM OneCopySurvives ==
  ASSUME Backups
  PROVE  Spec => []OneWholeCopy
<1>1. Init => CopiesInv
  BY CoherentStarts DEF Init, CopiesInv, Secured
<1>2. CopiesInv /\ [Next]_vars => CopiesInv'
  BY CopiesAlways
<1>3. CopiesInv => OneWholeCopy
  <2> SUFFICES ASSUME CopiesInv, NEW s \in Sessions \ ({subject} \cup met), acked[s] # "none",
                      hits[s] <= (IF s \in synced THEN 0 ELSE 1)
               PROVE  Whole(data[s]) \/ Whole(backup[s])
    BY DEF OneWholeCopy
  <2>1. Secured(s) /\ hits[s] \in Nat
    BY DEF CopiesInv, CoherentInv, Typed
  <2>2. hits[s] = 0 \/ (hits[s] = 1 /\ s \notin synced)
    BY <2>1
  <2> QED
    BY <2>1, <2>2 DEF Secured
<1> QED
  BY <1>1, <1>2, <1>3, PTL DEF Spec

-------------------------------------------------------------------------------
(* The map and the queue of the cache. *)

\* The queue holds each id once, the ids of the map and no other, and no more
\* of them than there is room for.
QueueOK ==
  /\ order \in Seq(Sessions)
  /\ \A i, j \in DOMAIN order : order[i] = order[j] => i = j
  /\ Range(order) = Cached
  /\ Cardinality(Cached) <= MaxSessions

\* A request that writes has a version to write, so no step puts an id into
\* the map without contents.
OrderedInv ==
  /\ entries = [s \in Sessions |-> entries[s]]
  /\ stage # "idle" => subject \in Sessions
  /\ stage \in {"save", "write"} => payload \in Versions
  /\ QueueOK

LEMMA CachedFinite == IsFiniteSet(Cached) /\ Cardinality(Cached) \in Nat
BY StorageAssumption, FS_Subset, FS_CardinalityType DEF Cached

\* An element added at the back of a sequence that does not have it.
LEMMA AppendedQueue ==
  ASSUME NEW q \in Seq(Sessions), NEW s \in Sessions, s \notin Range(q),
         \A i, j \in DOMAIN q : q[i] = q[j] => i = j
  PROVE  /\ Append(q, s) \in Seq(Sessions)
         /\ \A i, j \in DOMAIN Append(q, s) : Append(q, s)[i] = Append(q, s)[j] => i = j
         /\ Range(Append(q, s)) = Range(q) \cup {s}
<1> DEFINE r == Append(q, s)
           n == Len(q)
<1>1. /\ r \in Seq(Sessions) /\ n \in Nat
      /\ DOMAIN r = 1..(n + 1) /\ DOMAIN q = 1..n
      /\ r[n + 1] = s /\ \A i \in 1..n : r[i] = q[i]
  OBVIOUS
<1>2. \A i \in 1..n : q[i] # s
  BY <1>1 DEF Range
<1>3. \A i \in 1..(n + 1) : i \in 1..n \/ i = n + 1
  BY <1>1
<1> HIDE DEF r, n
<1>4. \A i, j \in DOMAIN r : r[i] = r[j] => i = j
  BY <1>1, <1>2, <1>3
<1>5. n + 1 \in 1..(n + 1) /\ 1..n \subseteq 1..(n + 1)
  BY <1>1
<1>6. Range(r) = Range(q) \cup {s}
  BY <1>1, <1>3, <1>5 DEF Range
<1> QED BY <1>1, <1>4, <1>6 DEF r

\* remove and evict_entry take out what they are asked to, move_to_back puts
\* it back, and the other ids stay as they are.
LEMMA WithoutQueue ==
  ASSUME QueueOK, NEW s
  PROVE  /\ Without(s) \in Seq(Sessions)
         /\ \A i, j \in DOMAIN Without(s) : Without(s)[i] = Without(s)[j] => i = j
         /\ Range(Without(s)) = Cached \ {s}
<1> DEFINE I == {i \in DOMAIN order : order[i] # s}
<1>1. order \in Seq(Sessions) /\ I \in SUBSET (DOMAIN order)
  BY DEF QueueOK
<1>2. Range(Subsequence(order, I)) = {order[i] : i \in I}
  BY <1>1, SubsequenceRange
<1>3. {order[i] : i \in I} = Cached \ {s}
  BY DEF QueueOK, Range
<1>4. Subsequence(order, I) \in Seq(Sessions)
  BY <1>1, SubsequenceReads
<1>5. \A i, j \in DOMAIN Subsequence(order, I) :
        Subsequence(order, I)[i] = Subsequence(order, I)[j] => i = j
  BY <1>1, SubsequenceInjective DEF QueueOK
<1> QED BY <1>2, <1>3, <1>4, <1>5 DEF Without

LEMMA QueueLength ==
  ASSUME QueueOK
  PROVE  Len(order) = Cardinality(Cached)
<1> DEFINE n == Len(order)
           f == [i \in 1..n |-> order[i]]
<1>1. order \in Seq(Sessions) /\ n \in Nat /\ DOMAIN order = 1..n
  BY DEF QueueOK
<1>2. IsFiniteSet(1..n) /\ Cardinality(1..n) = n
  <2>1. 1 \in Int /\ n \in Int /\ (1 > n => n = 0)
    BY <1>1
  <2>2. IsFiniteSet(1..n) /\ Cardinality(1..n) = IF 1 > n THEN 0 ELSE n - 1 + 1
    BY <2>1, FS_Interval, Zenon
  <2> QED BY <1>1, <2>1, <2>2
<1>3. f \in Injection(1..n, Cached) /\ f \in Surjection(1..n, Cached)
  BY <1>1 DEF QueueOK, Range, Injection, IsInjective, Surjection
<1>4. Cardinality(1..n) = Cardinality(Cached)
  BY <1>3, CachedFinite, FS_Injection
<1> QED BY <1>2, <1>4

LEMMA AccessQueue ==
  ASSUME OrderedInv, NEW s \in Cached, NEW contents, contents # "none", Access(s, contents)
  PROVE  QueueOK' /\ entries' = [x \in Sessions |-> entries'[x]]
<1>1. s \in Sessions /\ QueueOK
  BY DEF OrderedInv, Cached
<1>2. entries' = [x \in Sessions |-> entries'[x]] /\ Cached' = Cached
  BY <1>1 DEF OrderedInv, Access, Cached
<1>3. /\ order' \in Seq(Sessions)
      /\ \A i, j \in DOMAIN order' : order'[i] = order'[j] => i = j
      /\ Range(order') = (Cached \ {s}) \cup {s}
  <2>1. /\ Without(s) \in Seq(Sessions) /\ s \notin Range(Without(s))
        /\ \A i, j \in DOMAIN Without(s) : Without(s)[i] = Without(s)[j] => i = j
        /\ Range(Without(s)) = Cached \ {s}
    BY <1>1, WithoutQueue
  <2>2. order' = Append(Without(s), s)
    BY DEF Access, MovedToBack
  <2> HIDE DEF Without
  <2> QED BY <1>1, <2>1, <2>2, AppendedQueue
<1>4. (Cached \ {s}) \cup {s} = Cached
  OBVIOUS
<1> QED BY <1>1, <1>2, <1>3, <1>4 DEF QueueOK

LEMMA DropQueue ==
  ASSUME OrderedInv, NEW s \in Sessions, Drop(s)
  PROVE  QueueOK' /\ entries' = [x \in Sessions |-> entries'[x]]
<1>1. QueueOK
  BY DEF OrderedInv
<1>2. entries' = [x \in Sessions |-> entries'[x]] /\ Cached' = Cached \ {s}
  BY DEF OrderedInv, Drop, Cached
<1>3. Cardinality(Cached') <= MaxSessions
  <2>1. Cardinality(Cached \ {s}) <= Cardinality(Cached) /\ Cardinality(Cached \ {s}) \in Nat
    BY CachedFinite, FS_Subset, FS_CardinalityType
  <2>2. Cardinality(Cached') = Cardinality(Cached \ {s})
    BY <1>2
  <2> QED BY <1>1, <2>1, <2>2, CachedFinite, StorageAssumption DEF QueueOK
<1>4. order' = Without(s)
  BY DEF Drop
<1> QED BY <1>1, <1>2, <1>3, <1>4, WithoutQueue DEF QueueOK

\* sweep_expired evicts one id after the other; the queue loses them all.
LEMMA SweepQueue ==
  ASSUME OrderedInv, SweepCache
  PROVE  QueueOK' /\ entries' = [x \in Sessions |-> entries'[x]]
<1> DEFINE I == {i \in DOMAIN order : order[i] \notin stale}
<1>1. QueueOK /\ order \in Seq(Sessions) /\ I \in SUBSET (DOMAIN order)
  BY DEF OrderedInv, QueueOK
<1>2. entries' = [x \in Sessions |-> entries'[x]] /\ Cached' = Cached \ stale
  BY DEF OrderedInv, SweepCache, Cached
<1>3. Cardinality(Cached') <= MaxSessions
  <2>1. Cardinality(Cached \ stale) <= Cardinality(Cached) /\ Cardinality(Cached \ stale) \in Nat
    BY CachedFinite, FS_Subset, FS_CardinalityType
  <2>2. Cardinality(Cached') = Cardinality(Cached \ stale)
    BY <1>2
  <2> QED BY <1>1, <2>1, <2>2, CachedFinite, StorageAssumption DEF QueueOK
<1>4. order' = Subsequence(order, I)
  BY DEF SweepCache
<1>5. {order[i] : i \in I} = Cached \ stale
  BY <1>1 DEF QueueOK, Range
<1> HIDE DEF I
<1>6. Range(order') = Cached'
  BY <1>1, <1>2, <1>4, <1>5, SubsequenceRange
<1>7. order' \in Seq(Sessions)
  BY <1>1, <1>4, SubsequenceReads
<1>8. \A i, j \in DOMAIN order' : order'[i] = order'[j] => i = j
  BY <1>1, <1>4, SubsequenceInjective DEF QueueOK
<1> QED BY <1>2, <1>3, <1>6, <1>7, <1>8 DEF QueueOK

\* The loop of insert evicts one session at most, the least recently used,
\* and it finds it in the map.
LEMMA AdmitQueue ==
  ASSUME OrderedInv, NEW s \in Sessions \ Cached, NEW contents, contents # "none",
         Admit(s, contents)
  PROVE  QueueOK' /\ entries' = [x \in Sessions |-> entries'[x]]
<1> DEFINE c == Cardinality(Cached)
           n == IF c < MaxSessions THEN 0 ELSE c + 1 - MaxSessions
           kept == SubSeq(order, n + 1, Len(order))
           Out == {order[i] : i \in 1..n}
<1>1. /\ QueueOK /\ order \in Seq(Sessions) /\ Len(order) = c /\ c \in Nat
      /\ MaxSessions \in Nat \ {0} /\ c <= MaxSessions /\ Range(order) = Cached
  BY QueueLength, CachedFinite, StorageAssumption DEF OrderedInv, QueueOK
<1>2. /\ entries' = [x \in Sessions |-> IF x = s THEN contents
                                        ELSE IF x \in Out THEN "none" ELSE entries[x]]
      /\ order' = Append(kept, s)
  BY DEF Admit
<1>3. n \in {0, 1} /\ (n = 0 => c < MaxSessions) /\ (n = 1 => c = MaxSessions /\ c >= 1)
  BY <1>1
<1>4. /\ kept \in Seq(Sessions)
      /\ \A i, j \in DOMAIN kept : kept[i] = kept[j] => i = j
      /\ Range(kept) = Cached \ Out
  <2>1. \A i, j \in 1..c : order[i] = order[j] => i = j
    BY <1>1 DEF QueueOK
  <2>2. /\ kept \in Seq(Sessions) /\ DOMAIN kept = 1..(c - n)
        /\ \A i \in 1..(c - n) : kept[i] = order[i + n]
    BY <1>1, <1>3
  <2>3. \A i \in 1..(c - n) : i + n \in 1..c /\ i + n \notin 1..n /\ i \in Nat
    BY <1>1, <1>3
  <2>4. \A k \in 1..c : k \in 1..n \/ (k - n \in 1..(c - n) /\ (k - n) + n = k)
    BY <1>1, <1>3
  <2>5. 1..n \subseteq 1..c
    BY <1>1, <1>3
  <2>6. n \in Nat
    BY <1>3
  <2> HIDE DEF kept, n, c
  <2>7. \A i, j \in DOMAIN kept : kept[i] = kept[j] => i = j
    BY <2>1, <2>2, <2>3, <2>6
  <2>8. DOMAIN order = 1..c
    BY <1>1
  <2>9. Range(kept) \subseteq Cached \ Out
    BY <1>1, <2>1, <2>2, <2>3, <2>5, <2>8 DEF Range
  <2>10. Cached \ Out \subseteq Range(kept)
    BY <1>1, <2>2, <2>4, <2>8 DEF Range
  <2> QED BY <2>2, <2>7, <2>9, <2>10
<1>5. Cached' = (Cached \ Out) \cup {s}
  BY <1>2 DEF OrderedInv, Cached
<1>6. Cardinality((Cached \ Out) \cup {s}) <= MaxSessions
  <2>1. s \notin Cached \ Out
    OBVIOUS
  <2>2. CASE n = 0
    <3>1. Out = {}
      BY <2>2
    <3>2. Cached \ Out = Cached
      BY <3>1
    <3> HIDE DEF Out, n
    <3>3. Cardinality(Cached \cup {s}) = c + 1
      BY CachedFinite, FS_AddElement
    <3>4. (Cached \ Out) \cup {s} = Cached \cup {s}
      BY <3>2
    <3>5. Cardinality((Cached \ Out) \cup {s}) = c + 1
      BY <3>3, <3>4
    <3> HIDE DEF c
    <3> QED BY <1>1, <1>3, <2>2, <3>5
  <2>3. CASE n = 1
    <3>1. Out = {order[1]}
      BY <2>3
    <3>2. order[1] \in Cached
      BY <1>1, <1>3, <2>3 DEF Range
    <3> HIDE DEF Out, n
    <3>3. IsFiniteSet(Cached \ Out) /\ Cardinality(Cached \ Out) = c - 1
      BY <3>1, <3>2, CachedFinite, FS_RemoveElement
    <3>4. Cardinality((Cached \ Out) \cup {s}) = Cardinality(Cached \ Out) + 1
      BY <2>1, <3>3, FS_AddElement
    <3> HIDE DEF c
    <3> QED BY <1>1, <1>3, <2>3, <3>3, <3>4
  <2> QED BY <1>3, <2>2, <2>3
<1>7. s \notin Range(kept)
  BY <1>4
<1> HIDE DEF kept, Out, n, c
<1>8. /\ order' \in Seq(Sessions)
      /\ \A i, j \in DOMAIN order' : order'[i] = order'[j] => i = j
      /\ Range(order') = (Cached \ Out) \cup {s}
  BY <1>2, <1>4, <1>7, AppendedQueue
<1>9. Cardinality(Cached') <= MaxSessions
  BY <1>5, <1>6
<1>10. entries' = [x \in Sessions |-> entries'[x]]
  BY <1>2
<1> QED BY <1>5, <1>8, <1>9, <1>10 DEF QueueOK

LEMMA InsertQueue ==
  ASSUME OrderedInv, NEW s \in Sessions, NEW contents, contents # "none", Insert(s, contents)
  PROVE  QueueOK' /\ entries' = [x \in Sessions |-> entries'[x]]
<1>1. CASE s \in Cached
  BY <1>1, AccessQueue DEF Insert
<1>2. CASE s \notin Cached
  BY <1>2, AdmitQueue DEF Insert
<1> QED BY <1>1, <1>2

LEMMA CacheUnchanged ==
  ASSUME OrderedInv, UNCHANGED <<entries, order>>
  PROVE  QueueOK' /\ entries' = [x \in Sessions |-> entries'[x]]
BY DEF OrderedInv, QueueOK, Cached

LEMMA OrderedAlways ==
  ASSUME OrderedInv, [Next]_vars
  PROVE  OrderedInv'
<1> DEFINE Kept == QueueOK' /\ entries' = [x \in Sessions |-> entries'[x]]
           Request == /\ stage' # "idle" => subject' \in Sessions
                      /\ stage' \in {"save", "write"} => payload' \in Versions
<1> USE DEF cache, request, syncing, records, meeting, ghosts, files
<1>1. /\ stage # "idle" => subject \in Sessions
      /\ stage \in {"save", "write"} => payload \in Versions
      /\ QueueOK
  BY DEF OrderedInv
<1>2. \A version \in Versions : version # "none"
  BY StorageAssumption
<1> SUFFICES Kept /\ Request
  BY DEF OrderedInv
<1> HIDE DEF Kept
<1>3. ASSUME NEW s \in Sessions, NEW version \in Versions, BeginSave(s, version)
      PROVE  Kept /\ Request
  BY <1>3, CacheUnchanged DEF Kept, BeginSave, Begin
<1>4. ASSUME NEW s \in Sessions, LoadHit(s)
      PROVE  Kept /\ Request
  <2>1. s \in Cached /\ entries[s] # "none" /\ Access(s, entries[s]) /\ UNCHANGED request
    BY <1>4 DEF LoadHit, Hit, Cached
  <2> QED BY <1>1, <2>1, AccessQueue DEF Kept
<1>5. ASSUME NEW s \in Sessions, BeginLoad(s)
      PROVE  Kept /\ Request
  <2>1. Request
    BY <1>5 DEF BeginLoad, Begin
  <2>2. Drop(s) \/ UNCHANGED cache
    BY <1>5 DEF BeginLoad
  <2> QED BY <2>1, <2>2, DropQueue, CacheUnchanged DEF Kept
<1>6. ASSUME NEW s \in Sessions, BeginDelete(s)
      PROVE  Kept /\ Request
  BY <1>6, CacheUnchanged DEF Kept, BeginDelete, Begin
<1>7. ASSUME NEW s \in Sessions, ReadBackup(s) \/ Age(s)
      PROVE  Kept /\ Request
  BY <1>1, <1>7, CacheUnchanged DEF Kept, ReadBackup, Age
<1>8. CASE TruncateData
  BY <1>1, <1>8, CacheUnchanged DEF Kept, TruncateData, Await
<1>9. CASE SaveWritten
  <2>1. subject \in Sessions /\ payload # "none" /\ (Insert(subject, payload) \/ UNCHANGED cache)
    BY <1>1, <1>2, <1>9 DEF SaveWritten
  <2>2. stage' \in {"backup", "idle"} /\ (stage' = "backup" => subject' = subject)
    BY <1>9 DEF SaveWritten, Await, Return
  <2>3. Kept
    BY <2>1, InsertQueue, CacheUnchanged DEF Kept
  <2> QED BY <2>1, <2>2, <2>3
<1>10. CASE TruncateBackup \/ BackupWritten
  BY <1>1, <1>10, CacheUnchanged DEF Kept, TruncateBackup, BackupWritten, Await, Return
<1>11. CASE LoadRead
  <2>1. subject \in Sessions
        /\ ((data[subject] # "none" /\ Insert(subject, data[subject])) \/ UNCHANGED cache)
    BY <1>1, <1>11 DEF LoadRead
  <2>2. Kept
    BY <2>1, InsertQueue, CacheUnchanged DEF Kept
  <2> QED BY <1>11, <2>2 DEF LoadRead, Return
<1>12. CASE Deleted
  <2>1. subject \in Sessions /\ (Drop(subject) \/ UNCHANGED cache)
    BY <1>1, <1>12 DEF Deleted
  <2>2. Kept
    BY <2>1, DropQueue, CacheUnchanged DEF Kept
  <2> QED BY <1>12, <2>2 DEF Deleted, Return
<1>13. CASE SweepCache
  BY <1>1, <1>13, SweepQueue DEF Kept, SweepCache
<1>14. CASE Fail
  BY <1>14, CacheUnchanged DEF Kept, Fail, Return
<1>15. CASE ListBackups \/ SyncTruncate \/ SyncWritten
  BY <1>1, <1>15, CacheUnchanged DEF Kept, ListBackups, SyncTruncate, SyncWritten
<1>16. CASE VerifySync \/ RemoveBackup \/ SyncFail
  BY <1>1, <1>16, CacheUnchanged DEF Kept, VerifySync, RemoveBackup, SyncFail
<1>17. CASE Crash
  <2>1. /\ entries' = [s \in Sessions |-> "none"] /\ order' = <<>> /\ stage' = "idle"
        /\ Cached' = {}
    BY <1>17 DEF Crash, Return, Cached
  <2>2. Cardinality(Cached') <= MaxSessions
    BY <2>1, FS_EmptySet, StorageAssumption
  <2>3. /\ order' \in Seq(Sessions) /\ Range(order') = {}
        /\ \A i, j \in DOMAIN order' : order'[i] = order'[j] => i = j
    BY <2>1 DEF Range
  <2> QED BY <2>1, <2>2, <2>3 DEF Kept, QueueOK
<1>18. CASE UNCHANGED vars
  BY <1>1, <1>18, CacheUnchanged DEF Kept, vars
<1> HIDE DEF Request
<1> QED
  BY <1>3, <1>4, <1>5, <1>6, <1>7, <1>8, <1>9, <1>10, <1>11, <1>12, <1>13, <1>14, <1>15,
     <1>16, <1>17, <1>18 DEF Next

LEMMA OrderedStarts == Init => OrderedInv
<1> SUFFICES ASSUME Init PROVE OrderedInv
  OBVIOUS
<1>1. Cached = {} /\ order = <<>> /\ entries = [s \in Sessions |-> "none"] /\ stage = "idle"
  BY DEF Init, Cached
<1>2. Cardinality(Cached) <= MaxSessions
  BY <1>1, FS_EmptySet, StorageAssumption
<1>3. order \in Seq(Sessions) /\ Range(order) = {} /\ DOMAIN order = {}
  BY <1>1 DEF Range
<1> QED BY <1>1, <1>2, <1>3 DEF OrderedInv, QueueOK

(* The eviction loop of insert always finds someone to evict, and whom it  *)
(* evicts leaves the map: queue and map agree through every order of hits, *)
(* inserts, evictions, expirations and restarts, whatever the backup       *)
(* synchronisation does meanwhile.                                         *)
THEOREM QueueMatchesMap == Spec => []CacheOrdered
<1>1. Init => OrderedInv
  BY OrderedStarts
<1>2. OrderedInv /\ [Next]_vars => OrderedInv'
  BY OrderedAlways
<1>3. OrderedInv => CacheOrdered
  BY QueueLength DEF OrderedInv, QueueOK, CacheOrdered, Range
<1> QED
  BY <1>1, <1>2, <1>3, PTL DEF Spec
-------------------------------------------------------------------------------
(* Types. *)

\* What Typed leaves out; only what is in the cache can be past its TTL.
StoreInv ==
  /\ Typed /\ OrderedInv
  /\ stale \subseteq Cached /\ faults \in Nat
  /\ payload \in Versions \cup {"none"} /\ copy \in Contents

\* No operation of the cache leaves an expired mark on what it removed.
LEMMA StaleKept ==
  ASSUME Typed, stale \subseteq Cached, NEW s \in Sessions
  PROVE  /\ \A contents \in Contents \ {"none"} :
              Insert(s, contents) => (stale \subseteq Cached)'
         /\ Drop(s) => (stale \subseteq Cached)'
<1>1. entries \in [Sessions -> Contents]
  BY DEF Typed
<1>2. ASSUME NEW contents \in Contents \ {"none"}, Access(s, contents)
      PROVE  (stale \subseteq Cached)'
  BY <1>1, <1>2 DEF Access, Cached
<1>3. ASSUME NEW contents \in Contents \ {"none"}, Admit(s, contents)
      PROVE  (stale \subseteq Cached)'
  <2> DEFINE n == IF Cardinality(Cached) < MaxSessions THEN 0
                  ELSE Cardinality(Cached) + 1 - MaxSessions
             Out == {order[i] : i \in 1..n}
  <2>1. /\ entries' = [x \in Sessions |-> IF x = s THEN contents
                                          ELSE IF x \in Out THEN "none" ELSE entries[x]]
        /\ stale' = stale \ (Out \cup {s})
    BY <1>3, Zenon DEF Admit
  <2> HIDE DEF n, Out
  <2> QED
    BY <1>1, <2>1 DEF Cached
<1>4. Drop(s) => (stale \subseteq Cached)'
  BY <1>1 DEF Drop, Cached
<1> QED
  BY <1>2, <1>3, <1>4 DEF Insert

LEMMA StoreAlways ==
  ASSUME StoreInv, [Next]_vars
  PROVE  StoreInv'
<1> DEFINE Rest == /\ (stale \subseteq Cached)' /\ faults' \in Nat
                   /\ payload' \in Versions \cup {"none"} /\ copy' \in Contents
<1> USE DEF files, cache, request, syncing, records, meeting, ghosts
<1>1. /\ Typed /\ stale \subseteq Cached /\ faults \in Nat
      /\ payload \in Versions \cup {"none"} /\ copy \in Contents
      /\ "none" \in Contents /\ \A version \in Versions : version \in Contents \ {"none"}
  BY StorageAssumption DEF StoreInv, Contents
<1> SUFFICES Rest
  BY TypedAlways, OrderedAlways DEF StoreInv
<1>2. UNCHANGED <<entries, stale>> => (stale \subseteq Cached)'
  BY <1>1 DEF Cached
<1>3. ASSUME NEW s \in Sessions, NEW version \in Versions, BeginSave(s, version)
      PROVE  Rest
  BY <1>1, <1>2, <1>3 DEF BeginSave, Begin
<1>4. ASSUME NEW s \in Sessions, LoadHit(s)
      PROVE  Rest
  <2>1. entries[s] \in Contents \ {"none"} /\ Insert(s, entries[s])
    BY <1>1, <1>4 DEF LoadHit, Hit, Insert, Cached, Typed
  <2> QED
    BY <1>1, <1>4, <2>1, StaleKept DEF LoadHit
<1>5. ASSUME NEW s \in Sessions, BeginLoad(s)
      PROVE  Rest
  BY <1>1, <1>2, <1>5, StaleKept DEF BeginLoad, Begin
<1>6. ASSUME NEW s \in Sessions, BeginDelete(s)
      PROVE  Rest
  BY <1>1, <1>2, <1>6 DEF BeginDelete, Begin
<1>7. ASSUME NEW s \in Sessions, ReadBackup(s)
      PROVE  Rest
  BY <1>1, <1>2, <1>7 DEF ReadBackup, Typed
<1>8. ASSUME NEW s \in Sessions, Age(s)
      PROVE  Rest
  BY <1>1, <1>8 DEF Age, Cached
<1>9. CASE TruncateData \/ TruncateBackup \/ BackupWritten
  BY <1>1, <1>2, <1>9 DEF TruncateData, TruncateBackup, BackupWritten, Await, Return
<1>10. CASE SaveWritten
  <2>1. subject \in Sessions /\ payload \in Versions
    BY <1>1, <1>10 DEF SaveWritten, Typed
  <2>2. (stale \subseteq Cached)'
    BY <1>1, <1>2, <1>10, <2>1, StaleKept DEF SaveWritten
  <2> QED
    BY <1>1, <1>10, <2>2 DEF SaveWritten, Await, Return
<1>11. CASE LoadRead
  <2>1. subject \in Sessions /\ data[subject] \in Contents
    BY <1>1, <1>11 DEF LoadRead, Typed
  <2>2. (stale \subseteq Cached)'
    BY <1>1, <1>2, <1>11, <2>1, StaleKept DEF LoadRead
  <2> QED
    BY <1>1, <1>11, <2>2 DEF LoadRead, Return
<1>12. CASE Deleted
  <2>1. subject \in Sessions
    BY <1>1, <1>12 DEF Deleted, Typed
  <2>2. (stale \subseteq Cached)'
    BY <1>1, <1>2, <1>12, <2>1, StaleKept DEF Deleted
  <2> QED
    BY <1>1, <1>12, <2>2 DEF Deleted, Return
<1>13. CASE SweepCache
  BY <1>1, <1>13 DEF SweepCache
<1>14. CASE Fail
  BY <1>1, <1>2, <1>14 DEF Fail, Return
<1>15. CASE ListBackups \/ SyncTruncate \/ SyncWritten
  BY <1>1, <1>2, <1>15 DEF ListBackups, SyncTruncate, SyncWritten
<1>16. CASE VerifySync \/ RemoveBackup \/ SyncFail
  BY <1>1, <1>2, <1>16 DEF VerifySync, RemoveBackup, SyncFail, Onward
<1>17. CASE Crash
  BY <1>1, <1>17 DEF Crash, Return
<1>18. CASE UNCHANGED vars
  BY <1>1, <1>2, <1>18 DEF vars
<1> HIDE DEF Rest
<1> QED
  BY <1>3, <1>4, <1>5, <1>6, <1>7, <1>8, <1>9, <1>10, <1>11, <1>12, <1>13, <1>14, <1>15,
     <1>16, <1>17, <1>18 DEF Next

(* The engine, its cache and the synchronisation keep their types: among   *)
(* them, that a request knows its session as long as it runs and that only *)
(* cached sessions count as expired (lib.rs:97-171, cache/mod.rs:60-158).  *)
THEOREM StoreTyped == Spec => []TypeOK
<1>1. Init => StoreInv
  <2> SUFFICES ASSUME Init PROVE StoreInv
    OBVIOUS
  <2>1. Typed /\ stale \subseteq Cached /\ faults \in Nat
        /\ payload \in Versions \cup {"none"} /\ copy \in Contents
    BY DEF Init, Typed, Contents, Stages, Syncs, Cached
  <2> QED
    BY <2>1, OrderedStarts DEF StoreInv
<1>2. StoreInv /\ [Next]_vars => StoreInv'
  BY StoreAlways
<1>3. StoreInv => TypeOK
  <2>1. NoSession \notin Sessions
    BY StorageAssumption
  <2> QED
    BY <2>1 DEF StoreInv, Typed, OrderedInv, QueueOK, Stages, Syncs, TypeOK
<1> QED
  BY <1>1, <1>2, <1>3, PTL DEF Spec
===============================================================================
