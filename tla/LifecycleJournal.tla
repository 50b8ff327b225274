-------------------------- MODULE LifecycleJournal --------------------------
(***************************************************************************)
(* The lifecycle journal of slopd: one JSONL file for each tmux session    *)
(* incarnation, appended under a lock, cached in part in memory, rewritten *)
(* file by file by compaction, and read file by file without the lock.     *)
(*                                                                         *)
(* A file is what replaying its lines gives, together with the state of    *)
(* its last line: replay folds the lines in order, so appending a line is  *)
(* one Apply.  A torn line is never complete JSON here.  A checkpoint is a *)
(* function from pane ids to recovery metadata, 0 for a pane that is not   *)
(* in it; generations are numbered by started_at and graves by             *)
(* destroyed_at.  Crashes are those of the daemon's process: what was      *)
(* written stays, so fsync matters only through the error it can return.   *)
(***************************************************************************)
EXTENDS Naturals, FiniteSets

CONSTANTS
  Generation,  \* tmux session incarnations: 1 .. n
  Pane,        \* pane ids: natural numbers
  Version,     \* recovery metadata of a pane: naturals from 1
  Grave,       \* death records: 1 .. n
  MaxEntries,  \* grave_max_entries
  Retention,   \* whether retention is configured
  Faults,      \* the I/O faults that may happen
  MaxFaults,   \* bound on their number
  MaxCrashes,  \* bound on the crashes of the daemon
  MaxBackups,  \* bound on the calls of checkpoint
  Reading      \* whether a request reads the journal beside the writers

ASSUME JournalAssumption ==
  /\ Generation \subseteq Nat \ {0}
  /\ Pane \subseteq Nat
  /\ Version \subseteq Nat \ {0}
  /\ Grave \subseteq Nat
  /\ MaxEntries \in Nat
  /\ Retention \in BOOLEAN
  /\ Reading \in BOOLEAN
  /\ Faults \subseteq {"append", "torn", "sync", "commit", "reopen"}
  /\ {MaxFaults, MaxCrashes, MaxBackups} \subseteq Nat

VARIABLES
  disk,      \* the journal files, by generation
  alive,     \* whether the daemon runs
  cur,       \* CurrentState.generation; the running tmux session's
  cache,     \* CurrentState.pane_versions and .checkpoint
  unlinked,  \* CurrentState.file is no longer the file under its name
  writer,    \* who holds the lock across several writes, and what is left
  reader,    \* a read_generations call that does not hold the lock
  said,      \* what callers were told: the operations that returned Ok
  faults,    \* how many, and whether one spoilt the file or led the cache astray
  crashes, backups   \* counters behind the bounds

vars == <<disk, alive, cur, cache, unlinked, writer, reader, said,
          faults, crashes, backups>>

Points == [Pane -> {0} \cup Version]
NoPanes == [p \in Pane |-> 0]

Missing == [versions |-> NoPanes, checkpoint |-> NoPanes,
            has_checkpoint |-> FALSE, graves |-> {}, revivals |-> {},
            resolved |-> {}, tail |-> "none"]

Exists(g) == disk[g].tail # "none"

Free == [op |-> "free"]

Quiet == [pc |-> "idle"]
-----------------------------------------------------------------------------
(* Lines of a file, and what replaying them gives.                         *)

Readable(f) == f.tail \notin {"garbled_torn", "poisoned"}

(* A whole line: after a torn one it completes a malformed line, which     *)
(* replay forgives only as the last one.                                   *)
Append(f, after) ==
  CASE f.tail = "clean" -> after
    [] f.tail = "torn" -> [f EXCEPT !.tail = "garbled"]
    [] OTHER -> [f EXCEPT !.tail = "poisoned"]

(* write_all gives up in the middle of a line.                             *)
Tear(f) ==
  CASE f.tail = "clean" -> [f EXCEPT !.tail = "torn"]
    [] f.tail = "garbled" -> [f EXCEPT !.tail = "garbled_torn"]
    [] OTHER -> f

(* jsonl::repair cuts the last line if it is malformed; open_generation    *)
(* starts a missing file with its header.                                  *)
Repair(f) ==
  CASE f.tail = "poisoned" -> f
    [] f.tail = "garbled_torn" -> [f EXCEPT !.tail = "garbled"]
    [] OTHER -> [f EXCEPT !.tail = "clean"]

WithPane(f, p, v) == [f EXCEPT !.versions[p] = v]

WithCheckpoint(f, ids) ==
  LET kept == [p \in Pane |-> IF p \in ids THEN f.versions[p] ELSE 0]
  IN [f EXCEPT !.checkpoint = kept, !.versions = kept, !.has_checkpoint = TRUE]

WithGrave(f, g) == [f EXCEPT !.graves = @ \cup {g}]

WithRevival(f, g) == [f EXCEPT !.revivals = @ \cup {g}]

WithResolution(f, src) == [f EXCEPT !.resolved = @ \cup {src}]

Ids(point) == {p \in Pane : point[p] # 0}

(* What the files hold together.                                           *)
Graves == UNION {disk[g].graves : g \in Generation}
Revivals == UNION {disk[g].revivals : g \in Generation}
Resolutions == UNION {disk[g].resolved : g \in Generation}

-----------------------------------------------------------------------------
Init ==
  /\ disk = [g \in Generation |-> Missing]
  /\ alive = FALSE
  /\ cur = 0
  /\ cache = [versions |-> NoPanes, checkpoint |-> NoPanes]
  /\ unlinked = FALSE
  /\ writer = Free
  /\ reader = Quiet
  /\ said = [point |-> [g \in Generation |-> NoPanes],
             tried |-> [g \in Generation |-> NoPanes],
             dead |-> {}, revived |-> {}, resolved |-> {}]
  /\ faults = [count |-> 0, spoilt |-> FALSE, astray |-> FALSE]
  /\ crashes = 0
  /\ backups = 0

(* A call that needs the lock of the journal can go on.                    *)
Unlocked == alive /\ writer.op = "free"

Fault(kind) ==
  /\ kind \in Faults
  /\ faults.count < MaxFaults
  /\ faults' = [count |-> faults.count + 1,
                spoilt |-> faults.spoilt \/ kind \in {"torn", "reopen"},
                astray |-> faults.astray \/ (kind = "sync" /\ writer.op = "checkpoint")]

(* Appending to CurrentState.file.                                         *)
Write(after) ==
  disk' = IF unlinked THEN disk ELSE [disk EXCEPT ![cur] = Append(@, after)]

WriteTorn ==
  disk' = IF unlinked THEN disk ELSE [disk EXCEPT ![cur] = Tear(@)]

-----------------------------------------------------------------------------
(* open and switch_generation.                                             *)

(* open_generation: the file is repaired and then read; a file that cannot *)
(* be read leaves everything else as it was.                               *)
OpenGeneration(g) ==
  LET file == Repair(disk[g])
  IN /\ disk' = [disk EXCEPT ![g] = file]
     /\ IF Readable(file)
          THEN /\ alive' = TRUE
               /\ cur' = g
               /\ cache' = [versions |-> file.versions,
                            checkpoint |-> file.checkpoint]
               /\ unlinked' = FALSE
          ELSE UNCHANGED <<alive, cur, cache, unlinked>>

(* main: the tmux session is the one of the last run or a newer one.       *)
Start(g) ==
  /\ ~alive
  /\ g >= cur
  /\ OpenGeneration(g)
  /\ UNCHANGED <<writer, reader, said, faults, crashes, backups>>

SwitchGeneration(g) ==
  /\ Unlocked
  /\ g > cur
  /\ OpenGeneration(g)
  /\ UNCHANGED <<writer, reader, said, faults, crashes, backups>>

Crash ==
  /\ alive
  /\ crashes < MaxCrashes
  /\ crashes' = crashes + 1
  /\ alive' = FALSE
  /\ cache' = [versions |-> NoPanes, checkpoint |-> NoPanes]
  /\ unlinked' = FALSE
  /\ writer' = Free
  /\ reader' = Quiet
  /\ UNCHANGED <<disk, cur, said, faults, backups>>

-----------------------------------------------------------------------------
(* checkpoint                                                              *)

(* Nothing changed: the file is only synced.                               *)
CheckpointUnchanged ==
  /\ Unlocked
  /\ said' = [said EXCEPT !.point[cur] = cache.checkpoint,
                          !.tried[cur] = cache.checkpoint]
  /\ UNCHANGED <<disk, alive, cur, cache, unlinked, writer, reader,
                 faults, crashes, backups>>

(* Only the panes whose cached metadata differs are appended.              *)
Checkpoint(panes) ==
  /\ Unlocked
  /\ backups < MaxBackups
  /\ panes # cache.checkpoint
  /\ writer' = [op |-> "checkpoint", panes |-> panes,
                todo |-> {p \in Ids(panes) : cache.versions[p] # panes[p]}]
  /\ said' = [said EXCEPT !.tried[cur] = panes]
  /\ backups' = backups + 1
  /\ UNCHANGED <<disk, alive, cur, cache, unlinked, reader, faults, crashes>>

AppendPane(p) ==
  /\ writer.op = "checkpoint"
  /\ p \in writer.todo
  /\ \A q \in writer.todo : p <= q
  /\ Write(WithPane(disk[cur], p, writer.panes[p]))
  /\ cache' = [cache EXCEPT !.versions[p] = writer.panes[p]]
  /\ writer' = [writer EXCEPT !.todo = @ \ {p}]
  /\ UNCHANGED <<alive, cur, unlinked, reader, said, faults, crashes, backups>>

AppendCheckpointUncached ==
  /\ writer.op = "checkpoint"
  /\ writer.todo = {}
  /\ Write(WithCheckpoint(disk[cur], Ids(writer.panes)))
  /\ cache' = [cache EXCEPT !.checkpoint = writer.panes]
  /\ said' = [said EXCEPT !.point[cur] = writer.panes]
  /\ writer' = Free
  /\ UNCHANGED <<alive, cur, unlinked, reader, faults, crashes, backups>>

AppendCheckpoint ==
  /\ writer.op = "checkpoint"
  /\ writer.todo = {}
  /\ Write(WithCheckpoint(disk[cur], Ids(writer.panes)))
  /\ cache' = [versions |-> [p \in Pane |->
                  IF writer.panes[p] # 0 THEN cache.versions[p] ELSE 0],
               checkpoint |-> writer.panes]
  /\ said' = [said EXCEPT !.point[cur] = writer.panes]
  /\ writer' = Free
  /\ UNCHANGED <<alive, cur, unlinked, reader, faults, crashes, backups>>

(* The next append fails, before anything or in the middle of the line.    *)
CheckpointFails ==
  /\ writer.op = "checkpoint"
  /\ \/ Fault("append") /\ UNCHANGED disk
     \/ Fault("torn") /\ WriteTorn
  /\ writer' = Free
  /\ UNCHANGED <<alive, cur, cache, unlinked, reader, said, crashes, backups>>

(* The checkpoint is written and sync_data fails.                          *)
CheckpointSyncFails ==
  /\ writer.op = "checkpoint"
  /\ writer.todo = {}
  /\ Fault("sync")
  /\ Write(WithCheckpoint(disk[cur], Ids(writer.panes)))
  /\ writer' = Free
  /\ UNCHANGED <<alive, cur, cache, unlinked, reader, said, crashes, backups>>

-----------------------------------------------------------------------------
(* record_destroyed, record_revived, resolve_restore: one line each.       *)

(* Written and synced, or written with an error from sync_data.            *)
Record(after, told) ==
  /\ Unlocked
  /\ Write(after)
  /\ \/ said' = told /\ UNCHANGED faults
     \/ said' = said /\ Fault("sync")
  /\ UNCHANGED <<alive, cur, cache, unlinked, writer, reader, crashes, backups>>

RecordDestroyed(g) ==
  /\ \A h \in said.dead \cup Graves : h < g
  /\ Record(WithGrave(disk[cur], g), [said EXCEPT !.dead = @ \cup {g}])

RecordRevived(g) ==
  /\ g \in said.dead
  /\ Record(WithRevival(disk[cur], g), [said EXCEPT !.revived = @ \cup {g}])

ResolveRestore(src) ==
  /\ Exists(src)
  /\ src # cur
  /\ Record(WithResolution(disk[cur], src),
            [said EXCEPT !.resolved = @ \cup {src}])

RecordTears ==
  /\ Unlocked
  /\ Fault("torn")
  /\ WriteTorn
  /\ UNCHANGED <<alive, cur, cache, unlinked, writer, reader, said,
                 crashes, backups>>

-----------------------------------------------------------------------------
(* compact: under the lock, one file after the other, oldest first.        *)

Kept == {g \in Graves : Cardinality({h \in Graves : h > g}) < MaxEntries}

Compact ==
  /\ Retention
  /\ Unlocked
  /\ \A g \in Generation : Readable(disk[g])
  /\ Kept # Graves
  /\ writer' = [op |-> "compact", left |-> {g \in Generation : Exists(g)},
                keep |-> Kept]
  /\ UNCHANGED <<disk, alive, cur, cache, unlinked, reader, said,
                 faults, crashes, backups>>

CompactedUnresolved(f, keep) ==
  [f EXCEPT !.versions = f.checkpoint, !.graves = @ \cap keep,
            !.revivals = @ \cap keep, !.resolved = {}, !.tail = "clean"]

CompactedWithoutPoint(f, keep) ==
  [f EXCEPT !.versions = NoPanes, !.checkpoint = NoPanes,
            !.graves = @ \cap keep, !.revivals = @ \cap keep,
            !.tail = "clean"]

Compacted(f, keep) ==
  [f EXCEPT !.versions = f.checkpoint, !.graves = @ \cap keep,
            !.revivals = @ \cap keep, !.tail = "clean"]

(* History: the file loses pane lines that the cache still counts.         *)
Drops(g) ==
  faults' = [faults EXCEPT
    !.astray = @ \/ (g = cur /\ cache.versions # disk[g].checkpoint)]

CompactNewestFirst(g) ==
  /\ writer.op = "compact"
  /\ g \in writer.left
  /\ \A h \in writer.left : h <= g
  /\ disk' = [disk EXCEPT ![g] = Compacted(@, writer.keep)]
  /\ unlinked' = (unlinked \/ g = cur)
  /\ writer' = [writer EXCEPT !.left = @ \ {g}]
  /\ Drops(g)
  /\ UNCHANGED <<alive, cur, cache, reader, said, crashes, backups>>

(* The rename leaves CurrentState.file open on the old file.               *)
CompactFile(g) ==
  /\ writer.op = "compact"
  /\ g \in writer.left
  /\ \A h \in writer.left : g <= h
  /\ disk' = [disk EXCEPT ![g] = Compacted(@, writer.keep)]
  /\ unlinked' = (unlinked \/ g = cur)
  /\ writer' = [writer EXCEPT !.left = @ \ {g}]
  /\ Drops(g)
  /\ UNCHANGED <<alive, cur, cache, reader, said, crashes, backups>>

CompactEnd ==
  /\ writer.op = "compact"
  /\ writer.left = {}
  /\ unlinked' = FALSE
  /\ writer' = Free
  /\ UNCHANGED <<disk, alive, cur, cache, reader, said, faults, crashes, backups>>

(* An error returns at once: before the running generation's file is       *)
(* replaced, or after it and before the file is opened again.              *)
CompactFails ==
  /\ writer.op = "compact"
  /\ Fault(IF cur \in writer.left THEN "commit" ELSE "reopen")
  /\ writer' = Free
  /\ UNCHANGED <<disk, alive, cur, cache, unlinked, reader, said,
                 crashes, backups>>

-----------------------------------------------------------------------------
(* A request that reads all files: flush and the running generation under  *)
(* the lock, then the directory, then file after file without it.          *)

ReadBegin ==
  /\ Reading
  /\ Unlocked
  /\ reader.pc = "idle"
  /\ reader' = [pc |-> "begun", cur |-> cur,
                revived |-> said.revived, resolved |-> said.resolved]
  /\ UNCHANGED <<disk, alive, cur, cache, unlinked, writer, said,
                 faults, crashes, backups>>

ReadDirectory ==
  /\ reader.pc = "begun"
  /\ reader' = [pc |-> "reading", cur |-> reader.cur,
                revived |-> reader.revived, resolved |-> reader.resolved,
                left |-> {g \in Generation : Exists(g)},
                got |-> [g \in Generation |-> Missing]]
  /\ UNCHANGED <<disk, alive, cur, cache, unlinked, writer, said,
                 faults, crashes, backups>>

(* A file that cannot be read fails the request.                           *)
ReadFile(g) ==
  /\ reader.pc = "reading"
  /\ g \in reader.left
  /\ reader' = IF Readable(disk[g])
                 THEN [reader EXCEPT !.left = @ \ {g}, !.got[g] = disk[g]]
                 ELSE Quiet
  /\ UNCHANGED <<disk, alive, cur, cache, unlinked, writer, said,
                 faults, crashes, backups>>

ReadDone == reader.pc = "reading" /\ reader.left = {}

ReadEnd ==
  /\ ReadDone
  /\ reader' = Quiet
  /\ UNCHANGED <<disk, alive, cur, cache, unlinked, writer, said,
                 faults, crashes, backups>>

(* latest_checkpoint over the files that were read; 0 when there is none.  *)
LatestCheckpoint(files, current, include_current, unresolved_only) ==
  LET resolved == UNION {files[g].resolved : g \in Generation}
      found == {g \in Generation :
                  /\ files[g].has_checkpoint
                  /\ include_current \/ g # current
                  /\ unresolved_only => /\ g \notin resolved
                                        /\ files[g].checkpoint # NoPanes}
  IN IF found = {} THEN 0 ELSE CHOOSE g \in found : \A h \in found : h <= g

-----------------------------------------------------------------------------
Next ==
  \/ \E g \in Generation : Start(g) \/ SwitchGeneration(g) \/ ResolveRestore(g)
                             \/ CompactFile(g) \/ ReadFile(g)
  \/ Crash
  \/ CheckpointUnchanged
  \/ \E panes \in Points : Checkpoint(panes)
  \/ \E p \in Pane : AppendPane(p)
  \/ AppendCheckpoint \/ CheckpointFails \/ CheckpointSyncFails
  \/ \E g \in Grave : RecordDestroyed(g) \/ RecordRevived(g)
  \/ RecordTears
  \/ Compact \/ CompactEnd \/ CompactFails
  \/ ReadBegin \/ ReadDirectory \/ ReadEnd

Spec == Init /\ [][Next]_vars

-----------------------------------------------------------------------------
(* Properties.                                                             *)

File == [versions : Points, checkpoint : Points, has_checkpoint : BOOLEAN,
         graves : SUBSET Grave, revivals : SUBSET Grave,
         resolved : SUBSET Generation,
         tail : {"none", "clean", "torn", "garbled", "garbled_torn", "poisoned"}]

(* The type of every variable, and that the lock is held by a live daemon. *)
TypeOK ==
  /\ disk \in [Generation -> File]
  /\ alive \in BOOLEAN
  /\ cur \in {0} \cup Generation
  /\ cache \in [versions : Points, checkpoint : Points]
  /\ unlinked \in BOOLEAN
  /\ \/ writer = Free
     \/ alive /\ writer \in [op : {"checkpoint"}, panes : Points,
                             todo : SUBSET Pane]
     \/ alive /\ writer \in [op : {"compact"}, left : SUBSET Generation,
                             keep : SUBSET Grave]
  /\ \/ reader = Quiet
     \/ reader \in [pc : {"begun"}, cur : Generation, revived : SUBSET Grave,
                    resolved : SUBSET Generation]
     \/ reader \in [pc : {"reading"}, cur : Generation, revived : SUBSET Grave,
                    resolved : SUBSET Generation, left : SUBSET Generation,
                    got : [Generation -> File]]
  /\ said \in [point : [Generation -> Points], tried : [Generation -> Points],
               dead : SUBSET Grave, revived : SUBSET Grave,
               resolved : SUBSET Generation]
  /\ faults \in [count : Nat, spoilt : BOOLEAN, astray : BOOLEAN]
  /\ {crashes, backups} \subseteq Nat
  /\ alive => cur # 0 /\ Exists(cur)

(* A write that tears and a running file that is not reopened break the    *)
(* promises below; StoreImplemented holds with them too.                   *)
Unspoilt == ~faults.spoilt

(* After any crash, restart, failed call or compaction, a generation's     *)
(* restore point is the backup last acknowledged, whole: no pane is        *)
(* missing from it and none has older metadata.  What leads the cache      *)
(* astray is a compaction after a backup that stopped half way             *)
(* (CurrentBackupNamed of MCLifecycleJournal), and a failed sync.          *)
PointsKept ==
  Unspoilt /\ ~faults.astray =>
    \A g \in Generation : disk[g].checkpoint = said.point[g]

(* What was acknowledged is not lost, also between two files of a          *)
(* compaction and when the daemon dies there: a grave goes only when the   *)
(* number of newer graves that retention asks for exists; while it is kept *)
(* so is the mark that it was revived; a restore point that was used up is *)
(* never pending again.                                                    *)
GravesKept ==
  \A g \in said.dead \ Graves :
    Cardinality({h \in said.dead \cup Graves : h > g}) >= MaxEntries
RevivalsKept == said.revived \cap Graves \subseteq Revivals
ResolutionsKept == said.resolved \subseteq Resolutions
EntriesKept == Unspoilt => GravesKept /\ RevivalsKept /\ ResolutionsKept

(* A reader never offers a restore point that was used up before it began, *)
(* although compaction replaces the files under it.                        *)
ReaderOffersNoUsedPoint ==
  Unspoilt /\ ReadDone =>
    LatestCheckpoint(reader.got, reader.cur, FALSE, TRUE) \notin reader.resolved

Store == INSTANCE JournalStore WITH
  now <- cur,
  point <- [g \in Generation |-> disk[g].checkpoint],
  taken <- {g \in Generation : disk[g].has_checkpoint},
  dead <- Graves,
  revived <- Revivals \cap Graves,
  resolved <- Resolutions

(* The files implement the atomic store.                                   *)
StoreImplemented == Store!StoreSpec

=============================================================================
