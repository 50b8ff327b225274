----------------------- MODULE LifecycleJournalProofs -----------------------
(***************************************************************************)
(* For any generations, panes and graves, and any number of faults,        *)
(* crashes and backups: the journal files implement JournalStore, and what *)
(* callers were told of stays.                                             *)
(***************************************************************************)
EXTENDS LifecycleJournal, FiniteSetTheorems, TLAPS

-----------------------------------------------------------------------------
(* The inductive invariants.                                               *)

Newer(S, g) == {h \in S : h > g}

(* Files are those of generations that were opened, up to the running one, *)
(* and compaction goes through no others.                                  *)
FilesOpened ==
  /\ \A g \in Generation : IF Exists(g) THEN g <= cur ELSE disk[g] = Missing
  /\ writer.op = "compact" => \A g \in writer.left : g <= cur

(* A grave is in one file, its revival in that file or a younger one.      *)
GravesInOneFile ==
  \A x, y \in Generation : x # y => disk[x].graves \cap disk[y].graves = {}
RevivalsFollow ==
  \A x, y \in Generation : disk[x].revivals \cap disk[y].graves # {} => y <= x

(* Only graves that a caller was told of are revived.                      *)
RevivalsTold == Revivals \cup said.revived \subseteq said.dead

GravesFinite == IsFiniteSet(Graves) /\ IsFiniteSet(said.dead)

(* Compaction keeps the newest graves; behind it no file has another one.  *)
Compacting ==
  writer.op = "compact" =>
    /\ writer.keep \subseteq Graves
    /\ \A x \in Generation \ writer.left : disk[x].graves \subseteq writer.keep
    /\ \A g \in Graves \ writer.keep :
         Cardinality(Newer(writer.keep, g)) >= MaxEntries

Sound ==
  /\ TypeOK
  /\ FilesOpened
  /\ GravesInOneFile
  /\ RevivalsFollow
  /\ RevivalsTold
  /\ GravesFinite
  /\ Compacting

(* Nothing torn, and the running file is the one under its name except     *)
(* while compaction has replaced it.                                       *)
FilesWhole ==
  /\ \A g \in Generation : disk[g].tail \in {"none", "clean"}
  /\ unlinked => writer.op = "compact" /\ cur \notin writer.left

(* A grave that is no longer there has MaxEntries newer ones that are; so  *)
(* has, during compaction, one that is to go.                              *)
GravesOutlived ==
  /\ \A g \in said.dead \ Graves : Cardinality(Newer(Graves, g)) >= MaxEntries
  /\ writer.op = "compact" =>
       \A g \in said.dead \ writer.keep :
         Cardinality(Newer(writer.keep, g)) >= MaxEntries

Whole ==
  Unspoilt =>
    /\ FilesWhole
    /\ GravesOutlived
    /\ RevivalsKept
    /\ ResolutionsKept

(* The cache is what the running file says, and what a backup has written  *)
(* is in the cache.                                                        *)
CacheTrue ==
  /\ alive => /\ cache.versions = disk[cur].versions
              /\ cache.checkpoint = disk[cur].checkpoint
  /\ writer.op = "checkpoint" =>
       \A p \in Ids(writer.panes) \ writer.todo : cache.versions[p] = writer.panes[p]

Backed ==
  Unspoilt /\ ~faults.astray =>
    /\ CacheTrue
    /\ \A g \in Generation : disk[g].checkpoint = said.point[g]

(* What was used up before a read began it has read or will read.          *)
ReadsResolved ==
  Unspoilt =>
    /\ reader.pc = "begun" => reader.resolved \subseteq Resolutions
    /\ reader.pc = "reading" =>
         /\ \A src \in reader.resolved : \E x \in Generation :
              src \in (IF x \in reader.left THEN disk[x] ELSE reader.got[x]).resolved
         /\ \A x \in Generation : reader.got[x].has_checkpoint => x <= cur

-----------------------------------------------------------------------------
(* Sets of numbers.                                                        *)

(* A finite set of numbers has a greatest element: one whose set of newer  *)
(* elements is minimal.                                                    *)
LEMMA GreatestExists ==
  ASSUME NEW S \in SUBSET Nat, IsFiniteSet(S), S # {}
  PROVE  \E m \in S : \A h \in S : h <= m
<1> DEFINE Above == {Newer(S, g) : g \in S}
<1>1. Above \subseteq FiniteSubsetsOf(S)
  BY FS_Subset DEF FiniteSubsetsOf, Newer
<1>2. Above # {}
  OBVIOUS
<1>3. PICK T \in Above : \A U \in Above : ~ <<U, T>> \in StrictSubsetOrdering(S)
  <2> HIDE DEF Above
  <2> QED BY <1>1, <1>2, FS_StrictSubsetOrderingWellFounded, WFMin
<1>4. PICK m \in S : T = Newer(S, m)
  OBVIOUS
<1>5. ASSUME NEW h \in S, h > m PROVE FALSE
  <2>1. Newer(S, h) \in Above
    OBVIOUS
  <2> HIDE DEF Above
  <2>a. h \in Nat /\ m \in Nat /\ \A k \in S : k \in Nat
    OBVIOUS
  <2>b. \A k \in S : k > h => k > m
    BY <1>5, <2>a
  <2>c. ~ h > h
    BY <2>a
  <2>2. Newer(S, h) \subseteq T /\ h \in T /\ h \notin Newer(S, h)
    BY <1>4, <1>5, <2>b, <2>c, Zenon DEF Newer
  <2>3. <<Newer(S, h), T>> \in StrictSubsetOrdering(S)
    BY <2>2, <1>4 DEF StrictSubsetOrdering, Newer
  <2> QED BY <2>1, <2>3, <1>3
<1> QED BY <1>5

(* Kept holds as many graves newer than g as retention asks for, if there  *)
(* are as many at all.                                                     *)
LEMMA NewestAreKept ==
  ASSUME NEW S \in SUBSET Nat, IsFiniteSet(S), NEW n \in Nat, NEW g \in Nat,
         NEW K, K = {k \in S : Cardinality(Newer(S, k)) < n},
         Cardinality(Newer(S, g)) >= n
  PROVE  Cardinality(Newer(K, g)) >= n
<1>1. IsFiniteSet(K) /\ IsFiniteSet(Newer(K, g)) /\ IsFiniteSet(Newer(S, g))
  BY FS_Subset DEF Newer
<1>2. Cardinality(Newer(K, g)) \in Nat
  BY <1>1, FS_CardinalityType
<1>3. CASE Newer(S, g) \subseteq K
  <2>1. Newer(K, g) = Newer(S, g)
    BY <1>3 DEF Newer
  <2> QED BY <2>1
<1>4. CASE ~(Newer(S, g) \subseteq K)
  <2> DEFINE Gone == Newer(S, g) \ K
  <2>1. Gone \in SUBSET Nat /\ IsFiniteSet(Gone) /\ Gone # {}
    BY <1>1, <1>4, FS_Subset DEF Newer
  <2>2. PICK m \in Gone : \A h \in Gone : h <= m
    <3> HIDE DEF Gone
    <3> QED BY <2>1, GreatestExists
  <2>3. m \in S /\ m > g /\ m \notin K /\ m \in Nat
    BY DEF Newer
  <2>4. ASSUME NEW h \in Newer(S, m) PROVE h \in Newer(K, g)
    <3>1. h \in S /\ h > m /\ h \in Nat
      BY DEF Newer
    <3>2. h > g
      BY <3>1, <2>3
    <3>3. h \notin Gone
      BY <3>1, <2>2, <2>3
    <3> QED BY <3>1, <3>2, <3>3 DEF Newer
  <2>5. Cardinality(Newer(S, m)) <= Cardinality(Newer(K, g))
    BY <2>4, <1>1, FS_Subset
  <2>6. Cardinality(Newer(S, m)) \in Nat
    BY <2>4, <1>1, FS_Subset, FS_CardinalityType
  <2>7. Cardinality(Newer(S, m)) >= n
    BY <2>3, <2>6
  <2> QED BY <2>5, <2>6, <2>7, <1>2
<1> QED BY <1>3, <1>4

(* More graves outlive a grave when more are there.                        *)
LEMMA NewerGrow ==
  ASSUME NEW S, NEW T, S \subseteq T, IsFiniteSet(T), NEW n \in Nat, NEW g,
         Cardinality(Newer(S, g)) >= n
  PROVE  Cardinality(Newer(T, g)) >= n
<1>1. IsFiniteSet(Newer(T, g)) /\ Newer(S, g) \subseteq Newer(T, g)
  BY FS_Subset DEF Newer
<1>2. Cardinality(Newer(S, g)) <= Cardinality(Newer(T, g))
  BY <1>1, FS_Subset
<1>3. Cardinality(Newer(S, g)) \in Nat /\ Cardinality(Newer(T, g)) \in Nat
  BY <1>1, FS_Subset, FS_CardinalityType
<1> QED BY <1>2, <1>3

-----------------------------------------------------------------------------
(* Types.                                                                  *)

LEMMA NoPanesType == NoPanes \in Points
BY DEF NoPanes, Points

LEMMA MissingType == Missing \in File
BY NoPanesType DEF Missing, File

(* Every line and every repair makes a file of a file.                     *)
LEMMA FileTypes ==
  ASSUME NEW f \in File
  PROVE  /\ \A after \in File : Append(f, after) \in File
         /\ Tear(f) \in File
         /\ Repair(f) \in File
         /\ \A p \in Pane, v \in {0} \cup Version : WithPane(f, p, v) \in File
         /\ \A ids : WithCheckpoint(f, ids) \in File
         /\ \A g \in Grave : WithGrave(f, g) \in File /\ WithRevival(f, g) \in File
         /\ \A src \in Generation : WithResolution(f, src) \in File
         /\ \A keep : Compacted(f, keep) \in File
<1>1. \A after \in File : Append(f, after) \in File
  BY DEF Append, File
<1>2. Tear(f) \in File /\ Repair(f) \in File
  BY DEF Tear, Repair, File
<1>3. \A p \in Pane, v \in {0} \cup Version : WithPane(f, p, v) \in File
  BY DEF WithPane, File, Points
<1>4. \A ids : WithCheckpoint(f, ids) \in File
  <2> TAKE ids
  <2>1. [p \in Pane |-> IF p \in ids THEN f.versions[p] ELSE 0] \in Points
    BY DEF File, Points
  <2> QED BY <2>1 DEF WithCheckpoint, File
<1>5. \A g \in Grave : WithGrave(f, g) \in File /\ WithRevival(f, g) \in File
  BY DEF WithGrave, WithRevival, File
<1>6. \A src \in Generation : WithResolution(f, src) \in File
  BY DEF WithResolution, File
<1>7. \A keep : Compacted(f, keep) \in File
  BY DEF Compacted, File
<1> QED BY <1>1, <1>2, <1>3, <1>4, <1>5, <1>6, <1>7

(* What a line leaves of the file it is appended to: all but its last line *)
(* when that one was torn.                                                 *)
LEMMA AppendEffect ==
  ASSUME NEW f \in File, NEW after \in File, after.tail = f.tail
  PROVE  /\ f.tail = "clean" => Append(f, after) = after
         /\ f.tail # "clean" =>
              \E t \in {"garbled", "poisoned"} : Append(f, after) = [f EXCEPT !.tail = t]
         /\ Append(f, after).tail # "none"
BY DEF Append, File

(* A write replaces the running file, which stays.                         *)
LEMMA WriteType ==
  ASSUME TypeOK, alive, NEW after \in File, after.tail = disk[cur].tail,
         Write(after) \/ WriteTorn
  PROVE  /\ disk' \in [Generation -> File]
         /\ cur \in Generation
         /\ disk'[cur].tail # "none"
         /\ \A g \in Generation : g # cur => disk'[g] = disk[g]
<1> USE DEF TypeOK
<1>1. cur \in Generation /\ disk[cur] \in File /\ disk[cur].tail # "none"
  BY DEF Exists
<1>2. /\ Append(disk[cur], after) \in File /\ Append(disk[cur], after).tail # "none"
      /\ Tear(disk[cur]) \in File /\ Tear(disk[cur]).tail # "none"
  <2>1. Append(disk[cur], after) \in File /\ Tear(disk[cur]) \in File
    BY <1>1, FileTypes
  <2>2. Tear(disk[cur]).tail # "none"
    BY <1>1 DEF Tear, File
  <2>3. Append(disk[cur], after).tail # "none"
    BY <1>1, AppendEffect
  <2> QED BY <2>1, <2>2, <2>3
<1>3. disk' = disk \/ disk' = [disk EXCEPT ![cur] = Append(@, after)]
        \/ disk' = [disk EXCEPT ![cur] = Tear(@)]
  BY DEF Write, WriteTorn
<1> QED BY <1>1, <1>2, <1>3

LEMMA TypeInit == Init => TypeOK
<1> SUFFICES ASSUME Init PROVE TypeOK
  OBVIOUS
<1>1. disk \in [Generation -> File] /\ cache \in [versions : Points, checkpoint : Points]
  BY NoPanesType, MissingType DEF Init
<1>2. said \in [point : [Generation -> Points], tried : [Generation -> Points],
                dead : SUBSET Grave, revived : SUBSET Grave, resolved : SUBSET Generation]
  <2>1. [g \in Generation |-> NoPanes] \in [Generation -> Points]
    BY NoPanesType
  <2> QED BY <2>1 DEF Init
<1>3. faults \in [count : Nat, spoilt : BOOLEAN, astray : BOOLEAN]
  BY DEF Init
<1> QED BY <1>1, <1>2, <1>3 DEF Init, TypeOK

(* Lines appended to the running file keep its last line's state.          *)
LEMMA LineTypes ==
  ASSUME TypeOK, alive
  PROVE  /\ cur \in Generation /\ disk[cur] \in File
         /\ \A p \in Pane, v \in {0} \cup Version :
              LET f == WithPane(disk[cur], p, v) IN f \in File /\ f.tail = disk[cur].tail
         /\ \A ids : LET f == WithCheckpoint(disk[cur], ids) IN f \in File /\ f.tail = disk[cur].tail
         /\ \A g \in Grave : LET f == WithGrave(disk[cur], g) IN f \in File /\ f.tail = disk[cur].tail
         /\ \A g \in Grave : LET f == WithRevival(disk[cur], g) IN f \in File /\ f.tail = disk[cur].tail
         /\ \A src \in Generation :
              LET f == WithResolution(disk[cur], src) IN f \in File /\ f.tail = disk[cur].tail
<1>1. cur \in Generation /\ disk[cur] \in File
  BY DEF TypeOK
<1>2. \A p \in Pane, v \in {0} \cup Version : WithPane(disk[cur], p, v).tail = disk[cur].tail
  BY <1>1 DEF WithPane, File
<1>3. \A ids : WithCheckpoint(disk[cur], ids).tail = disk[cur].tail
  BY <1>1 DEF WithCheckpoint, File
<1>4. \A g : /\ WithGrave(disk[cur], g).tail = disk[cur].tail
             /\ WithRevival(disk[cur], g).tail = disk[cur].tail
             /\ WithResolution(disk[cur], g).tail = disk[cur].tail
  BY <1>1 DEF WithGrave, WithRevival, WithResolution, File
<1> QED BY <1>1, <1>2, <1>3, <1>4, FileTypes

(* A fault is counted, and what it spoils stays spoilt.                    *)
LEMMA FaultType ==
  ASSUME TypeOK, NEW kind, Fault(kind)
  PROVE  /\ faults' \in [count : Nat, spoilt : BOOLEAN, astray : BOOLEAN]
         /\ kind \in Faults
         /\ Unspoilt' => Unspoilt /\ kind \notin {"torn", "reopen"}
         /\ ~faults'.astray => ~faults.astray /\ ~(kind = "sync" /\ writer.op = "checkpoint")
<1>1. faults \in [count : Nat, spoilt : BOOLEAN, astray : BOOLEAN]
  BY DEF TypeOK
<1> DEFINE spoils == faults.spoilt \/ kind \in {"torn", "reopen"}
           strays == faults.astray \/ (kind = "sync" /\ writer.op = "checkpoint")
<1>2. faults' = [count |-> faults.count + 1, spoilt |-> spoils, astray |-> strays]
  BY DEF Fault
<1>3. faults.count + 1 \in Nat /\ spoils \in BOOLEAN /\ strays \in BOOLEAN
  BY <1>1
<1>4. faults'.spoilt = spoils /\ faults'.astray = strays
  BY <1>2
<1>5. faults' \in [count : Nat, spoilt : BOOLEAN, astray : BOOLEAN]
  <2> HIDE DEF spoils, strays
  <2> QED BY <1>2, <1>3
<1>6. kind \in Faults
  BY DEF Fault
<1>7. Unspoilt' => Unspoilt /\ kind \notin {"torn", "reopen"}
  BY <1>4, Zenon DEF Unspoilt
<1>8. ~faults'.astray => ~faults.astray /\ ~(kind = "sync" /\ writer.op = "checkpoint")
  BY <1>4, Zenon
<1> QED BY <1>5, <1>6, <1>7, <1>8

(* Opening a generation's file leaves the others.                          *)
LEMMA OpenType ==
  ASSUME TypeOK, NEW g \in Generation, OpenGeneration(g)
  PROVE  /\ disk' = [disk EXCEPT ![g] = Repair(@)]
         /\ Repair(disk[g]) \in File /\ Repair(disk[g]).tail # "none"
         /\ disk' \in [Generation -> File]
         /\ \A x \in Generation : Exists(x) => Exists(x)'
         /\ alive' \in BOOLEAN
         /\ cur' \in {cur, g}
         /\ cache' \in [versions : Points, checkpoint : Points]
         /\ unlinked' \in BOOLEAN
         /\ \/ alive' /\ cur' = g
            \/ UNCHANGED <<alive, cur>>
<1>1. Repair(disk[g]) \in File /\ Repair(disk[g]).tail # "none"
  <2>1. disk[g] \in File
    BY DEF TypeOK
  <2>2. Repair(disk[g]).tail # "none"
    BY <2>1 DEF Repair, File
  <2> QED BY <2>1, <2>2, FileTypes
<1>2. /\ Repair(disk[g]).versions \in Points
      /\ Repair(disk[g]).checkpoint \in Points
  BY <1>1 DEF File
<1>3. disk' = [disk EXCEPT ![g] = Repair(@)]
  BY DEF OpenGeneration
<1>4. disk' \in [Generation -> File] /\ \A x \in Generation : Exists(x) => Exists(x)'
  BY <1>1, <1>3 DEF TypeOK, Exists
<1>5. /\ alive' \in BOOLEAN
      /\ cur' \in {cur, g}
      /\ cache' \in [versions : Points, checkpoint : Points]
      /\ unlinked' \in BOOLEAN
      /\ (alive' /\ cur' = g) \/ UNCHANGED <<alive, cur>>
  <2>1. CASE Readable(Repair(disk[g]))
    <3>1. /\ alive' = TRUE /\ cur' = g /\ unlinked' = FALSE
          /\ cache' = [versions |-> Repair(disk[g]).versions,
                       checkpoint |-> Repair(disk[g]).checkpoint]
      BY <2>1 DEF OpenGeneration
    <3> QED BY <1>2, <3>1
  <2>2. CASE ~Readable(Repair(disk[g]))
    <3>1. UNCHANGED <<alive, cur, cache, unlinked>>
      BY <2>2 DEF OpenGeneration
    <3> QED BY <3>1 DEF TypeOK
  <2> QED BY <2>1, <2>2
<1> QED BY <1>1, <1>3, <1>4, <1>5

(* Who holds the lock, by what they do with it.                            *)
LEMMA WriterType ==
  ASSUME TypeOK
  PROVE  /\ Unlocked => alive /\ writer = Free
         /\ writer.op = "checkpoint" =>
              /\ alive
              /\ writer \in [op : {"checkpoint"}, panes : Points, todo : SUBSET Pane]
         /\ writer.op = "compact" =>
              /\ alive
              /\ writer \in [op : {"compact"}, left : SUBSET Generation, keep : SUBSET Grave]
BY DEF TypeOK, Free, Unlocked

LEMMA DropsType ==
  ASSUME TypeOK, NEW g, Drops(g)
  PROVE  /\ faults' \in [count : Nat, spoilt : BOOLEAN, astray : BOOLEAN]
         /\ Unspoilt' = Unspoilt
         /\ ~faults'.astray => ~faults.astray /\ (g = cur => cache.versions = disk[g].checkpoint)
<1> DEFINE strays == faults.astray \/ (g = cur /\ cache.versions # disk[g].checkpoint)
<1>1. faults \in [count : Nat, spoilt : BOOLEAN, astray : BOOLEAN]
  BY DEF TypeOK
<1>2. faults' = [faults EXCEPT !.astray = strays] /\ strays \in BOOLEAN
  BY <1>1 DEF Drops
<1>3. faults'.astray = strays /\ faults'.spoilt = faults.spoilt
  BY <1>1, <1>2
<1>4. faults' \in [count : Nat, spoilt : BOOLEAN, astray : BOOLEAN]
  <2> HIDE DEF strays
  <2> QED BY <1>1, <1>2
<1> QED BY <1>3, <1>4, Zenon DEF Unspoilt

(* The writers: what a step leaves in the files, the cache and the lock.   *)
LEMMA TypeStep == TypeOK /\ [Next]_vars => TypeOK'
<1> SUFFICES ASSUME TypeOK, [Next]_vars PROVE TypeOK'
  OBVIOUS
<1>1. CASE UNCHANGED vars
  BY <1>1 DEF vars, TypeOK, Exists
<1>2. ASSUME NEW g \in Generation, Start(g) \/ SwitchGeneration(g) PROVE TypeOK'
  <2>1. OpenGeneration(g) /\ UNCHANGED <<writer, reader, said, faults, crashes, backups>>
    BY <1>2 DEF Start, SwitchGeneration
  <2>2. writer = Free
    BY <1>2 DEF Start, SwitchGeneration, Unlocked, TypeOK
  <2>3. cur' \in {0} \cup Generation
    BY <2>1, OpenType DEF TypeOK
  <2>4. alive' => cur' # 0 /\ Exists(cur)'
    <3>1. CASE alive' /\ cur' = g
      BY <3>1, <2>1, OpenType, JournalAssumption DEF JournalAssumption, Exists, TypeOK
    <3>2. CASE UNCHANGED <<alive, cur>>
      BY <3>2, <2>1, OpenType DEF TypeOK
    <3> QED BY <2>1, <3>1, <3>2, OpenType
  <2> QED BY <2>1, <2>2, <2>3, <2>4, OpenType DEF TypeOK
<1>3. CASE Crash
  <2>1. UNCHANGED <<disk, cur, said, faults, backups>> /\ crashes' = crashes + 1
    BY <1>3 DEF Crash
  <2>2. alive' = FALSE /\ unlinked' = FALSE /\ writer' = Free /\ reader' = Quiet
    BY <1>3 DEF Crash
  <2>3. cache' \in [versions : Points, checkpoint : Points]
    BY <1>3, NoPanesType DEF Crash
  <2>4. {crashes', backups'} \subseteq Nat
    BY <2>1 DEF TypeOK
  <2>5. /\ alive' \in BOOLEAN /\ unlinked' \in BOOLEAN
        /\ ~alive'
    BY <2>2
  <2>6. /\ disk' \in [Generation -> File] /\ cur' \in {0} \cup Generation
        /\ said' \in [point : [Generation -> Points], tried : [Generation -> Points],
                      dead : SUBSET Grave, revived : SUBSET Grave,
                      resolved : SUBSET Generation]
        /\ faults' \in [count : Nat, spoilt : BOOLEAN, astray : BOOLEAN]
    BY <2>1 DEF TypeOK
  <2> QED BY <2>2, <2>3, <2>4, <2>5, <2>6 DEF TypeOK
<1>4. CASE CheckpointUnchanged
  BY <1>4 DEF CheckpointUnchanged, TypeOK, Exists, Unlocked
<1>5. ASSUME NEW panes \in Points, Checkpoint(panes) PROVE TypeOK'
  BY <1>5 DEF Checkpoint, TypeOK, Exists, Unlocked, Ids
<1>6. ASSUME NEW p \in Pane, AppendPane(p) PROVE TypeOK'
  <2>1. alive /\ writer \in [op : {"checkpoint"}, panes : Points, todo : SUBSET Pane]
    BY <1>6, WriterType DEF AppendPane
  <2>2. writer.panes[p] \in {0} \cup Version
    BY <2>1 DEF Points
  <2>3. disk' \in [Generation -> File] /\ disk'[cur].tail # "none" /\ cur \in Generation
    BY <1>6, <2>1, <2>2, WriteType, LineTypes DEF AppendPane
  <2>4. writer' \in [op : {"checkpoint"}, panes : Points, todo : SUBSET Pane]
    BY <1>6, <2>1 DEF AppendPane
  <2>5. cache' \in [versions : Points, checkpoint : Points]
    BY <1>6, <2>2 DEF AppendPane, TypeOK, Points
  <2> QED BY <1>6, <2>1, <2>3, <2>4, <2>5 DEF AppendPane, TypeOK, Exists
<1>7. CASE AppendCheckpoint
  <2>1. alive /\ writer \in [op : {"checkpoint"}, panes : Points, todo : SUBSET Pane]
    BY <1>7, WriterType DEF AppendCheckpoint
  <2>2. disk' \in [Generation -> File] /\ disk'[cur].tail # "none" /\ cur \in Generation
    BY <1>7, <2>1, WriteType, LineTypes DEF AppendCheckpoint
  <2>3. cache' \in [versions : Points, checkpoint : Points]
    BY <1>7, <2>1 DEF AppendCheckpoint, TypeOK, Points
  <2>4. said' \in [point : [Generation -> Points], tried : [Generation -> Points],
                   dead : SUBSET Grave, revived : SUBSET Grave,
                   resolved : SUBSET Generation]
    BY <1>7, <2>1 DEF AppendCheckpoint, TypeOK
  <2> QED BY <1>7, <2>1, <2>2, <2>3, <2>4 DEF AppendCheckpoint, TypeOK, Exists
<1>8. CASE CheckpointFails
  <2>1. alive
    BY <1>8, WriterType DEF CheckpointFails
  <2>2. disk' \in [Generation -> File] /\ disk'[cur].tail # "none" /\ cur \in Generation
    <3>1. CASE UNCHANGED disk
      BY <2>1, <3>1 DEF TypeOK, Exists
    <3>2. CASE WriteTorn
      BY <2>1, <3>2, WriteType DEF TypeOK
    <3> QED BY <1>8, <3>1, <3>2 DEF CheckpointFails
  <2>3. faults' \in [count : Nat, spoilt : BOOLEAN, astray : BOOLEAN]
    BY <1>8, FaultType DEF CheckpointFails
  <2> QED BY <1>8, <2>1, <2>2, <2>3 DEF CheckpointFails, TypeOK, Exists
<1>9. CASE CheckpointSyncFails
  <2>1. alive
    BY <1>9, WriterType DEF CheckpointSyncFails
  <2>2. disk' \in [Generation -> File] /\ disk'[cur].tail # "none" /\ cur \in Generation
    BY <1>9, <2>1, WriteType, LineTypes DEF CheckpointSyncFails
  <2>3. faults' \in [count : Nat, spoilt : BOOLEAN, astray : BOOLEAN]
    BY <1>9, FaultType DEF CheckpointSyncFails
  <2> QED BY <1>9, <2>1, <2>2, <2>3 DEF CheckpointSyncFails, TypeOK, Exists
<1>10. ASSUME NEW g \in Grave, RecordDestroyed(g) \/ RecordRevived(g) PROVE TypeOK'
  BY <1>10, WriteType, LineTypes, FaultType
     DEF RecordDestroyed, RecordRevived, Record, TypeOK, Exists, Unlocked
<1>11. ASSUME NEW src \in Generation, ResolveRestore(src) PROVE TypeOK'
  BY <1>11, WriteType, LineTypes, FaultType DEF ResolveRestore, Record, TypeOK, Exists, Unlocked
<1>12. CASE RecordTears
  BY <1>12, WriteType, LineTypes, FaultType DEF RecordTears, TypeOK, Exists, Unlocked
<1>13. CASE Compact
  BY <1>13 DEF Compact, Kept, Graves, File, TypeOK, Exists, Unlocked
<1>14. ASSUME NEW g \in Generation, CompactFile(g) PROVE TypeOK'
  <2>1. alive /\ writer \in [op : {"compact"}, left : SUBSET Generation, keep : SUBSET Grave]
    BY <1>14, WriterType DEF CompactFile
  <2>2. /\ disk' = [disk EXCEPT ![g] = Compacted(@, writer.keep)]
        /\ Compacted(disk[g], writer.keep) \in File
        /\ Compacted(disk[g], writer.keep).tail # "none"
    <3>1. disk[g] \in File
      BY DEF TypeOK
    <3>2. Compacted(disk[g], writer.keep).tail # "none"
      BY <3>1 DEF Compacted, File
    <3> QED BY <1>14, <3>1, <3>2, FileTypes DEF CompactFile
  <2>3. disk' \in [Generation -> File] /\ \A x \in Generation : Exists(x) => Exists(x)'
    BY <2>2 DEF TypeOK, Exists
  <2>4. writer' \in [op : {"compact"}, left : SUBSET Generation, keep : SUBSET Grave]
    BY <1>14, <2>1 DEF CompactFile
  <2>5. unlinked' \in BOOLEAN
    BY <1>14 DEF CompactFile
  <2>6. faults' \in [count : Nat, spoilt : BOOLEAN, astray : BOOLEAN]
    BY <1>14, DropsType DEF CompactFile
  <2>7. UNCHANGED <<alive, cur, cache, reader, said, crashes, backups>>
    BY <1>14 DEF CompactFile
  <2> QED BY <2>1, <2>3, <2>4, <2>5, <2>6, <2>7 DEF TypeOK
<1>15. CASE CompactEnd
  BY <1>15 DEF CompactEnd, TypeOK, Exists
<1>16. CASE CompactFails
  BY <1>16, FaultType DEF CompactFails, TypeOK, Exists
<1>17. CASE ReadBegin
  BY <1>17 DEF ReadBegin, TypeOK, Exists, Unlocked
<1>18. CASE ReadDirectory
  BY <1>18, MissingType DEF ReadDirectory, TypeOK, Exists, Quiet
<1>19. ASSUME NEW g \in Generation, ReadFile(g) PROVE TypeOK'
  BY <1>19 DEF ReadFile, TypeOK, Exists, Quiet
<1>20. CASE ReadEnd
  BY <1>20 DEF ReadEnd, TypeOK, Exists
<1> QED
  BY <1>1, <1>2, <1>3, <1>4, <1>5, <1>6, <1>7, <1>8, <1>9, <1>10, <1>11, <1>12,
     <1>13, <1>14, <1>15, <1>16, <1>17, <1>18, <1>19, <1>20 DEF Next

(* The type of every variable, and that only a running daemon, whose file  *)
(* is there, holds the lock.                                               *)
THEOREM TypeCorrect == Spec => []TypeOK
<1>1. Init => TypeOK
  BY TypeInit
<1>2. TypeOK /\ [Next]_vars => TypeOK'
  BY TypeStep
<1> QED BY <1>1, <1>2, PTL DEF Spec

-----------------------------------------------------------------------------
(* What a step does to the entries of the files.                           *)

(* The last lines apart, the files say what they said.                     *)
SameLines ==
  \A g \in Generation :
    /\ disk'[g].versions = disk[g].versions
    /\ disk'[g].checkpoint = disk[g].checkpoint
    /\ disk'[g].has_checkpoint = disk[g].has_checkpoint
    /\ disk'[g].graves = disk[g].graves
    /\ disk'[g].revivals = disk[g].revivals
    /\ disk'[g].resolved = disk[g].resolved

SameEntries ==
  \A g \in Generation :
    /\ disk'[g].graves = disk[g].graves
    /\ disk'[g].revivals = disk[g].revivals
    /\ disk'[g].resolved = disk[g].resolved

LEMMA SameTogether ==
  ASSUME SameEntries
  PROVE  Graves' = Graves /\ Revivals' = Revivals /\ Resolutions' = Resolutions
BY DEF SameEntries, Graves, Revivals, Resolutions

LEMMA WriteEffect ==
  ASSUME TypeOK, alive, NEW after \in File, after.tail = disk[cur].tail, Write(after)
  PROVE  \/ ~unlinked /\ disk[cur].tail = "clean" /\ disk' = [disk EXCEPT ![cur] = after]
         \/ (unlinked \/ disk[cur].tail # "clean") /\ SameLines
<1>1. cur \in Generation /\ disk \in [Generation -> File] /\ disk[cur] \in File
  BY DEF TypeOK
<1>2. CASE unlinked
  BY <1>2 DEF Write, SameLines
<1>3. CASE ~unlinked /\ disk[cur].tail = "clean"
  <2>1. Append(disk[cur], after) = after
    BY <1>1, <1>3, AppendEffect
  <2> QED BY <1>3, <2>1 DEF Write
<1>4. CASE ~unlinked /\ disk[cur].tail # "clean"
  <2>1. PICK t : Append(disk[cur], after) = [disk[cur] EXCEPT !.tail = t]
    BY <1>1, <1>4, AppendEffect
  <2>2. disk' = [disk EXCEPT ![cur] = [disk[cur] EXCEPT !.tail = t]]
    BY <1>4, <2>1 DEF Write
  <2>3. SameLines
    BY <1>1, <2>2 DEF SameLines, File
  <2> QED BY <1>4, <2>3
<1> QED BY <1>2, <1>3, <1>4

LEMMA TearEffect ==
  ASSUME TypeOK, alive, WriteTorn
  PROVE  SameLines
<1>1. cur \in Generation /\ disk \in [Generation -> File] /\ disk[cur] \in File
  BY DEF TypeOK
<1>2. \E t : Tear(disk[cur]) = [disk[cur] EXCEPT !.tail = t]
  BY <1>1 DEF Tear, File
<1>3. PICK t : Tear(disk[cur]) = [disk[cur] EXCEPT !.tail = t]
  BY <1>2
<1>4. disk' = disk \/ disk' = [disk EXCEPT ![cur] = [disk[cur] EXCEPT !.tail = t]]
  BY <1>3 DEF WriteTorn
<1> QED BY <1>1, <1>4 DEF SameLines, File

LEMMA OpenEffect ==
  ASSUME TypeOK, NEW g \in Generation, OpenGeneration(g)
  PROVE  SameLines
<1>1. disk \in [Generation -> File] /\ disk[g] \in File
  BY DEF TypeOK
<1>2. \E t : Repair(disk[g]) = [disk[g] EXCEPT !.tail = t]
  BY <1>1 DEF Repair, File
<1>3. PICK t : Repair(disk[g]) = [disk[g] EXCEPT !.tail = t]
  BY <1>2
<1>4. disk' = [disk EXCEPT ![g] = [disk[g] EXCEPT !.tail = t]]
  BY <1>3, OpenType
<1> QED BY <1>1, <1>4 DEF SameLines, File

(* Entries, and what callers were told, change by Record and compaction.   *)
Steady ==
  /\ SameEntries
  /\ said'.dead = said.dead /\ said'.revived = said.revived
  /\ said'.resolved = said.resolved
  /\ writer'.op = "compact" => writer' = writer

LEMMA EntrySteps ==
  ASSUME TypeOK, [Next]_vars
  PROVE  \/ Steady
         \/ Compact
         \/ \E g \in Generation : CompactFile(g) \/ ResolveRestore(g)
         \/ \E g \in Grave : RecordDestroyed(g) \/ RecordRevived(g)
<1>1. SameLines => SameEntries
  BY DEF SameLines, SameEntries
<1>2. UNCHANGED disk => SameEntries
  BY DEF SameEntries
<1>3. CASE UNCHANGED vars
  BY <1>2, <1>3 DEF vars, Steady
<1>4. ASSUME NEW g \in Generation, Start(g) \/ SwitchGeneration(g) PROVE Steady
  BY <1>1, <1>4, OpenEffect DEF Start, SwitchGeneration, Steady
<1>5. CASE Crash
  BY <1>2, <1>5 DEF Crash, Steady, Free
<1>6. CASE CheckpointUnchanged
  BY <1>2, <1>6 DEF CheckpointUnchanged, Steady, TypeOK
<1>7. ASSUME NEW panes \in Points, Checkpoint(panes) PROVE Steady
  BY <1>2, <1>7 DEF Checkpoint, Steady, TypeOK
<1>8. ASSUME NEW p \in Pane, AppendPane(p) PROVE Steady
  <2>1. alive /\ writer \in [op : {"checkpoint"}, panes : Points, todo : SUBSET Pane]
    BY <1>8, WriterType DEF AppendPane
  <2>2. writer.panes[p] \in {0} \cup Version
    BY <2>1 DEF Points
  <2> DEFINE after == WithPane(disk[cur], p, writer.panes[p])
  <2>3. after \in File /\ after.tail = disk[cur].tail /\ cur \in Generation /\ disk[cur] \in File
    BY <2>1, <2>2, LineTypes
  <2>4. Write(after)
    BY <1>8 DEF AppendPane
  <2>5. /\ after.graves = disk[cur].graves /\ after.revivals = disk[cur].revivals
        /\ after.resolved = disk[cur].resolved
    BY <2>3 DEF WithPane, File
  <2>6. SameEntries
    <3> HIDE DEF after
    <3> QED BY <1>1, <2>1, <2>3, <2>4, <2>5, WriteEffect DEF SameEntries, TypeOK
  <2>7. writer'.op # "compact"
    BY <1>8, <2>1 DEF AppendPane
  <2> QED BY <1>8, <2>6, <2>7 DEF AppendPane, Steady
<1>9. ASSUME writer.op = "checkpoint", Write(WithCheckpoint(disk[cur], Ids(writer.panes)))
      PROVE  SameEntries
  <2>1. alive
    BY <1>9, WriterType
  <2> DEFINE after == WithCheckpoint(disk[cur], Ids(writer.panes))
  <2>2. after \in File /\ after.tail = disk[cur].tail /\ cur \in Generation /\ disk[cur] \in File
    BY <2>1, LineTypes
  <2>3. /\ after.graves = disk[cur].graves /\ after.revivals = disk[cur].revivals
        /\ after.resolved = disk[cur].resolved
    BY <2>2 DEF WithCheckpoint, File
  <2>4. Write(after)
    BY <1>9
  <2> HIDE DEF after
  <2> QED BY <1>1, <2>1, <2>2, <2>3, <2>4, WriteEffect DEF SameEntries, TypeOK
<1>10. CASE AppendCheckpoint
  BY <1>9, <1>10 DEF AppendCheckpoint, Steady, Free, TypeOK
<1>11. CASE CheckpointFails
  <2>1. alive
    BY <1>11, WriterType DEF CheckpointFails
  <2> QED BY <1>1, <1>2, <1>11, <2>1, TearEffect DEF CheckpointFails, Steady, Free
<1>12. CASE CheckpointSyncFails
  BY <1>9, <1>12 DEF CheckpointSyncFails, Steady, Free
<1>13. CASE RecordTears
  BY <1>1, <1>13, TearEffect DEF RecordTears, Steady, Unlocked
<1>14. CASE CompactEnd \/ CompactFails
  BY <1>2, <1>14 DEF CompactEnd, CompactFails, Steady, Free
<1>15. CASE ReadBegin \/ ReadDirectory \/ ReadEnd
  BY <1>2, <1>15 DEF ReadBegin, ReadDirectory, ReadEnd, Steady
<1>16. ASSUME NEW g \in Generation, ReadFile(g) PROVE Steady
  BY <1>2, <1>16 DEF ReadFile, Steady
<1> QED BY <1>3, <1>4, <1>5, <1>6, <1>7, <1>8, <1>10, <1>11, <1>12, <1>13, <1>14, <1>15,
           <1>16 DEF Next

-----------------------------------------------------------------------------
(* Sound is inductive.                                                     *)

LEMMA SoundInit == Init => Sound
<1> SUFFICES ASSUME Init PROVE Sound
  OBVIOUS
<1>1. \A g \in Generation : disk[g] = Missing
  BY DEF Init
<1>2. Graves = {} /\ Revivals = {}
  BY <1>1 DEF Graves, Revivals, Missing
<1>3. said.dead = {} /\ said.revived = {} /\ writer.op = "free"
  BY DEF Init, Free
<1>4. GravesFinite
  BY <1>2, <1>3, FS_EmptySet DEF GravesFinite
<1>5. FilesOpened
  <2>1. \A g \in Generation : ~Exists(g)
    BY <1>1 DEF Missing, Exists
  <2> QED BY <1>1, <1>3, <2>1 DEF FilesOpened
<1>6. GravesInOneFile /\ RevivalsFollow
  BY <1>1 DEF GravesInOneFile, RevivalsFollow, Missing
<1>7. RevivalsTold /\ Compacting
  BY <1>2, <1>3 DEF RevivalsTold, Compacting
<1> QED BY <1>4, <1>5, <1>6, <1>7, TypeInit DEF Sound

(* Only opening a generation makes a file that was not there.              *)
LEMMA OtherFilesStay ==
  ASSUME TypeOK, [Next]_vars, \A g \in Generation : ~(Start(g) \/ SwitchGeneration(g) \/ CompactFile(g))
  PROVE  /\ cur' = cur
         /\ \A x \in Generation : x # cur => disk'[x] = disk[x]
         /\ alive' \/ disk' = disk
<1>1. CASE UNCHANGED vars
  BY <1>1 DEF vars
<1>2. ASSUME NEW panes \in Points, Checkpoint(panes)
      PROVE  UNCHANGED <<cur, disk>>
  BY <1>2 DEF Checkpoint
<1>3. CASE \/ Crash \/ CheckpointUnchanged \/ Compact \/ CompactEnd \/ CompactFails
           \/ ReadBegin \/ ReadDirectory \/ ReadEnd
  BY <1>3 DEF Crash, CheckpointUnchanged, Compact, CompactEnd, CompactFails, ReadBegin,
     ReadDirectory, ReadEnd
<1>4. ASSUME NEW g \in Generation, ReadFile(g) PROVE UNCHANGED <<cur, disk>>
  BY <1>4 DEF ReadFile
<1>5. ASSUME NEW after, Write(after) \/ WriteTorn
      PROVE  \A x \in Generation : x # cur => disk'[x] = disk[x]
  BY <1>5 DEF Write, WriteTorn, TypeOK
<1>6. writer.op = "checkpoint" \/ Unlocked => alive
  BY WriterType
<1>7. ASSUME NEW p \in Pane, AppendPane(p)
      PROVE  cur' = cur /\ alive' /\ \A x \in Generation : x # cur => disk'[x] = disk[x]
  BY <1>5, <1>6, <1>7 DEF AppendPane
<1>8. CASE AppendCheckpoint \/ CheckpointFails \/ CheckpointSyncFails \/ RecordTears
  BY <1>5, <1>6, <1>8 DEF AppendCheckpoint, CheckpointFails, CheckpointSyncFails, RecordTears
<1>9. ASSUME NEW g, RecordDestroyed(g) \/ RecordRevived(g) \/ ResolveRestore(g)
      PROVE  cur' = cur /\ alive' /\ \A x \in Generation : x # cur => disk'[x] = disk[x]
  BY <1>5, <1>6, <1>9 DEF RecordDestroyed, RecordRevived, ResolveRestore, Record
<1> QED BY <1>1, <1>2, <1>3, <1>4, <1>7, <1>8, <1>9 DEF Next

LEMMA FilesOpenedStep ==
  ASSUME Sound, [Next]_vars
  PROVE  FilesOpened'
<1>0. TypeOK /\ FilesOpened /\ TypeOK'
  BY TypeStep DEF Sound
<1>1. Generation \subseteq Nat \ {0} /\ cur \in Nat /\ cur' \in Nat
  BY <1>0, JournalAssumption DEF JournalAssumption, TypeOK
<1>2. ASSUME NEW g \in Generation, g >= cur, OpenGeneration(g), writer = Free, writer' = writer
      PROVE  FilesOpened'
  <2>1. disk' = [disk EXCEPT ![g] = Repair(@)] /\ disk[g] \in File
    BY <1>0, <1>2, OpenType DEF TypeOK
  <2>2. cur' = g \/ (cur' = cur /\ Exists(g))
    <3>1. CASE Readable(Repair(disk[g]))
      BY <1>2, <3>1 DEF OpenGeneration
    <3>2. CASE ~Readable(Repair(disk[g]))
      BY <1>2, <2>1, <3>2 DEF OpenGeneration, Readable, Repair, Exists, File
    <3> QED BY <3>1, <3>2
  <2>3. \A x \in Generation : x # g => disk'[x] = disk[x]
    BY <1>0, <2>1 DEF TypeOK
  <2>4. ASSUME NEW x \in Generation
        PROVE  IF Exists(x)' THEN x <= cur' ELSE disk'[x] = Missing
    <3>1. CASE x = g
      <4>1. Exists(g)'
        BY <1>0, <1>2, OpenType DEF Exists, TypeOK
      <4>2. g <= cur'
        BY <1>0, <1>1, <2>2 DEF FilesOpened
      <4> QED BY <3>1, <4>1, <4>2
    <3>2. CASE x # g
      BY <1>0, <1>1, <1>2, <2>2, <2>3, <3>2 DEF FilesOpened, Exists
    <3> QED BY <3>1, <3>2
  <2>5. writer'.op # "compact"
    BY <1>2 DEF Free
  <2> QED BY <2>4, <2>5 DEF FilesOpened
<1>3. ASSUME NEW g \in Generation, Start(g) \/ SwitchGeneration(g)
      PROVE  FilesOpened'
  <2>1. g >= cur /\ OpenGeneration(g) /\ writer' = writer
    BY <1>1, <1>3 DEF Start, SwitchGeneration
  <2>2. writer = Free
    BY <1>0, <1>3, WriterType DEF Start, SwitchGeneration, TypeOK
  <2> QED BY <1>2, <2>1, <2>2
<1>4. ASSUME NEW g \in Generation, CompactFile(g)
      PROVE  FilesOpened'
  <2>1. writer \in [op : {"compact"}, left : SUBSET Generation, keep : SUBSET Grave]
    BY <1>0, <1>4, WriterType DEF CompactFile
  <2>2. /\ cur' = cur /\ g <= cur
        /\ writer'.left \subseteq writer.left
        /\ \A x \in Generation : x # g => disk'[x] = disk[x]
    BY <1>0, <1>4, <2>1 DEF CompactFile, FilesOpened, TypeOK
  <2>3. Exists(g)'
    BY <1>0, <1>4 DEF CompactFile, Compacted, Exists, TypeOK, File
  <2> QED BY <1>0, <1>4, <2>1, <2>2, <2>3 DEF FilesOpened, Exists, CompactFile
<1>5. ASSUME \A g \in Generation : ~(Start(g) \/ SwitchGeneration(g) \/ CompactFile(g))
      PROVE  FilesOpened'
  <2>1. /\ cur' = cur
        /\ \A x \in Generation : x # cur => disk'[x] = disk[x]
        /\ alive' \/ disk' = disk
    BY <1>0, <1>5, OtherFilesStay
  <2>2. ASSUME writer'.op = "compact"
        PROVE  writer' = writer \/ writer'.left = {x \in Generation : Exists(x)}
    BY <1>0, <1>5, <2>2, EntrySteps DEF Steady, Compact, RecordDestroyed, RecordRevived,
       ResolveRestore, Record
  <2>3. ASSUME NEW x \in Generation
        PROVE  IF Exists(x)' THEN x <= cur' ELSE disk'[x] = Missing
    <3>1. CASE x # cur
      BY <1>0, <2>1, <3>1 DEF FilesOpened, Exists
    <3>2. CASE x = cur /\ Exists(x)'
      BY <1>1, <2>1, <3>2
    <3>3. CASE x = cur /\ ~Exists(x)'
      BY <1>0, <2>1, <3>3 DEF FilesOpened, Exists, TypeOK
    <3> QED BY <3>1, <3>2, <3>3
  <2>4. writer'.op = "compact" => \A x \in writer'.left : x <= cur'
    BY <1>0, <2>1, <2>2 DEF FilesOpened
  <2> QED BY <2>3, <2>4 DEF FilesOpened
<1> QED BY <1>3, <1>4, <1>5

(* Graves, their files and their marks: what a lemma for each kind of step *)
(* shows.                                                                  *)
EntriesHold == GravesInOneFile /\ RevivalsFollow /\ RevivalsTold /\ GravesFinite /\ Compacting

LEMMA GravesType == TypeOK => Graves \subseteq Grave /\ Graves \in SUBSET Nat
<1> SUFFICES ASSUME TypeOK PROVE Graves \subseteq Grave
  BY JournalAssumption DEF JournalAssumption
<1>1. \A g \in Generation : disk[g].graves \subseteq Grave
  BY DEF TypeOK, File
<1> QED BY <1>1 DEF Graves

LEMMA EntriesSteady ==
  ASSUME Sound, Steady
  PROVE  EntriesHold'
<1>1. Graves' = Graves /\ Revivals' = Revivals
  BY SameTogether DEF Steady
<1>2. \A x \in Generation : disk'[x].graves = disk[x].graves /\ disk'[x].revivals = disk[x].revivals
  BY DEF Steady, SameEntries
<1>3. GravesInOneFile' /\ RevivalsFollow'
  BY <1>2 DEF Sound, GravesInOneFile, RevivalsFollow
<1>4. RevivalsTold' /\ GravesFinite'
  BY <1>1 DEF Sound, Steady, RevivalsTold, GravesFinite
<1>5. Compacting'
  BY <1>1, <1>2 DEF Sound, Steady, Compacting
<1> QED BY <1>3, <1>4, <1>5 DEF EntriesHold

LEMMA EntriesCompact ==
  ASSUME Sound, Compact
  PROVE  EntriesHold'
<1>0. disk' = disk /\ said' = said /\ writer' = [op |-> "compact", left |-> {g \in Generation : Exists(g)}, keep |-> Kept]
  BY DEF Compact
<1>1. Graves' = Graves /\ Revivals' = Revivals
  BY <1>0 DEF Graves, Revivals
<1>2. GravesInOneFile' /\ RevivalsFollow' /\ RevivalsTold' /\ GravesFinite'
  BY <1>0, <1>1 DEF Sound, GravesInOneFile, RevivalsFollow, RevivalsTold, GravesFinite
<1>3. writer'.keep = Kept /\ writer'.left = {g \in Generation : Exists(g)} /\ Kept \subseteq Graves
  BY <1>0 DEF Kept
<1>4. \A x \in Generation \ writer'.left : disk'[x].graves \subseteq writer'.keep
  BY <1>0, <1>3 DEF Sound, FilesOpened, Missing
<1>5. ASSUME NEW g \in Graves \ Kept
      PROVE  Cardinality(Newer(Kept, g)) >= MaxEntries
  <2>1. Graves \in SUBSET Nat /\ IsFiniteSet(Graves) /\ MaxEntries \in Nat
    BY JournalAssumption, GravesType DEF JournalAssumption, Sound, GravesFinite
  <2>2. Kept = {k \in Graves : Cardinality(Newer(Graves, k)) < MaxEntries}
    BY DEF Kept, Newer
  <2>3. IsFiniteSet(Newer(Graves, g))
    BY <2>1, FS_Subset DEF Newer
  <2>4. Cardinality(Newer(Graves, g)) >= MaxEntries
    BY <2>1, <2>2, <2>3, <1>5, FS_CardinalityType
  <2> QED BY <2>1, <2>2, <2>4, <1>5, NewestAreKept
<1>6. Compacting'
  BY <1>1, <1>3, <1>4, <1>5 DEF Compacting
<1> QED BY <1>2, <1>6 DEF EntriesHold

LEMMA CompactedKeeps ==
  ASSUME NEW f \in File, NEW keep
  PROVE  /\ Compacted(f, keep).versions = f.checkpoint
         /\ Compacted(f, keep).checkpoint = f.checkpoint
         /\ Compacted(f, keep).has_checkpoint = f.has_checkpoint
         /\ Compacted(f, keep).graves = f.graves \cap keep
         /\ Compacted(f, keep).revivals = f.revivals \cap keep
         /\ Compacted(f, keep).resolved = f.resolved
         /\ Compacted(f, keep).tail = "clean"
BY DEF Compacted, File

(* What compaction does to one file, and to the graves and marks of all.   *)
LEMMA CompactFileEffect ==
  ASSUME Sound, NEW x \in Generation, CompactFile(x)
  PROVE  LET keep == writer.keep IN
         /\ writer \in [op : {"compact"}, left : SUBSET Generation, keep : SUBSET Grave]
         /\ writer' \in [op : {"compact"}, left : SUBSET Generation, keep : SUBSET Grave]
         /\ keep \subseteq Graves /\ writer'.keep = keep /\ writer'.left = writer.left \ {x}
         /\ \A y \in Generation : y # x => disk'[y] = disk[y]
         /\ disk'[x] = Compacted(disk[x], keep)
         /\ disk'[x].graves = disk[x].graves \cap keep
         /\ disk'[x].revivals = disk[x].revivals \cap keep
         /\ disk'[x].resolved = disk[x].resolved
         /\ disk'[x].checkpoint = disk[x].checkpoint
         /\ disk'[x].has_checkpoint = disk[x].has_checkpoint
         /\ Graves' = Graves \ (disk[x].graves \ keep)
         /\ Revivals' \cap Graves' = (Revivals \cap Graves) \ (disk[x].graves \ keep)
         /\ Revivals' \subseteq Revivals /\ Resolutions' = Resolutions
<1> DEFINE keep == writer.keep
<1>1. TypeOK /\ GravesInOneFile /\ RevivalsFollow /\ Compacting
  BY DEF Sound
<1>2. writer \in [op : {"compact"}, left : SUBSET Generation, keep : SUBSET Grave]
  BY <1>1, WriterType DEF CompactFile
<1>3. /\ writer' \in [op : {"compact"}, left : SUBSET Generation, keep : SUBSET Grave]
      /\ writer'.keep = keep /\ writer'.left = writer.left \ {x}
  BY <1>2 DEF CompactFile
<1>4. keep \subseteq Graves
  BY <1>1 DEF Compacting, CompactFile
<1>5. disk' = [disk EXCEPT ![x] = Compacted(@, keep)] /\ disk[x] \in File
  BY <1>1 DEF CompactFile, TypeOK
<1>6. (\A y \in Generation : y # x => disk'[y] = disk[y]) /\ disk'[x] = Compacted(disk[x], keep)
  BY <1>1, <1>5 DEF TypeOK
<1>7. /\ disk'[x].graves = disk[x].graves \cap keep
      /\ disk'[x].revivals = disk[x].revivals \cap keep
      /\ disk'[x].resolved = disk[x].resolved
      /\ disk'[x].checkpoint = disk[x].checkpoint
      /\ disk'[x].has_checkpoint = disk[x].has_checkpoint
  BY <1>5, <1>6, CompactedKeeps
<1> HIDE DEF keep
<1>8. Graves' = Graves \ (disk[x].graves \ keep)
  BY <1>1, <1>6, <1>7 DEF Graves, GravesInOneFile
<1>9. Revivals' \subseteq Revivals /\ Resolutions' = Resolutions
  BY <1>6, <1>7 DEF Revivals, Resolutions
<1>10. Revivals' \cap Graves' = (Revivals \cap Graves) \ (disk[x].graves \ keep)
  <2>1. ASSUME NEW g \in Revivals, g \in Graves, g \notin disk[x].graves \ keep
        PROVE  g \in Revivals'
    <3>1. PICK z \in Generation : g \in disk[z].revivals
      BY <2>1 DEF Revivals
    <3>2. PICK y \in Generation : g \in disk[y].graves
      BY <2>1 DEF Graves
    <3>3. CASE z # x
      BY <1>6, <3>1, <3>3 DEF Revivals
    <3>4. CASE z = x
      <4>1. y <= x
        BY <1>1, <3>1, <3>2, <3>4 DEF RevivalsFollow
      <4>2. g \in keep
        <5>1. CASE y = x
          BY <2>1, <3>2, <5>1
        <5>2. CASE y # x
          <6>1. y \notin writer.left
            BY <4>1, <5>2, JournalAssumption DEF CompactFile, JournalAssumption
          <6> QED BY <1>1, <3>2, <6>1 DEF Compacting, CompactFile, keep
        <5> QED BY <5>1, <5>2
      <4> QED BY <1>7, <3>1, <3>4, <4>2 DEF Revivals
    <3> QED BY <3>3, <3>4
  <2> QED BY <1>8, <1>9, <2>1
<1> QED BY <1>2, <1>3, <1>4, <1>6, <1>7, <1>8, <1>9, <1>10 DEF keep

LEMMA EntriesCompactFile ==
  ASSUME Sound, NEW x \in Generation, CompactFile(x)
  PROVE  EntriesHold'
<1> DEFINE keep == writer.keep
<1>0. /\ keep \subseteq Graves /\ writer'.keep = keep /\ writer'.left = writer.left \ {x}
      /\ \A y \in Generation : y # x => disk'[y] = disk[y]
      /\ disk'[x].graves = disk[x].graves \cap keep
      /\ disk'[x].revivals = disk[x].revivals \cap keep
      /\ Graves' = Graves \ (disk[x].graves \ keep)
      /\ Revivals' \subseteq Revivals
  BY CompactFileEffect
<1>1. said' = said /\ writer.op = "compact"
  BY DEF CompactFile
<1>2. GravesInOneFile' /\ RevivalsFollow'
  BY <1>0 DEF Sound, GravesInOneFile, RevivalsFollow
<1>3. RevivalsTold'
  BY <1>0, <1>1 DEF Sound, RevivalsTold
<1>4. GravesFinite'
  BY <1>0, <1>1, FS_Subset DEF Sound, GravesFinite
<1>5. Compacting'
  <2>1. keep \subseteq Graves'
    BY <1>0
  <2>2. \A y \in Generation \ writer'.left : disk'[y].graves \subseteq keep
    BY <1>0, <1>1 DEF Sound, Compacting
  <2>3. \A g \in Graves' \ keep : Cardinality(Newer(keep, g)) >= MaxEntries
    BY <1>0, <1>1 DEF Sound, Compacting
  <2> QED BY <1>0, <2>1, <2>2, <2>3 DEF Compacting
<1> QED BY <1>2, <1>3, <1>4, <1>5 DEF EntriesHold

(* A line about a grave or a restore point, or the one it completes.       *)
LEMMA RecordEffect ==
  ASSUME TypeOK, NEW after \in File, after.tail = disk[cur].tail, NEW told, Record(after, told)
  PROVE  /\ cur \in Generation /\ disk[cur] \in File /\ Unlocked
         /\ UNCHANGED <<alive, cur, cache, unlinked, writer, reader, crashes, backups>>
         /\ \/ ~unlinked /\ disk[cur].tail = "clean" /\ disk' = [disk EXCEPT ![cur] = after]
            \/ (unlinked \/ disk[cur].tail # "clean") /\ SameLines
         /\ said' \in {said, told}
<1>1. alive /\ Write(after)
  BY DEF Record, Unlocked
<1>2. cur \in Generation /\ disk[cur] \in File
  BY <1>1 DEF TypeOK
<1> QED BY <1>1, <1>2, WriteEffect DEF Record

LEMMA EntriesRecord ==
  ASSUME Sound, NEW g \in Grave, RecordDestroyed(g) \/ RecordRevived(g)
  PROVE  EntriesHold'
<1>0. TypeOK /\ GravesInOneFile /\ RevivalsFollow /\ RevivalsTold /\ GravesFinite /\ FilesOpened
  BY DEF Sound
<1>1. Generation \subseteq Nat /\ Grave \subseteq Nat
  BY JournalAssumption DEF JournalAssumption
<1>2. CASE RecordDestroyed(g)
  <2> DEFINE after == WithGrave(disk[cur], g)
  <2>1. alive
    BY <1>2 DEF RecordDestroyed, Record, Unlocked
  <2>2. after \in File /\ after.tail = disk[cur].tail /\ disk[cur] \in File /\ cur \in Generation
    BY <1>0, <2>1, LineTypes
  <2>3. /\ after.graves = disk[cur].graves \cup {g} /\ after.revivals = disk[cur].revivals
    BY <2>2 DEF WithGrave, File
  <2>4. Record(after, [said EXCEPT !.dead = @ \cup {g}])
    BY <1>2 DEF RecordDestroyed
  <2>5. g \notin Graves /\ g \notin said.dead /\ g \notin Revivals
    BY <1>0, <1>1, <1>2 DEF RecordDestroyed, RevivalsTold, TypeOK
  <2> HIDE DEF after
  <2>6. /\ said' \in {said, [said EXCEPT !.dead = @ \cup {g}]} /\ writer' = writer
        /\ Unlocked
        /\ \/ disk' = [disk EXCEPT ![cur] = after]
           \/ SameLines
    BY <1>0, <2>2, <2>4, RecordEffect
  <2>7. /\ said'.revived = said.revived
        /\ said.dead \subseteq said'.dead /\ said'.dead \subseteq said.dead \cup {g}
    BY <1>0, <2>6 DEF TypeOK
  <2>8. \/ /\ \A x \in Generation : x # cur => disk'[x] = disk[x]
           /\ disk'[cur] = after
        \/ SameEntries
    BY <1>0, <2>2, <2>6 DEF TypeOK, SameLines, SameEntries
  <2>9. Graves \subseteq Graves' /\ Graves' \subseteq Graves \cup {g} /\ Revivals' = Revivals
    <3>1. CASE SameEntries
      BY <3>1, SameTogether
    <3>2. CASE disk'[cur] = after /\ \A x \in Generation : x # cur => disk'[x] = disk[x]
      BY <2>2, <2>3, <3>2 DEF Graves, Revivals
    <3> QED BY <2>8, <3>1, <3>2
  <2>10. GravesInOneFile' /\ RevivalsFollow'
    <3>1. CASE SameEntries
      BY <1>0, <3>1 DEF SameEntries, GravesInOneFile, RevivalsFollow
    <3>2. CASE disk'[cur] = after /\ \A x \in Generation : x # cur => disk'[x] = disk[x]
      <4>1. \A x \in Generation : /\ disk'[x].graves \subseteq disk[x].graves \cup (IF x = cur THEN {g} ELSE {})
                                  /\ disk'[x].revivals = disk[x].revivals
                                  /\ g \notin disk[x].graves /\ g \notin disk[x].revivals
        BY <2>2, <2>3, <2>5, <3>2 DEF Graves, Revivals
      <4> QED BY <1>0, <4>1 DEF GravesInOneFile, RevivalsFollow
    <3> QED BY <2>8, <3>1, <3>2
  <2>11. RevivalsTold'
    BY <1>0, <2>7, <2>9 DEF RevivalsTold
  <2>12. GravesFinite'
    <3>1. IsFiniteSet(Graves \cup {g}) /\ IsFiniteSet(said.dead \cup {g})
      BY <1>0, FS_AddElement DEF GravesFinite
    <3> QED BY <2>7, <2>9, <3>1, FS_Subset DEF GravesFinite
  <2>13. Compacting'
    BY <2>6 DEF Compacting, Unlocked
  <2> QED BY <2>10, <2>11, <2>12, <2>13 DEF EntriesHold
<1>3. CASE RecordRevived(g)
  <2> DEFINE after == WithRevival(disk[cur], g)
  <2>1. alive
    BY <1>3 DEF RecordRevived, Record, Unlocked
  <2>2. after \in File /\ after.tail = disk[cur].tail /\ disk[cur] \in File /\ cur \in Generation
    BY <1>0, <2>1, LineTypes
  <2>3. /\ after.graves = disk[cur].graves /\ after.revivals = disk[cur].revivals \cup {g}
    BY <2>2 DEF WithRevival, File
  <2>4. Record(after, [said EXCEPT !.revived = @ \cup {g}]) /\ g \in said.dead
    BY <1>3 DEF RecordRevived
  <2> HIDE DEF after
  <2>6. /\ said' \in {said, [said EXCEPT !.revived = @ \cup {g}]} /\ writer' = writer
        /\ Unlocked
        /\ \/ disk' = [disk EXCEPT ![cur] = after]
           \/ SameLines
    BY <1>0, <2>2, <2>4, RecordEffect
  <2>7. said'.dead = said.dead /\ said'.revived \subseteq said.revived \cup {g}
    BY <1>0, <2>6 DEF TypeOK
  <2>8. \/ /\ \A x \in Generation : x # cur => disk'[x] = disk[x]
           /\ disk'[cur] = after
        \/ SameEntries
    BY <1>0, <2>2, <2>6 DEF TypeOK, SameLines, SameEntries
  <2>9. Graves' = Graves /\ Revivals' \subseteq Revivals \cup {g}
    <3>1. CASE SameEntries
      BY <3>1, SameTogether
    <3>2. CASE disk'[cur] = after /\ \A x \in Generation : x # cur => disk'[x] = disk[x]
      BY <2>2, <2>3, <3>2 DEF Graves, Revivals
    <3> QED BY <2>8, <3>1, <3>2
  <2>10. GravesInOneFile' /\ RevivalsFollow'
    <3>1. CASE SameEntries
      BY <1>0, <3>1 DEF SameEntries, GravesInOneFile, RevivalsFollow
    <3>2. CASE disk'[cur] = after /\ \A x \in Generation : x # cur => disk'[x] = disk[x]
      <4>1. \A x \in Generation : disk'[x].graves = disk[x].graves
        BY <2>3, <3>2
      <4>2. ASSUME NEW x \in Generation, NEW y \in Generation,
                   disk'[x].revivals \cap disk'[y].graves # {}
            PROVE  y <= x
        <5>1. CASE x # cur
          BY <1>0, <3>2, <4>1, <4>2, <5>1 DEF RevivalsFollow
        <5>2. CASE x = cur
          <6>1. disk[y].graves # {}
            BY <4>1, <4>2
          <6> QED BY <1>0, <5>2, <6>1 DEF FilesOpened, Missing
        <5> QED BY <5>1, <5>2
      <4> QED BY <1>0, <4>1, <4>2 DEF GravesInOneFile, RevivalsFollow
    <3> QED BY <2>8, <3>1, <3>2
  <2>11. RevivalsTold'
    BY <1>0, <2>4, <2>7, <2>9 DEF RevivalsTold
  <2>12. GravesFinite'
    BY <1>0, <2>7, <2>9 DEF GravesFinite
  <2>13. Compacting'
    BY <2>6 DEF Compacting, Unlocked
  <2> QED BY <2>10, <2>11, <2>12, <2>13 DEF EntriesHold
<1> QED BY <1>2, <1>3

LEMMA EntriesResolve ==
  ASSUME Sound, NEW src \in Generation, ResolveRestore(src)
  PROVE  EntriesHold'
<1>0. TypeOK
  BY DEF Sound
<1> DEFINE after == WithResolution(disk[cur], src)
           told == [said EXCEPT !.resolved = @ \cup {src}]
<1>1. alive /\ Record(after, told)
  BY DEF ResolveRestore, Record, Unlocked
<1>2. after \in File /\ after.tail = disk[cur].tail /\ disk[cur] \in File /\ cur \in Generation
  BY <1>0, <1>1, LineTypes
<1>3. after.graves = disk[cur].graves /\ after.revivals = disk[cur].revivals
  BY <1>2 DEF WithResolution, File
<1>4. told.dead = said.dead /\ told.revived = said.revived
  BY <1>0 DEF TypeOK
<1> HIDE DEF after, told
<1>5. /\ said' \in {said, told} /\ writer' = writer /\ Unlocked
      /\ disk' = [disk EXCEPT ![cur] = after] \/ SameLines
  BY <1>0, <1>1, <1>2, RecordEffect
<1>6. \A x \in Generation : disk'[x].graves = disk[x].graves /\ disk'[x].revivals = disk[x].revivals
  BY <1>0, <1>2, <1>3, <1>5 DEF SameLines, TypeOK
<1>7. Graves' = Graves /\ Revivals' = Revivals
  BY <1>6 DEF Graves, Revivals
<1>8. GravesInOneFile' /\ RevivalsFollow'
  BY <1>6 DEF Sound, GravesInOneFile, RevivalsFollow
<1>9. RevivalsTold' /\ GravesFinite'
  BY <1>4, <1>5, <1>7 DEF Sound, RevivalsTold, GravesFinite
<1>10. Compacting'
  BY <1>5 DEF Compacting, Unlocked
<1> QED BY <1>8, <1>9, <1>10 DEF EntriesHold

LEMMA SoundStep == Sound /\ [Next]_vars => Sound'
<1> SUFFICES ASSUME Sound, [Next]_vars PROVE Sound'
  OBVIOUS
<1>1. TypeOK' /\ FilesOpened'
  BY TypeStep, FilesOpenedStep DEF Sound
<1>2. EntriesHold'
  BY EntrySteps, EntriesSteady, EntriesCompact, EntriesCompactFile, EntriesRecord,
     EntriesResolve DEF Sound
<1> QED BY <1>1, <1>2 DEF Sound, EntriesHold

LEMMA SoundAlways == Spec => []Sound
BY SoundInit, SoundStep, PTL DEF Spec

-----------------------------------------------------------------------------
(* The files implement the store.                                          *)

SamePoints ==
  \A g \in Generation : /\ disk'[g].checkpoint = disk[g].checkpoint
                        /\ disk'[g].has_checkpoint = disk[g].has_checkpoint

LEMMA StoreStutters ==
  ASSUME SamePoints, SameEntries, cur' = cur
  PROVE  UNCHANGED Store!storeVars
<1>1. Graves' = Graves /\ Revivals' = Revivals /\ Resolutions' = Resolutions
  BY SameTogether
<1>2. /\ [g \in Generation |-> disk[g].checkpoint]' = [g \in Generation |-> disk[g].checkpoint]
      /\ {g \in Generation : disk[g].has_checkpoint}' = {g \in Generation : disk[g].has_checkpoint}
  BY DEF SamePoints
<1> QED BY <1>1, <1>2 DEF Store!storeVars

LEMMA SameStutters ==
  ASSUME SameLines \/ UNCHANGED disk, cur' = cur
  PROVE  UNCHANGED Store!storeVars
<1>1. SamePoints /\ SameEntries
  BY DEF SameLines, SamePoints, SameEntries
<1> QED BY <1>1, StoreStutters

StoreStep == Store!StoreNext \/ UNCHANGED Store!storeVars

LEMMA StoreOpens ==
  ASSUME TypeOK, NEW g \in Generation, Start(g) \/ SwitchGeneration(g)
  PROVE  StoreStep
<1>0. cur \in Nat /\ g \in Nat
  <2>1. cur \in {0} \cup Generation
    BY DEF TypeOK
  <2> QED BY <2>1, JournalAssumption DEF JournalAssumption
<1>1. OpenGeneration(g) /\ g >= cur
  BY <1>0 DEF Start, SwitchGeneration
<1>2. SameLines
  BY <1>1, OpenEffect
<1>3. CASE cur' = cur
  BY <1>2, <1>3, SameStutters DEF StoreStep
<1>4. CASE cur' # cur
  <2>1. cur' = g /\ g > cur
    BY <1>0, <1>1, <1>4, OpenType
  <2>2. Graves' = Graves /\ Revivals' = Revivals /\ Resolutions' = Resolutions
    BY <1>2, SameTogether DEF SameLines, SameEntries
  <2>3. /\ [x \in Generation |-> disk[x].checkpoint]' = [x \in Generation |-> disk[x].checkpoint]
        /\ {x \in Generation : disk[x].has_checkpoint}' = {x \in Generation : disk[x].has_checkpoint}
    BY <1>2 DEF SameLines
  <2>4. Store!OpenGeneration(g)
    BY <2>1, <2>2, <2>3 DEF Store!OpenGeneration
  <2> QED BY <2>4 DEF StoreStep, Store!StoreNext
<1> QED BY <1>3, <1>4

LEMMA StoreTakesPanes ==
  ASSUME TypeOK, NEW p \in Pane, AppendPane(p)
  PROVE  StoreStep
<1>1. alive /\ writer \in [op : {"checkpoint"}, panes : Points, todo : SUBSET Pane]
  BY WriterType DEF AppendPane
<1>2. writer.panes[p] \in {0} \cup Version
  BY <1>1 DEF Points
<1> DEFINE after == WithPane(disk[cur], p, writer.panes[p])
<1>3. after \in File /\ after.tail = disk[cur].tail /\ cur \in Generation /\ disk[cur] \in File
  BY <1>1, <1>2, LineTypes
<1>4. /\ after.graves = disk[cur].graves /\ after.revivals = disk[cur].revivals
      /\ after.resolved = disk[cur].resolved
      /\ after.checkpoint = disk[cur].checkpoint
      /\ after.has_checkpoint = disk[cur].has_checkpoint
  BY <1>3 DEF WithPane, File
<1>5. Write(after) /\ cur' = cur
  BY DEF AppendPane
<1> HIDE DEF after
<1>6. disk' = [disk EXCEPT ![cur] = after] \/ SameLines
  BY <1>1, <1>3, <1>5, WriteEffect
<1>7. SamePoints /\ SameEntries
  BY <1>3, <1>4, <1>6 DEF SamePoints, SameEntries, SameLines, TypeOK
<1> QED BY <1>5, <1>7, StoreStutters DEF StoreStep

LEMMA StoreTakesPoint ==
  ASSUME TypeOK, writer.op = "checkpoint", Write(WithCheckpoint(disk[cur], Ids(writer.panes))),
         cur' = cur
  PROVE  StoreStep
<1>1. alive
  BY WriterType
<1> DEFINE after == WithCheckpoint(disk[cur], Ids(writer.panes))
<1>2. after \in File /\ after.tail = disk[cur].tail /\ cur \in Generation /\ disk[cur] \in File
  BY <1>1, LineTypes
<1>3. PICK kept \in Points :
        /\ after.graves = disk[cur].graves /\ after.revivals = disk[cur].revivals
        /\ after.resolved = disk[cur].resolved
        /\ after.checkpoint = kept
        /\ after.has_checkpoint = TRUE
  <2> DEFINE whole == [p \in Pane |-> IF p \in Ids(writer.panes) THEN disk[cur].versions[p] ELSE 0]
  <2>1. whole \in Points
    BY <1>2 DEF File, Points
  <2>2. /\ after.graves = disk[cur].graves /\ after.revivals = disk[cur].revivals
        /\ after.resolved = disk[cur].resolved
        /\ after.checkpoint = whole
        /\ after.has_checkpoint = TRUE
    BY <1>2 DEF WithCheckpoint, File
  <2> QED BY <2>1, <2>2
<1> HIDE DEF after
<1>5. disk' = [disk EXCEPT ![cur] = after] \/ SameLines
  BY <1>1, <1>2, WriteEffect DEF after
<1>6. CASE SameLines
  BY <1>6, SameStutters DEF StoreStep
<1>7. CASE disk' = [disk EXCEPT ![cur] = after]
  <2>1. SameEntries
    BY <1>2, <1>3, <1>7 DEF SameEntries, TypeOK
  <2>2. Graves' = Graves /\ Revivals' = Revivals /\ Resolutions' = Resolutions
    BY <2>1, SameTogether
  <2>3. /\ \A x \in Generation : x # cur => disk'[x] = disk[x]
        /\ disk'[cur] = after
    BY <1>2, <1>7 DEF TypeOK
  <2>4. [x \in Generation |-> disk'[x].checkpoint]
          = [[x \in Generation |-> disk[x].checkpoint] EXCEPT ![cur] = kept]
    BY <1>2, <1>3, <2>3
  <2>5. {x \in Generation : disk'[x].has_checkpoint}
          = {x \in Generation : disk[x].has_checkpoint} \cup {cur}
    BY <1>2, <1>3, <2>3
  <2>6. cur # 0
    BY <1>2, JournalAssumption DEF JournalAssumption
  <2>7. Store!SetPoint(kept)
    BY <2>2, <2>4, <2>5, <2>6 DEF Store!SetPoint
  <2>8. kept \in Store!Points
    BY DEF Store!Points, Points
  <2> QED BY <2>7, <2>8 DEF StoreStep, Store!StoreNext
<1> QED BY <1>5, <1>6, <1>7

LEMMA StoreRecords ==
  ASSUME Sound, NEW g \in Grave, RecordDestroyed(g) \/ RecordRevived(g)
  PROVE  StoreStep
<1>0. TypeOK /\ RevivalsTold
  BY DEF Sound
<1>1. Grave \subseteq Nat
  BY JournalAssumption DEF JournalAssumption
<1>2. CASE RecordDestroyed(g)
  <2> DEFINE after == WithGrave(disk[cur], g)
  <2>1. alive
    BY <1>2 DEF RecordDestroyed, Record, Unlocked
  <2>2. after \in File /\ after.tail = disk[cur].tail /\ disk[cur] \in File /\ cur \in Generation
    BY <1>0, <2>1, LineTypes
  <2>3. /\ after.graves = disk[cur].graves \cup {g} /\ after.revivals = disk[cur].revivals
        /\ after.resolved = disk[cur].resolved
        /\ after.checkpoint = disk[cur].checkpoint
        /\ after.has_checkpoint = disk[cur].has_checkpoint
    BY <2>2 DEF WithGrave, File
  <2>4. Record(after, [said EXCEPT !.dead = @ \cup {g}])
    BY <1>2 DEF RecordDestroyed
  <2>5. (\A h \in Graves : h < g) /\ g \notin Revivals
    BY <1>0, <1>1, <1>2 DEF RecordDestroyed, RevivalsTold, TypeOK
  <2> HIDE DEF after
  <2>6. cur' = cur /\ (disk' = [disk EXCEPT ![cur] = after] \/ SameLines)
    BY <1>0, <2>2, <2>4, RecordEffect
  <2>7. CASE SameLines
    BY <2>6, <2>7, SameStutters DEF StoreStep
  <2>8. CASE disk' = [disk EXCEPT ![cur] = after]
    <3>1. /\ \A x \in Generation : x # cur => disk'[x] = disk[x]
          /\ disk'[cur] = after
      BY <1>0, <2>2, <2>8 DEF TypeOK
    <3>2. Graves' = Graves \cup {g} /\ Revivals' = Revivals /\ Resolutions' = Resolutions
      BY <2>2, <2>3, <3>1 DEF Graves, Revivals, Resolutions
    <3>3. SamePoints
      BY <2>3, <3>1 DEF SamePoints
    <3>4. /\ [x \in Generation |-> disk'[x].checkpoint] = [x \in Generation |-> disk[x].checkpoint]
          /\ {x \in Generation : disk'[x].has_checkpoint} = {x \in Generation : disk[x].has_checkpoint}
      BY <3>3 DEF SamePoints
    <3>5. Revivals' \cap Graves' = Revivals \cap Graves
      BY <2>5, <3>2
    <3>6. Store!Bury(g)
      BY <2>5, <2>6, <3>2, <3>4, <3>5 DEF Store!Bury
    <3> QED BY <3>6 DEF StoreStep, Store!StoreNext
  <2> QED BY <2>6, <2>7, <2>8
<1>3. CASE RecordRevived(g)
  <2> DEFINE after == WithRevival(disk[cur], g)
  <2>1. alive
    BY <1>3 DEF RecordRevived, Record, Unlocked
  <2>2. after \in File /\ after.tail = disk[cur].tail /\ disk[cur] \in File /\ cur \in Generation
    BY <1>0, <2>1, LineTypes
  <2>3. /\ after.graves = disk[cur].graves /\ after.revivals = disk[cur].revivals \cup {g}
        /\ after.resolved = disk[cur].resolved
        /\ after.checkpoint = disk[cur].checkpoint
        /\ after.has_checkpoint = disk[cur].has_checkpoint
    BY <2>2 DEF WithRevival, File
  <2>4. Record(after, [said EXCEPT !.revived = @ \cup {g}])
    BY <1>3 DEF RecordRevived
  <2> HIDE DEF after
  <2>6. cur' = cur /\ (disk' = [disk EXCEPT ![cur] = after] \/ SameLines)
    BY <1>0, <2>2, <2>4, RecordEffect
  <2>7. CASE SameLines
    BY <2>6, <2>7, SameStutters DEF StoreStep
  <2>8. CASE disk' = [disk EXCEPT ![cur] = after]
    <3>1. /\ \A x \in Generation : x # cur => disk'[x] = disk[x]
          /\ disk'[cur] = after
      BY <1>0, <2>2, <2>8 DEF TypeOK
    <3>2. Graves' = Graves /\ Revivals' = Revivals \cup {g} /\ Resolutions' = Resolutions
      BY <2>2, <2>3, <3>1 DEF Graves, Revivals, Resolutions
    <3>3. SamePoints
      BY <2>3, <3>1 DEF SamePoints
    <3>4. /\ [x \in Generation |-> disk'[x].checkpoint] = [x \in Generation |-> disk[x].checkpoint]
          /\ {x \in Generation : disk'[x].has_checkpoint} = {x \in Generation : disk[x].has_checkpoint}
      BY <3>3 DEF SamePoints
    <3>5. CASE g \in Graves
      <4>1. Revivals' \cap Graves' = (Revivals \cap Graves) \cup {g}
        BY <3>2, <3>5
      <4>2. Store!MarkRevived(g)
        BY <2>6, <3>2, <3>4, <3>5, <4>1 DEF Store!MarkRevived
      <4> QED BY <4>2 DEF StoreStep, Store!StoreNext
    <3>6. CASE g \notin Graves
      <4>1. Revivals' \cap Graves' = Revivals \cap Graves
        BY <3>2, <3>6
      <4> QED BY <2>6, <3>2, <3>4, <4>1 DEF StoreStep, Store!storeVars
    <3> QED BY <3>5, <3>6
  <2> QED BY <2>6, <2>7, <2>8
<1> QED BY <1>2, <1>3

LEMMA StoreResolves ==
  ASSUME Sound, NEW src \in Generation, ResolveRestore(src)
  PROVE  StoreStep
<1>0. TypeOK /\ FilesOpened
  BY DEF Sound
<1> DEFINE after == WithResolution(disk[cur], src)
<1>1. alive /\ Record(after, [said EXCEPT !.resolved = @ \cup {src}])
  BY DEF ResolveRestore, Record, Unlocked
<1>2. after \in File /\ after.tail = disk[cur].tail /\ disk[cur] \in File /\ cur \in Generation
  BY <1>0, <1>1, LineTypes
<1>3. /\ after.graves = disk[cur].graves /\ after.revivals = disk[cur].revivals
      /\ after.resolved = disk[cur].resolved \cup {src}
      /\ after.checkpoint = disk[cur].checkpoint
      /\ after.has_checkpoint = disk[cur].has_checkpoint
  BY <1>2 DEF WithResolution, File
<1> HIDE DEF after
<1>4. cur' = cur /\ (disk' = [disk EXCEPT ![cur] = after] \/ SameLines)
  BY <1>0, <1>1, <1>2, RecordEffect
<1>5. CASE SameLines
  BY <1>4, <1>5, SameStutters DEF StoreStep
<1>6. CASE disk' = [disk EXCEPT ![cur] = after]
  <2>1. /\ \A x \in Generation : x # cur => disk'[x] = disk[x]
        /\ disk'[cur] = after
    BY <1>0, <1>2, <1>6 DEF TypeOK
  <2>2. Graves' = Graves /\ Revivals' = Revivals /\ Resolutions' = Resolutions \cup {src}
    BY <1>2, <1>3, <2>1 DEF Graves, Revivals, Resolutions
  <2>3. /\ [x \in Generation |-> disk'[x].checkpoint] = [x \in Generation |-> disk[x].checkpoint]
        /\ {x \in Generation : disk'[x].has_checkpoint} = {x \in Generation : disk[x].has_checkpoint}
    BY <1>3, <2>1
  <2>4. src < cur
    BY <1>0, <1>2, JournalAssumption DEF ResolveRestore, FilesOpened, JournalAssumption
  <2>5. Store!MarkResolved(src)
    BY <1>4, <2>2, <2>3, <2>4 DEF Store!MarkResolved
  <2> QED BY <2>5 DEF StoreStep, Store!StoreNext
<1> QED BY <1>4, <1>5, <1>6

LEMMA StoreCardinality == \A S : Store!Cardinality(S) = Cardinality(S)
BY DEF Store!Cardinality, Cardinality

LEMMA StoreForgets ==
  ASSUME Sound, NEW x \in Generation, CompactFile(x)
  PROVE  StoreStep
<1> DEFINE keep == writer.keep
           gone == disk[x].graves \ keep
<1>1. /\ keep \subseteq Graves
      /\ \A y \in Generation : y # x => disk'[y] = disk[y]
      /\ disk'[x].checkpoint = disk[x].checkpoint
      /\ disk'[x].has_checkpoint = disk[x].has_checkpoint
      /\ Graves' = Graves \ gone
      /\ Revivals' \cap Graves' = (Revivals \cap Graves) \ gone
      /\ Resolutions' = Resolutions
  BY CompactFileEffect
<1>2. cur' = cur /\ writer.op = "compact"
  BY DEF CompactFile
<1>3. /\ [y \in Generation |-> disk'[y].checkpoint] = [y \in Generation |-> disk[y].checkpoint]
      /\ {y \in Generation : disk'[y].has_checkpoint} = {y \in Generation : disk[y].has_checkpoint}
  BY <1>1
<1>4. gone \subseteq Graves
  BY DEF Graves
<1>5. ASSUME NEW g \in gone PROVE Cardinality(Store!Newer(g)) >= MaxEntries
  <2>1. Cardinality(Newer(keep, g)) >= MaxEntries
    BY <1>2, <1>4, <1>5 DEF Sound, Compacting
  <2>2. IsFiniteSet(Graves) /\ MaxEntries \in Nat
    BY JournalAssumption DEF JournalAssumption, Sound, GravesFinite
  <2>3. Cardinality(Newer(Graves, g)) >= MaxEntries
    BY <1>1, <2>1, <2>2, NewerGrow
  <2>4. Store!Newer(g) = Newer(Graves, g)
    BY DEF Store!Newer, Newer
  <2> QED BY <2>3, <2>4
<1> HIDE DEF gone, keep
<1>6. Store!Forget(gone)
  BY <1>1, <1>2, <1>3, <1>5, StoreCardinality DEF Store!Forget
<1> QED BY <1>4, <1>6 DEF StoreStep, Store!StoreNext

LEMMA StoreStepSimulated ==
  ASSUME Sound, [Next]_vars
  PROVE  StoreStep
<1>0. TypeOK
  BY DEF Sound
<1>1. CASE UNCHANGED vars
  BY <1>1, SameStutters DEF vars, StoreStep
<1>2. ASSUME NEW panes \in Points, Checkpoint(panes) PROVE StoreStep
  BY <1>2, SameStutters DEF Checkpoint, StoreStep
<1>3. CASE \/ Crash \/ CheckpointUnchanged \/ Compact \/ CompactEnd \/ CompactFails
           \/ ReadBegin \/ ReadDirectory \/ ReadEnd
  BY <1>3, SameStutters DEF Crash, CheckpointUnchanged, Compact, CompactEnd, CompactFails,
     ReadBegin, ReadDirectory, ReadEnd, StoreStep
<1>4. ASSUME NEW g \in Generation, ReadFile(g) PROVE StoreStep
  BY <1>4, SameStutters DEF ReadFile, StoreStep
<1>5. CASE AppendCheckpoint \/ CheckpointSyncFails
  BY <1>0, <1>5, StoreTakesPoint DEF AppendCheckpoint, CheckpointSyncFails
<1>6. CASE CheckpointFails \/ RecordTears
  <2>1. alive
    BY <1>0, <1>6, WriterType DEF CheckpointFails, RecordTears
  <2> QED BY <1>0, <1>6, <2>1, TearEffect, SameStutters DEF CheckpointFails, RecordTears, StoreStep
<1> QED BY <1>0, <1>1, <1>2, <1>3, <1>4, <1>5, <1>6, StoreOpens, StoreTakesPanes, StoreRecords,
           StoreResolves, StoreForgets DEF Next

LEMMA StoreInitSimulated == Init => Store!StoreInit
<1> SUFFICES ASSUME Init PROVE Store!StoreInit
  OBVIOUS
<1>1. \A g \in Generation : disk[g] = Missing
  BY DEF Init
<1>2. Graves = {} /\ Revivals = {} /\ Resolutions = {}
  BY <1>1 DEF Graves, Revivals, Resolutions, Missing
<1>3. [g \in Generation |-> disk[g].checkpoint] = [g \in Generation |-> Store!NoPoint]
  BY <1>1 DEF Missing, NoPanes, Store!NoPoint
<1>4. {g \in Generation : disk[g].has_checkpoint} = {}
  BY <1>1 DEF Missing
<1>5. cur = 0
  BY DEF Init
<1> QED BY <1>2, <1>3, <1>4, <1>5 DEF Store!StoreInit

(* The journal's files, appended line by line, torn, repaired and          *)
(* compacted one after the other, are a store in which every operation     *)
(* happens at once: each step is one operation of the store or none.       *)
THEOREM Implements == Spec => StoreImplemented
<1>1. Init => Store!StoreInit
  BY StoreInitSimulated
<1>2. Sound /\ [Next]_vars => [Store!StoreNext]_(Store!storeVars)
  BY StoreStepSimulated DEF StoreStep
<1> QED BY <1>1, <1>2, SoundAlways, PTL DEF Spec, StoreImplemented, Store!StoreSpec

-----------------------------------------------------------------------------
(* What callers were told of stays.                                        *)

(* What was spoilt or led astray stays so.                                 *)
LEMMA FaultsStay ==
  ASSUME TypeOK, [Next]_vars
  PROVE  (Unspoilt' => Unspoilt) /\ (~faults'.astray => ~faults.astray)
<1> DEFINE Stay == (Unspoilt' => Unspoilt) /\ (~faults'.astray => ~faults.astray)
<1>1. UNCHANGED faults => Stay
  BY DEF Unspoilt
<1>2. ASSUME NEW kind, Fault(kind) PROVE Stay
  BY <1>2, FaultType
<1>3. ASSUME NEW g, Drops(g) PROVE Stay
  BY <1>3, DropsType
<1> SUFFICES Stay
  OBVIOUS
<1> HIDE DEF Stay
<1>4. CASE UNCHANGED vars
  BY <1>1, <1>4 DEF vars
<1>5. ASSUME NEW g, \/ Start(g) \/ SwitchGeneration(g) \/ ReadFile(g) \/ Checkpoint(g) \/ AppendPane(g)
      PROVE  Stay
  BY <1>1, <1>5 DEF Start, SwitchGeneration, ReadFile, Checkpoint, AppendPane
<1>6. CASE \/ Crash \/ CheckpointUnchanged \/ AppendCheckpoint \/ Compact \/ CompactEnd
           \/ ReadBegin \/ ReadDirectory \/ ReadEnd
  BY <1>1, <1>6 DEF Crash, CheckpointUnchanged, AppendCheckpoint, Compact, CompactEnd,
     ReadBegin, ReadDirectory, ReadEnd
<1>7. ASSUME NEW g, CompactFile(g) PROVE Stay
  BY <1>3, <1>7 DEF CompactFile
<1>8. ASSUME NEW g, RecordDestroyed(g) \/ RecordRevived(g) \/ ResolveRestore(g) PROVE Stay
  BY <1>1, <1>2, <1>8 DEF RecordDestroyed, RecordRevived, ResolveRestore, Record
<1>9. CASE CheckpointFails \/ CheckpointSyncFails \/ RecordTears \/ CompactFails
  BY <1>2, <1>9 DEF CheckpointFails, CheckpointSyncFails, RecordTears, CompactFails
<1> QED BY <1>4, <1>5, <1>6, <1>7, <1>8, <1>9 DEF Next

(* To a whole file a line is what it says.                                 *)
LEMMA WriteWhole ==
  ASSUME TypeOK, FilesWhole, alive, writer.op # "compact",
         NEW after \in File, after.tail = disk[cur].tail, Write(after)
  PROVE  /\ disk' = [disk EXCEPT ![cur] = after]
         /\ cur \in Generation
         /\ disk'[cur] = after
         /\ \A x \in Generation : x # cur => disk'[x] = disk[x]
         /\ after.tail = "clean"
<1>1. cur \in Generation /\ disk[cur].tail # "none"
  BY DEF TypeOK, Exists
<1>2. ~unlinked /\ disk[cur].tail = "clean"
  BY <1>1 DEF FilesWhole
<1>3. disk' = [disk EXCEPT ![cur] = after]
  BY <1>2, WriteEffect
<1> QED BY <1>1, <1>2, <1>3 DEF TypeOK

LEMMA FilesWholeStep ==
  ASSUME TypeOK, FilesWhole, Unspoilt', [Next]_vars
  PROVE  FilesWhole'
<1>1. writer.op # "compact" => ~unlinked
  BY DEF FilesWhole
<1>2. ASSUME UNCHANGED disk, ~unlinked' PROVE FilesWhole'
  BY <1>2 DEF FilesWhole
<1>3. ASSUME UNCHANGED disk, UNCHANGED unlinked, UNCHANGED cur, UNCHANGED writer
      PROVE FilesWhole'
  BY <1>3 DEF FilesWhole
<1>4. CASE UNCHANGED vars
  BY <1>3, <1>4 DEF vars
<1>5. ASSUME NEW g \in Generation, Start(g) \/ SwitchGeneration(g) PROVE FilesWhole'
  <2>1. OpenGeneration(g) /\ disk[g].tail \in {"none", "clean"} /\ disk[g] \in File
    BY <1>5 DEF Start, SwitchGeneration, FilesWhole, TypeOK
  <2>2. Repair(disk[g]).tail = "clean"
    BY <2>1 DEF Repair, File
  <2>3. ~unlinked'
    BY <2>1, <2>2 DEF OpenGeneration, Readable
  <2>4. disk' = [disk EXCEPT ![g] = Repair(@)]
    BY <2>1, OpenType
  <2> QED BY <2>2, <2>3, <2>4 DEF FilesWhole, TypeOK
<1>6. CASE Crash \/ CompactEnd
  BY <1>2, <1>6 DEF Crash, CompactEnd
<1>7. CASE CheckpointUnchanged \/ ReadBegin \/ ReadDirectory \/ ReadEnd
  BY <1>3, <1>7 DEF CheckpointUnchanged, ReadBegin, ReadDirectory, ReadEnd
<1>8. ASSUME NEW g, ReadFile(g) PROVE FilesWhole'
  BY <1>3, <1>8 DEF ReadFile
<1>9. ASSUME NEW panes, Checkpoint(panes) \/ Compact PROVE FilesWhole'
  BY <1>1, <1>2, <1>9 DEF Checkpoint, Compact, Unlocked
<1>10. ASSUME NEW after \in File, after.tail = disk[cur].tail, Write(after), alive,
              writer.op # "compact", UNCHANGED unlinked
       PROVE  FilesWhole'
  <2>1. /\ disk' = [disk EXCEPT ![cur] = after] /\ after.tail = "clean"
    BY <1>10, WriteWhole
  <2> QED BY <1>1, <1>10, <2>1 DEF FilesWhole, TypeOK
<1>11. ASSUME NEW p \in Pane, AppendPane(p) PROVE FilesWhole'
  <2>1. alive /\ writer \in [op : {"checkpoint"}, panes : Points, todo : SUBSET Pane]
    BY <1>11, WriterType DEF AppendPane
  <2>2. writer.panes[p] \in {0} \cup Version
    BY <2>1 DEF Points
  <2> QED BY <1>10, <1>11, <2>1, <2>2, LineTypes DEF AppendPane
<1>12. CASE AppendCheckpoint \/ CheckpointSyncFails
  <2>1. alive /\ writer.op # "compact"
    BY <1>12, WriterType DEF AppendCheckpoint, CheckpointSyncFails
  <2> QED BY <1>10, <1>12, <2>1, LineTypes DEF AppendCheckpoint, CheckpointSyncFails
<1>13. CASE CheckpointFails
  <2>1. ~Fault("torn")
    BY FaultType
  <2> QED BY <1>1, <1>2, <1>13, <2>1 DEF CheckpointFails
<1>14. ASSUME RecordTears PROVE FALSE
  BY <1>14, FaultType DEF RecordTears
<1>15. ASSUME NEW g \in Grave, RecordDestroyed(g) \/ RecordRevived(g) PROVE FilesWhole'
  BY <1>10, <1>15, LineTypes DEF RecordDestroyed, RecordRevived, Record, Unlocked
<1>16. ASSUME NEW g \in Generation, ResolveRestore(g) PROVE FilesWhole'
  BY <1>10, <1>16, LineTypes DEF ResolveRestore, Record, Unlocked
<1>17. ASSUME NEW g \in Generation, CompactFile(g) PROVE FilesWhole'
  <2>1. writer \in [op : {"compact"}, left : SUBSET Generation, keep : SUBSET Grave]
    BY <1>17, WriterType DEF CompactFile
  <2>2. disk' = [disk EXCEPT ![g] = Compacted(@, writer.keep)] /\ disk[g] \in File
    BY <1>17 DEF CompactFile, TypeOK
  <2>3. \A x \in Generation : disk'[x].tail \in {"none", "clean"}
    BY <2>2, CompactedKeeps DEF FilesWhole, TypeOK
  <2>4. writer'.op = "compact" /\ writer'.left = writer.left \ {g}
    BY <1>17, <2>1 DEF CompactFile
  <2>5. unlinked' => cur \notin writer.left \/ g = cur
    BY <1>17 DEF CompactFile, FilesWhole
  <2>6. cur' = cur
    BY <1>17 DEF CompactFile
  <2> QED BY <2>3, <2>4, <2>5, <2>6 DEF FilesWhole
<1>18. CASE CompactFails
  <2>1. cur \in writer.left
    BY <1>18, FaultType DEF CompactFails
  <2> QED BY <1>2, <1>18, <2>1 DEF CompactFails, FilesWhole
<1> QED BY <1>4, <1>5, <1>6, <1>7, <1>8, <1>9, <1>11, <1>12, <1>13, <1>14, <1>15, <1>16,
           <1>17, <1>18 DEF Next

(* Compaction decides what to drop: enough newer graves are kept.          *)
LEMMA OutlivedCompact ==
  ASSUME Sound, GravesOutlived, Compact, Compacting'
  PROVE  GravesOutlived'
<1>1. /\ disk' = disk /\ said' = said
      /\ writer'.op = "compact" /\ writer'.keep = Kept
  BY DEF Compact
<1>2. Graves' = Graves
  BY <1>1 DEF Graves
<1>3. ASSUME NEW g \in said.dead, g \notin Kept
      PROVE  Cardinality(Newer(Kept, g)) >= MaxEntries
  <2>1. CASE g \in Graves
    BY <1>1, <1>2, <1>3, <2>1 DEF Compacting
  <2>2. CASE g \notin Graves
    <3>1. Cardinality(Newer(Graves, g)) >= MaxEntries
      BY <1>3, <2>2 DEF GravesOutlived
    <3>2. Graves \in SUBSET Nat /\ IsFiniteSet(Graves) /\ MaxEntries \in Nat /\ g \in Nat
      BY JournalAssumption, GravesType DEF JournalAssumption, Sound, GravesFinite, TypeOK
    <3>3. Kept = {k \in Graves : Cardinality(Newer(Graves, k)) < MaxEntries}
      BY DEF Kept, Newer
    <3> QED BY <3>1, <3>2, <3>3, NewestAreKept
  <2> QED BY <2>1, <2>2
<1> QED BY <1>1, <1>2, <1>3 DEF GravesOutlived

(* A file is compacted: what it loses has newer graves that stay.          *)
LEMMA OutlivedCompactFile ==
  ASSUME Sound, GravesOutlived, NEW x \in Generation, CompactFile(x)
  PROVE  GravesOutlived'
<1> DEFINE keep == writer.keep
<1>1. /\ keep \subseteq Graves /\ writer'.keep = keep
      /\ Graves' = Graves \ (disk[x].graves \ keep)
  BY CompactFileEffect
<1>2. said' = said /\ writer.op = "compact"
  BY DEF CompactFile
<1>3. keep \subseteq Graves' /\ IsFiniteSet(Graves') /\ MaxEntries \in Nat
  BY <1>1, FS_Subset, JournalAssumption DEF Sound, GravesFinite, JournalAssumption
<1>4. \A g \in said.dead \ keep : Cardinality(Newer(keep, g)) >= MaxEntries
  BY <1>2 DEF GravesOutlived
<1>5. \A g \in said.dead \ Graves' : Cardinality(Newer(Graves', g)) >= MaxEntries
  BY <1>3, <1>4, NewerGrow
<1> QED BY <1>1, <1>2, <1>4, <1>5 DEF GravesOutlived

(* A grave is written: the entries there were stay.                        *)
LEMMA KeptRecord ==
  ASSUME Sound, FilesWhole, GravesOutlived, RevivalsKept, ResolutionsKept,
         NEW g \in Grave, RecordDestroyed(g) \/ RecordRevived(g)
  PROVE  GravesOutlived' /\ RevivalsKept' /\ ResolutionsKept'
<1>0. TypeOK /\ RevivalsTold
  BY DEF Sound
<1>1. alive /\ Unlocked /\ writer.op # "compact"
  BY DEF RecordDestroyed, RecordRevived, Record, Unlocked
<1>2. Grave \subseteq Nat /\ MaxEntries \in Nat
  BY JournalAssumption DEF JournalAssumption
<1>3. CASE RecordDestroyed(g)
  <2> DEFINE after == WithGrave(disk[cur], g)
             told == [said EXCEPT !.dead = @ \cup {g}]
  <2>1. after \in File /\ after.tail = disk[cur].tail /\ disk[cur] \in File
    BY <1>0, <1>1, LineTypes
  <2>2. /\ after.graves = disk[cur].graves \cup {g} /\ after.revivals = disk[cur].revivals
        /\ after.resolved = disk[cur].resolved
    BY <2>1 DEF WithGrave, File
  <2>3. Record(after, told)
    BY <1>3 DEF RecordDestroyed
  <2>4. g \notin said.dead /\ \A h \in Graves : h < g
    BY <1>0, <1>2, <1>3 DEF RecordDestroyed, TypeOK
  <2>5. /\ said'.dead \subseteq said.dead \cup {g}
        /\ said'.revived = said.revived /\ said'.resolved = said.resolved
    BY <1>0, <2>3 DEF Record, TypeOK
  <2> HIDE DEF after, told
  <2>6. /\ disk'[cur] = after /\ cur \in Generation
        /\ \A x \in Generation : x # cur => disk'[x] = disk[x]
    BY <1>0, <1>1, <2>1, <2>3, WriteWhole DEF Record
  <2>7. Graves' = Graves \cup {g} /\ Revivals' = Revivals /\ Resolutions' = Resolutions
    BY <2>2, <2>6 DEF Graves, Revivals, Resolutions
  <2>8. writer'.op # "compact"
    BY <1>1, <2>3 DEF Record
  <2>9. IsFiniteSet(Graves')
    BY <2>7, FS_AddElement DEF Sound, GravesFinite
  <2>10. \A h \in said'.dead \ Graves' : Cardinality(Newer(Graves', h)) >= MaxEntries
    BY <1>2, <2>5, <2>7, <2>9, NewerGrow DEF GravesOutlived
  <2>11. g \notin said.revived
    BY <1>0, <2>4 DEF RevivalsTold
  <2> QED BY <2>5, <2>7, <2>8, <2>10, <2>11 DEF GravesOutlived, RevivalsKept, ResolutionsKept
<1>4. CASE RecordRevived(g)
  <2> DEFINE after == WithRevival(disk[cur], g)
             told == [said EXCEPT !.revived = @ \cup {g}]
  <2>1. after \in File /\ after.tail = disk[cur].tail /\ disk[cur] \in File
    BY <1>0, <1>1, LineTypes
  <2>2. /\ after.graves = disk[cur].graves /\ after.revivals = disk[cur].revivals \cup {g}
        /\ after.resolved = disk[cur].resolved
    BY <2>1 DEF WithRevival, File
  <2>3. Record(after, told)
    BY <1>4 DEF RecordRevived
  <2>5. /\ said'.dead = said.dead
        /\ said'.revived \subseteq said.revived \cup {g} /\ said'.resolved = said.resolved
    BY <1>0, <2>3 DEF Record, TypeOK
  <2> HIDE DEF after, told
  <2>6. /\ disk'[cur] = after /\ cur \in Generation
        /\ \A x \in Generation : x # cur => disk'[x] = disk[x]
    BY <1>0, <1>1, <2>1, <2>3, WriteWhole DEF Record
  <2>7. Graves' = Graves /\ Revivals' = Revivals \cup {g} /\ Resolutions' = Resolutions
    BY <2>2, <2>6 DEF Graves, Revivals, Resolutions
  <2>8. writer'.op # "compact"
    BY <1>1, <2>3 DEF Record
  <2> QED BY <2>5, <2>7, <2>8 DEF GravesOutlived, RevivalsKept, ResolutionsKept
<1> QED BY <1>3, <1>4

LEMMA KeptResolve ==
  ASSUME Sound, FilesWhole, GravesOutlived, RevivalsKept, ResolutionsKept,
         NEW src \in Generation, ResolveRestore(src)
  PROVE  GravesOutlived' /\ RevivalsKept' /\ ResolutionsKept'
<1>0. TypeOK
  BY DEF Sound
<1>1. alive /\ writer.op # "compact"
  BY DEF ResolveRestore, Record, Unlocked
<1> DEFINE after == WithResolution(disk[cur], src)
           told == [said EXCEPT !.resolved = @ \cup {src}]
<1>2. after \in File /\ after.tail = disk[cur].tail /\ disk[cur] \in File
  BY <1>0, <1>1, LineTypes
<1>3. /\ after.graves = disk[cur].graves /\ after.revivals = disk[cur].revivals
      /\ after.resolved = disk[cur].resolved \cup {src}
  BY <1>2 DEF WithResolution, File
<1>4. Record(after, told)
  BY DEF ResolveRestore
<1>5. /\ said'.dead = said.dead /\ said'.revived = said.revived
      /\ said'.resolved \subseteq said.resolved \cup {src}
  BY <1>0, <1>4 DEF Record, TypeOK
<1> HIDE DEF after, told
<1>6. /\ disk'[cur] = after /\ cur \in Generation
      /\ \A x \in Generation : x # cur => disk'[x] = disk[x]
  BY <1>0, <1>1, <1>2, <1>4, WriteWhole DEF Record
<1>7. Graves' = Graves /\ Revivals' = Revivals /\ Resolutions' = Resolutions \cup {src}
  BY <1>3, <1>6 DEF Graves, Revivals, Resolutions
<1>8. writer'.op # "compact"
  BY <1>1, <1>4 DEF Record
<1> QED BY <1>5, <1>7, <1>8 DEF GravesOutlived, RevivalsKept, ResolutionsKept

LEMMA WholeStep ==
  ASSUME Sound, Whole, [Next]_vars
  PROVE  Whole'
<1> SUFFICES ASSUME Unspoilt'
             PROVE  FilesWhole' /\ GravesOutlived' /\ RevivalsKept' /\ ResolutionsKept'
  BY DEF Whole
<1>0. TypeOK /\ Unspoilt /\ Sound'
  BY FaultsStay, SoundStep DEF Sound
<1>1. FilesWhole /\ GravesOutlived /\ RevivalsKept /\ ResolutionsKept
  BY <1>0 DEF Whole
<1>2. FilesWhole'
  BY <1>0, <1>1, FilesWholeStep
<1>3. CASE Steady
  <2>1. Graves' = Graves /\ Revivals' = Revivals /\ Resolutions' = Resolutions
    BY <1>3, SameTogether DEF Steady
  <2> QED BY <1>1, <1>2, <1>3, <2>1 DEF Steady, GravesOutlived, RevivalsKept, ResolutionsKept
<1>4. CASE Compact
  <2>1. RevivalsKept' /\ ResolutionsKept'
    BY <1>1, <1>4 DEF Compact, RevivalsKept, ResolutionsKept, Graves, Revivals, Resolutions
  <2> QED BY <1>0, <1>1, <1>2, <1>4, <2>1, OutlivedCompact DEF Sound
<1>5. ASSUME NEW x \in Generation, CompactFile(x)
      PROVE  GravesOutlived' /\ RevivalsKept' /\ ResolutionsKept'
  <2>1. said' = said
    BY <1>5 DEF CompactFile
  <2>2. /\ Graves' = Graves \ (disk[x].graves \ writer.keep)
        /\ Revivals' \cap Graves' = (Revivals \cap Graves) \ (disk[x].graves \ writer.keep)
        /\ Resolutions' = Resolutions
    BY <1>5, CompactFileEffect
  <2>3. RevivalsKept' /\ ResolutionsKept'
    BY <1>1, <2>1, <2>2 DEF RevivalsKept, ResolutionsKept
  <2> QED BY <1>1, <1>5, <2>3, OutlivedCompactFile
<1> QED BY <1>0, <1>1, <1>2, <1>3, <1>4, <1>5, EntrySteps, KeptRecord, KeptResolve

LEMMA WholeInit == Init => Whole
<1> SUFFICES ASSUME Init PROVE Whole
  OBVIOUS
<1>1. FilesWhole
  BY DEF Init, FilesWhole, Missing
<1>2. said.dead = {} /\ said.revived = {} /\ said.resolved = {} /\ writer.op = "free"
  BY DEF Init, Free
<1> QED BY <1>1, <1>2 DEF Whole, GravesOutlived, RevivalsKept, ResolutionsKept

LEMMA WholeAlways == Spec => [](Sound /\ Whole)
<1>1. Init => Sound /\ Whole
  BY SoundInit, WholeInit
<1>2. (Sound /\ Whole) /\ [Next]_vars => (Sound /\ Whole)'
  BY SoundStep, WholeStep
<1> QED BY <1>1, <1>2, PTL DEF Spec

(* Unless a write tore or compaction could not reopen the running file, no *)
(* acknowledged grave, revival or resolution is lost, at any point of a    *)
(* compaction and after any crash: a grave goes only when as many newer    *)
(* ones as retention asks for are there.                                   *)
THEOREM EntriesAreKept == Spec => []EntriesKept
<1>1. Sound /\ Whole => EntriesKept
  <2> SUFFICES ASSUME Sound, Whole, Unspoilt PROVE EntriesKept
    BY DEF EntriesKept
  <2>1. GravesOutlived /\ RevivalsKept /\ ResolutionsKept
    BY DEF Whole
  <2>2. IsFiniteSet(said.dead \cup Graves) /\ MaxEntries \in Nat
    BY FS_Union, JournalAssumption DEF Sound, GravesFinite, JournalAssumption
  <2>3. ASSUME NEW g \in said.dead \ Graves
        PROVE  Cardinality({h \in said.dead \cup Graves : h > g}) >= MaxEntries
    <3>1. Cardinality(Newer(Graves, g)) >= MaxEntries
      BY <2>1 DEF GravesOutlived
    <3>2. Cardinality(Newer(said.dead \cup Graves, g)) >= MaxEntries
      BY <2>2, <3>1, NewerGrow
    <3> QED BY <3>2 DEF Newer
  <2> QED BY <2>1, <2>3 DEF EntriesKept, GravesKept
<1> QED BY <1>1, WholeAlways, PTL

-----------------------------------------------------------------------------
(* The restore points are the backups.                                     *)

PointsSaid == \A g \in Generation : disk[g].checkpoint = said.point[g]

(* Steps that write no pane and no checkpoint.                             *)
LEMMA BackedSame ==
  ASSUME CacheTrue, PointsSaid, alive, cur \in Generation,
         \A g \in Generation : /\ disk'[g].versions = disk[g].versions
                               /\ disk'[g].checkpoint = disk[g].checkpoint,
         UNCHANGED <<cur, cache>>, said'.point = said.point,
         writer'.op = "checkpoint" => writer' = writer
  PROVE  CacheTrue' /\ PointsSaid'
BY DEF CacheTrue, PointsSaid

LEMMA BackedOpen ==
  ASSUME TypeOK, FilesWhole, CacheTrue, PointsSaid,
         NEW g \in Generation, Start(g) \/ SwitchGeneration(g)
  PROVE  CacheTrue' /\ PointsSaid'
<1>1. OpenGeneration(g) /\ UNCHANGED <<writer, said>> /\ writer = Free
  BY DEF Start, SwitchGeneration, Unlocked, TypeOK
<1>2. SameLines
  BY <1>1, OpenEffect
<1>3. disk[g] \in File /\ disk[g].tail \in {"none", "clean"}
  BY DEF TypeOK, FilesWhole
<1>4. Readable(Repair(disk[g]))
  BY <1>3 DEF Repair, Readable, File
<1>5. /\ cur' = g
      /\ cache' = [versions |-> Repair(disk[g]).versions,
                   checkpoint |-> Repair(disk[g]).checkpoint]
      /\ disk'[g] = Repair(disk[g])
  BY <1>1, <1>4 DEF OpenGeneration, TypeOK
<1>6. cache'.versions = disk'[cur'].versions /\ cache'.checkpoint = disk'[cur'].checkpoint
  BY <1>5
<1>7. writer'.op # "checkpoint"
  BY <1>1 DEF Free
<1>8. PointsSaid'
  BY <1>1, <1>2 DEF PointsSaid, SameLines
<1> QED BY <1>6, <1>7, <1>8 DEF CacheTrue

LEMMA BackedPane ==
  ASSUME TypeOK, FilesWhole, CacheTrue, PointsSaid, NEW p \in Pane, AppendPane(p)
  PROVE  CacheTrue' /\ PointsSaid'
<1>1. alive /\ writer \in [op : {"checkpoint"}, panes : Points, todo : SUBSET Pane]
  BY WriterType DEF AppendPane
<1>2. writer.panes[p] \in {0} \cup Version
  BY <1>1 DEF Points
<1> DEFINE after == WithPane(disk[cur], p, writer.panes[p])
<1>3. after \in File /\ after.tail = disk[cur].tail /\ disk[cur] \in File
  BY <1>1, <1>2, LineTypes
<1>4. /\ after.versions = [disk[cur].versions EXCEPT ![p] = writer.panes[p]]
      /\ after.checkpoint = disk[cur].checkpoint
  BY <1>3 DEF WithPane, File
<1>5. Write(after)
  BY DEF AppendPane
<1> HIDE DEF after
<1>6. /\ cur \in Generation /\ disk'[cur] = after
      /\ \A x \in Generation : x # cur => disk'[x] = disk[x]
  BY <1>1, <1>3, <1>5, WriteWhole
<1>7. /\ cache'.versions = [cache.versions EXCEPT ![p] = writer.panes[p]]
      /\ cache'.checkpoint = cache.checkpoint
      /\ cache.versions \in Points
  BY DEF AppendPane, TypeOK
<1>8. UNCHANGED <<cur, said>>
  BY DEF AppendPane
<1>9. PointsSaid'
  BY <1>4, <1>6, <1>8 DEF PointsSaid
<1>10. writer'.panes = writer.panes /\ writer'.todo = writer.todo \ {p}
  BY <1>1 DEF AppendPane
<1>11. ASSUME NEW q \in Ids(writer'.panes) \ writer'.todo
       PROVE  cache'.versions[q] = writer'.panes[q]
  <2>1. q \in Pane
    BY DEF Ids
  <2>2. CASE q = p
    BY <1>7, <1>10, <2>1, <2>2 DEF Points
  <2>3. CASE q # p
    <3>1. q \in Ids(writer.panes) \ writer.todo
      BY <1>10, <2>3, <1>11 DEF Ids
    <3>2. cache.versions[q] = writer.panes[q]
      BY <1>1, <3>1 DEF CacheTrue
    <3> QED BY <1>7, <1>10, <2>1, <2>3, <3>2 DEF Points
  <2> QED BY <2>2, <2>3
<1>12. cache'.versions = disk'[cur'].versions /\ cache'.checkpoint = disk'[cur'].checkpoint
  BY <1>1, <1>4, <1>6, <1>7, <1>8 DEF CacheTrue
<1> QED BY <1>9, <1>11, <1>12 DEF CacheTrue

LEMMA BackedPoint ==
  ASSUME TypeOK, FilesWhole, CacheTrue, PointsSaid, AppendCheckpoint
  PROVE  CacheTrue' /\ PointsSaid'
<1>1. alive /\ writer \in [op : {"checkpoint"}, panes : Points, todo : SUBSET Pane]
  BY WriterType DEF AppendCheckpoint
<1> DEFINE after == WithCheckpoint(disk[cur], Ids(writer.panes))
<1>2. after \in File /\ after.tail = disk[cur].tail /\ disk[cur] \in File /\ cur \in Generation
  BY <1>1, LineTypes
<1>3. \A p \in Pane : writer.panes[p] # 0 => disk[cur].versions[p] = writer.panes[p]
  <2>1. writer.op = "checkpoint" /\ writer.todo = {}
    BY DEF AppendCheckpoint
  <2> QED BY <1>1, <2>1 DEF CacheTrue, Ids
<1>4. [p \in Pane |-> IF p \in Ids(writer.panes) THEN disk[cur].versions[p] ELSE 0]
        = writer.panes
  BY <1>1, <1>3 DEF Ids, Points
<1>5. after.versions = writer.panes /\ after.checkpoint = writer.panes
  BY <1>2, <1>4 DEF WithCheckpoint, File
<1>6. Write(after)
  BY DEF AppendCheckpoint
<1> HIDE DEF after
<1>7. /\ disk'[cur] = after
      /\ \A x \in Generation : x # cur => disk'[x] = disk[x]
  BY <1>1, <1>2, <1>6, WriteWhole
<1>8. [p \in Pane |-> IF writer.panes[p] # 0 THEN cache.versions[p] ELSE 0] = writer.panes
  <2>1. cache.versions = disk[cur].versions
    BY <1>1 DEF CacheTrue
  <2> QED BY <1>1, <1>3, <2>1 DEF Points
<1>9. cache'.versions = writer.panes /\ cache'.checkpoint = writer.panes
  BY <1>8 DEF AppendCheckpoint
<1>10. cur' = cur /\ said'.point = [said.point EXCEPT ![cur] = writer.panes] /\ writer' = Free
  BY DEF AppendCheckpoint, TypeOK
<1>11. said.point \in [Generation -> Points]
  BY DEF TypeOK
<1>12. PointsSaid'
  BY <1>2, <1>5, <1>7, <1>10, <1>11 DEF PointsSaid
<1>13. writer'.op # "checkpoint"
  BY <1>10 DEF Free
<1> QED BY <1>5, <1>7, <1>9, <1>10, <1>12, <1>13 DEF CacheTrue

LEMMA BackedLine ==
  ASSUME TypeOK, CacheTrue, PointsSaid, NEW after \in File, after.tail = disk[cur].tail,
         after.versions = disk[cur].versions, after.checkpoint = disk[cur].checkpoint,
         NEW told, told.point = said.point, Record(after, told)
  PROVE  CacheTrue' /\ PointsSaid'
<1>1. /\ cur \in Generation /\ Unlocked
      /\ UNCHANGED <<alive, cur, cache, writer>>
      /\ disk' = [disk EXCEPT ![cur] = after] \/ SameLines
      /\ said' \in {said, told}
  BY RecordEffect
<1>2. \A g \in Generation : /\ disk'[g].versions = disk[g].versions
                            /\ disk'[g].checkpoint = disk[g].checkpoint
  BY <1>1 DEF SameLines, TypeOK
<1>3. alive
  BY <1>1 DEF Unlocked
<1> QED BY <1>1, <1>2, <1>3, BackedSame

LEMMA BackedRecord ==
  ASSUME TypeOK, CacheTrue, PointsSaid, NEW g,
         \/ g \in Grave /\ (RecordDestroyed(g) \/ RecordRevived(g))
         \/ g \in Generation /\ ResolveRestore(g)
  PROVE  CacheTrue' /\ PointsSaid'
<1>1. alive
  BY DEF RecordDestroyed, RecordRevived, ResolveRestore, Record, Unlocked
<1>2. disk[cur] \in File
  BY <1>1, LineTypes
<1>3. /\ WithGrave(disk[cur], g).versions = disk[cur].versions
      /\ WithGrave(disk[cur], g).checkpoint = disk[cur].checkpoint
      /\ WithRevival(disk[cur], g).versions = disk[cur].versions
      /\ WithRevival(disk[cur], g).checkpoint = disk[cur].checkpoint
      /\ WithResolution(disk[cur], g).versions = disk[cur].versions
      /\ WithResolution(disk[cur], g).checkpoint = disk[cur].checkpoint
  BY <1>2 DEF WithGrave, WithRevival, WithResolution, File
<1>4. /\ [said EXCEPT !.dead = @ \cup {g}].point = said.point
      /\ [said EXCEPT !.revived = @ \cup {g}].point = said.point
      /\ [said EXCEPT !.resolved = @ \cup {g}].point = said.point
  BY DEF TypeOK
<1>5. CASE g \in Grave /\ RecordDestroyed(g)
  <2>1. WithGrave(disk[cur], g) \in File /\ WithGrave(disk[cur], g).tail = disk[cur].tail
    BY <1>1, <1>5, LineTypes
  <2>2. Record(WithGrave(disk[cur], g), [said EXCEPT !.dead = @ \cup {g}])
    BY <1>5 DEF RecordDestroyed
  <2> QED BY <1>3, <1>4, <2>1, <2>2, BackedLine
<1>6. CASE g \in Grave /\ RecordRevived(g)
  <2>1. WithRevival(disk[cur], g) \in File /\ WithRevival(disk[cur], g).tail = disk[cur].tail
    BY <1>1, <1>6, LineTypes
  <2>2. Record(WithRevival(disk[cur], g), [said EXCEPT !.revived = @ \cup {g}])
    BY <1>6 DEF RecordRevived
  <2> QED BY <1>3, <1>4, <2>1, <2>2, BackedLine
<1>7. CASE g \in Generation /\ ResolveRestore(g)
  <2>1. WithResolution(disk[cur], g) \in File /\ WithResolution(disk[cur], g).tail = disk[cur].tail
    BY <1>1, <1>7, LineTypes
  <2>2. Record(WithResolution(disk[cur], g), [said EXCEPT !.resolved = @ \cup {g}])
    BY <1>7 DEF ResolveRestore
  <2> QED BY <1>3, <1>4, <2>1, <2>2, BackedLine
<1> QED BY <1>5, <1>6, <1>7

LEMMA BackedCompactFile ==
  ASSUME Sound, CacheTrue, PointsSaid, NEW x \in Generation, CompactFile(x), ~faults'.astray
  PROVE  CacheTrue' /\ PointsSaid'
<1>1. /\ \A y \in Generation : y # x => disk'[y] = disk[y]
      /\ disk'[x] = Compacted(disk[x], writer.keep)
      /\ disk'[x].checkpoint = disk[x].checkpoint
      /\ writer' \in [op : {"compact"}, left : SUBSET Generation, keep : SUBSET Grave]
  BY CompactFileEffect
<1>2. disk'[x].versions = disk[x].checkpoint
  BY <1>1, CompactedKeeps DEF Sound, TypeOK
<1>3. UNCHANGED <<alive, cur, cache, said>> /\ Drops(x)
  BY DEF CompactFile
<1>4. x = cur => cache.versions = disk[x].checkpoint
  BY <1>3, DropsType DEF Sound
<1>5. writer'.op # "checkpoint"
  BY <1>1
<1>6. PointsSaid'
  BY <1>1, <1>3 DEF PointsSaid
<1>7. alive /\ cur \in Generation
  BY WriterType DEF CompactFile, Sound, TypeOK
<1>8. cache'.versions = disk'[cur'].versions /\ cache'.checkpoint = disk'[cur'].checkpoint
  BY <1>1, <1>2, <1>3, <1>4, <1>7 DEF CacheTrue
<1> QED BY <1>5, <1>6, <1>8 DEF CacheTrue

LEMMA BackedStep ==
  ASSUME Sound, Whole, Backed, [Next]_vars
  PROVE  Backed'
<1> SUFFICES ASSUME Unspoilt', ~faults'.astray
             PROVE  CacheTrue' /\ PointsSaid'
  BY DEF Backed, PointsSaid
<1>0. TypeOK /\ Unspoilt /\ ~faults.astray
  BY FaultsStay DEF Sound
<1>1. FilesWhole /\ CacheTrue /\ PointsSaid
  BY <1>0 DEF Whole, Backed, PointsSaid
<1>2. ASSUME UNCHANGED <<disk, cur, cache, alive>>, said'.point = said.point,
             writer'.op = "checkpoint" => writer' = writer
      PROVE  CacheTrue' /\ PointsSaid'
  BY <1>1, <1>2 DEF CacheTrue, PointsSaid
<1>3. CASE UNCHANGED vars
  BY <1>2, <1>3 DEF vars
<1>4. CASE Crash
  BY <1>1, <1>4 DEF Crash, CacheTrue, PointsSaid, Free
<1>5. CASE CheckpointUnchanged
  <2>1. alive /\ cur \in Generation /\ said.point \in [Generation -> Points]
    BY <1>0, <1>5 DEF CheckpointUnchanged, Unlocked, TypeOK
  <2>2. said'.point = [said.point EXCEPT ![cur] = cache.checkpoint]
    BY <1>0, <1>5 DEF CheckpointUnchanged, TypeOK
  <2>3. cache.checkpoint = said.point[cur]
    BY <1>1, <2>1 DEF CacheTrue, PointsSaid
  <2>4. said'.point = said.point
    BY <2>1, <2>2, <2>3
  <2> QED BY <1>2, <1>5, <2>4 DEF CheckpointUnchanged
<1>6. ASSUME NEW panes \in Points, Checkpoint(panes) PROVE CacheTrue' /\ PointsSaid'
  <2>1. said'.point = said.point /\ UNCHANGED <<disk, alive, cur, cache>>
    BY <1>0, <1>6 DEF Checkpoint, TypeOK
  <2>2. writer'.panes = panes /\ writer'.todo = {p \in Ids(panes) : cache.versions[p] # panes[p]}
    BY <1>6 DEF Checkpoint
  <2>3. \A p \in Ids(writer'.panes) \ writer'.todo : cache'.versions[p] = writer'.panes[p]
    BY <2>1, <2>2
  <2> QED BY <1>1, <2>1, <2>3 DEF CacheTrue, PointsSaid
<1>7. CASE CheckpointFails
  <2>1. ~Fault("torn")
    BY <1>0, FaultType
  <2> QED BY <1>2, <1>7, <2>1 DEF CheckpointFails, Free
<1>8. ASSUME CheckpointSyncFails PROVE FALSE
  BY <1>0, <1>8, FaultType DEF CheckpointSyncFails
<1>9. ASSUME RecordTears PROVE FALSE
  BY <1>0, <1>9, FaultType DEF RecordTears
<1>10. CASE Compact \/ CompactEnd \/ CompactFails \/ ReadBegin \/ ReadDirectory \/ ReadEnd
  BY <1>2, <1>10 DEF Compact, CompactEnd, CompactFails, ReadBegin, ReadDirectory, ReadEnd, Free
<1>11. ASSUME NEW g, ReadFile(g) PROVE CacheTrue' /\ PointsSaid'
  BY <1>2, <1>11 DEF ReadFile
<1> QED BY <1>0, <1>1, <1>3, <1>4, <1>5, <1>6, <1>7, <1>8, <1>9, <1>10, <1>11, BackedOpen,
           BackedPane, BackedPoint, BackedRecord, BackedCompactFile DEF Next

LEMMA BackedInit == Init => Backed
<1> SUFFICES ASSUME Init PROVE Backed
  OBVIOUS
<1>1. /\ \A g \in Generation : disk[g] = Missing /\ said.point[g] = NoPanes
      /\ alive = FALSE /\ writer.op = "free"
  BY DEF Init, Free
<1> QED BY <1>1 DEF Backed, CacheTrue, Missing

(* Unless a write tore, compaction could not reopen the running file, or   *)
(* the cache was led astray, the restore point of every generation is the  *)
(* backup that was acknowledged last.                                      *)
THEOREM PointsAreKept == Spec => []PointsKept
<1>1. Init => Sound /\ Whole /\ Backed
  BY SoundInit, WholeInit, BackedInit
<1>2. (Sound /\ Whole /\ Backed) /\ [Next]_vars => (Sound /\ Whole /\ Backed)'
  BY SoundStep, WholeStep, BackedStep
<1>3. Backed => PointsKept
  BY DEF Backed, PointsKept
<1> QED BY <1>1, <1>2, <1>3, PTL DEF Spec

-----------------------------------------------------------------------------
(* Readers beside the writers.                                             *)

ReaderSame == reader' = reader \/ reader' = Quiet

LEMMA ReaderSteps ==
  ASSUME [Next]_vars
  PROVE  \/ ReaderSame
         \/ ReadBegin \/ ReadDirectory
         \/ \E g \in Generation : ReadFile(g)
<1>1. CASE UNCHANGED vars
  BY <1>1 DEF vars, ReaderSame
<1>2. ASSUME NEW g, \/ Start(g) \/ SwitchGeneration(g) \/ Checkpoint(g) \/ AppendPane(g)
                    \/ CompactFile(g)
      PROVE  ReaderSame
  BY <1>2 DEF Start, SwitchGeneration, Checkpoint, AppendPane, CompactFile, ReaderSame
<1>3. ASSUME NEW g, RecordDestroyed(g) \/ RecordRevived(g) \/ ResolveRestore(g) PROVE ReaderSame
  BY <1>3 DEF RecordDestroyed, RecordRevived, ResolveRestore, Record, ReaderSame
<1>4. CASE \/ Crash \/ CheckpointUnchanged \/ AppendCheckpoint \/ CheckpointFails
           \/ CheckpointSyncFails \/ RecordTears \/ Compact \/ CompactEnd \/ CompactFails
           \/ ReadEnd
  BY <1>4 DEF Crash, CheckpointUnchanged, AppendCheckpoint, CheckpointFails,
     CheckpointSyncFails, RecordTears, Compact, CompactEnd, CompactFails, ReadEnd, ReaderSame
<1> QED BY <1>1, <1>2, <1>3, <1>4 DEF Next

(* Resolutions stay in their files, and generations only go on.            *)
LEMMA ResolvedStay ==
  ASSUME Sound, [Next]_vars
  PROVE  /\ \A x \in Generation : disk[x].resolved \subseteq disk'[x].resolved
         /\ Resolutions \subseteq Resolutions'
         /\ cur <= cur'
<1>0. TypeOK /\ cur \in Nat
  <2>1. cur \in {0} \cup Generation /\ TypeOK
    BY DEF Sound, TypeOK
  <2> QED BY <2>1, JournalAssumption DEF JournalAssumption
<1> DEFINE Stay == \A x \in Generation : disk[x].resolved \subseteq disk'[x].resolved
<1>1. Stay
  <2>1. CASE Steady \/ Compact
    BY <2>1 DEF Steady, SameEntries, Compact
  <2>2. ASSUME NEW g \in Generation, CompactFile(g) PROVE Stay
    BY <2>2, CompactFileEffect
  <2>3. ASSUME NEW after \in File, after.tail = disk[cur].tail, NEW told, Record(after, told),
               disk[cur].resolved \subseteq after.resolved
        PROVE  Stay
    <3>1. disk' = [disk EXCEPT ![cur] = after] \/ SameLines
      BY <1>0, <2>3, RecordEffect
    <3> QED BY <1>0, <2>3, <3>1 DEF SameLines, TypeOK
  <2>4. ASSUME alive
        PROVE  /\ \A g \in Grave : /\ disk[cur].resolved \subseteq WithGrave(disk[cur], g).resolved
                                   /\ disk[cur].resolved \subseteq WithRevival(disk[cur], g).resolved
               /\ \A g \in Generation : disk[cur].resolved \subseteq WithResolution(disk[cur], g).resolved
    <3>1. disk[cur] \in File
      BY <1>0, <2>4, LineTypes
    <3> QED BY <3>1 DEF WithGrave, WithRevival, WithResolution, File
  <2>5. ASSUME NEW g \in Generation, ResolveRestore(g) PROVE Stay
    BY <1>0, <2>3, <2>4, <2>5, LineTypes DEF ResolveRestore, Record, Unlocked
  <2>6. ASSUME NEW g \in Grave, RecordDestroyed(g) \/ RecordRevived(g) PROVE Stay
    BY <1>0, <2>3, <2>4, <2>6, LineTypes DEF RecordDestroyed, RecordRevived, Record, Unlocked
  <2> QED BY <1>0, <2>1, <2>2, <2>5, <2>6, EntrySteps
<1>2. Resolutions \subseteq Resolutions'
  BY <1>1 DEF Resolutions
<1>3. cur <= cur'
  <2>1. ASSUME NEW g \in Generation, Start(g) \/ SwitchGeneration(g) PROVE cur <= cur'
    <3>1. g >= cur /\ cur' \in {cur, g} /\ g \in Nat
      BY <1>0, <2>1, OpenType, JournalAssumption DEF Start, SwitchGeneration, JournalAssumption
    <3> QED BY <1>0, <3>1
  <2>2. ASSUME NEW g \in Generation, CompactFile(g) PROVE cur <= cur'
    BY <1>0, <2>2 DEF CompactFile
  <2> QED BY <1>0, <2>1, <2>2, OtherFilesStay
<1> QED BY <1>1, <1>2, <1>3

LEMMA ReadsResolvedStep ==
  ASSUME Sound, Whole, ReadsResolved, [Next]_vars
  PROVE  ReadsResolved'
<1> SUFFICES ASSUME Unspoilt' PROVE ReadsResolved'
  BY DEF ReadsResolved
<1>0. TypeOK /\ FilesOpened /\ Unspoilt
  BY FaultsStay DEF Sound
<1>1. CASE reader' = Quiet
  BY <1>1 DEF Quiet, ReadsResolved
<1>2. CASE reader' = reader
  <2>1. reader.pc = "begun" => reader.resolved \subseteq Resolutions'
    BY <1>0, ResolvedStay DEF ReadsResolved
  <2>2. ASSUME reader.pc = "reading", NEW src \in reader.resolved
        PROVE  \E x \in Generation :
                 src \in (IF x \in reader.left THEN disk'[x] ELSE reader.got[x]).resolved
    <3>1. PICK x \in Generation :
            src \in (IF x \in reader.left THEN disk[x] ELSE reader.got[x]).resolved
      BY <1>0, <2>2 DEF ReadsResolved
    <3>2. disk[x].resolved \subseteq disk'[x].resolved
      BY ResolvedStay
    <3> QED BY <3>1, <3>2
  <2>3. ASSUME reader.pc = "reading", NEW x \in Generation, reader.got[x].has_checkpoint
        PROVE  x <= cur'
    <3>1. x <= cur /\ cur <= cur'
      BY <1>0, <2>3, ResolvedStay DEF ReadsResolved
    <3>2. x \in Nat /\ cur \in Nat /\ cur' \in Nat
      <4>1. cur \in {0} \cup Generation /\ cur' \in {0} \cup Generation
        BY <1>0, TypeStep DEF TypeOK
      <4> QED BY <4>1, JournalAssumption DEF JournalAssumption
    <3> QED BY <3>1, <3>2
  <2> QED BY <1>2, <2>1, <2>2, <2>3 DEF ReadsResolved
<1>3. CASE ReadBegin
  <2>1. reader'.pc = "begun" /\ reader'.resolved = said.resolved /\ disk' = disk
    BY <1>3 DEF ReadBegin
  <2>2. said.resolved \subseteq Resolutions'
    BY <1>0, <2>1 DEF Whole, ResolutionsKept, Resolutions
  <2> QED BY <2>1, <2>2 DEF ReadsResolved
<1>4. CASE ReadDirectory
  <2>1. /\ reader'.pc = "reading" /\ reader'.resolved = reader.resolved /\ disk' = disk
        /\ reader'.left = {g \in Generation : Exists(g)}
        /\ reader'.got = [g \in Generation |-> Missing]
    BY <1>4 DEF ReadDirectory
  <2>2. ASSUME NEW src \in reader.resolved
        PROVE  \E x \in Generation : x \in reader'.left /\ src \in disk[x].resolved
    <3>1. PICK x \in Generation : src \in disk[x].resolved
      BY <1>0, <1>4 DEF ReadsResolved, ReadDirectory, Resolutions
    <3>2. Exists(x)
      BY <1>0, <3>1 DEF FilesOpened, Missing
    <3> QED BY <2>1, <3>1, <3>2
  <2>3. \A x \in Generation : ~reader'.got[x].has_checkpoint
    BY <2>1 DEF Missing
  <2> QED BY <2>1, <2>2, <2>3 DEF ReadsResolved
<1>5. ASSUME NEW g \in Generation, ReadFile(g), reader' # Quiet PROVE ReadsResolved'
  <2>1. reader \in [pc : {"reading"}, cur : Generation, revived : SUBSET Grave,
                    resolved : SUBSET Generation, left : SUBSET Generation,
                    got : [Generation -> File]]
    BY <1>0, <1>5 DEF TypeOK, ReadFile, Quiet
  <2>2. /\ reader'.pc = "reading" /\ reader'.resolved = reader.resolved
        /\ reader'.left = reader.left \ {g}
        /\ reader'.got = [reader.got EXCEPT ![g] = disk[g]]
        /\ disk' = disk /\ cur' = cur
    BY <1>5, <2>1 DEF ReadFile
  <2>3. ASSUME NEW x \in Generation
        PROVE  (IF x \in reader'.left THEN disk'[x] ELSE reader'.got[x])
                 = IF x \in reader.left THEN disk[x] ELSE reader.got[x]
    BY <1>5, <2>1, <2>2 DEF ReadFile
  <2>4. \A src \in reader.resolved : \E x \in Generation :
          src \in (IF x \in reader.left THEN disk[x] ELSE reader.got[x]).resolved
    BY <1>0, <2>1 DEF ReadsResolved
  <2>5. ASSUME NEW x \in Generation, reader'.got[x].has_checkpoint PROVE x <= cur
    <3>1. CASE x = g
      <4>1. disk[g].has_checkpoint
        BY <2>1, <2>2, <2>5, <3>1
      <4> QED BY <1>0, <3>1, <4>1 DEF FilesOpened, Missing
    <3>2. CASE x # g
      BY <1>0, <2>1, <2>2, <2>5, <3>2 DEF ReadsResolved
    <3> QED BY <3>1, <3>2
  <2> QED BY <2>2, <2>3, <2>4, <2>5 DEF ReadsResolved
<1> QED BY <1>1, <1>2, <1>3, <1>4, <1>5, ReaderSteps DEF ReaderSame

LEMMA ReadsResolvedInit == Init => ReadsResolved
BY DEF Init, ReadsResolved, Quiet

(* The files a reader has read offer no restore point that was used up     *)
(* before it began, although they are of different moments.                *)
LEMMA OffersUnused ==
  ASSUME Sound, ReadsResolved, Unspoilt, ReadDone
  PROVE  LatestCheckpoint(reader.got, reader.cur, FALSE, TRUE) \notin reader.resolved
<1> DEFINE resolved == UNION {reader.got[g].resolved : g \in Generation}
           found == {g \in Generation :
                       /\ reader.got[g].has_checkpoint
                       /\ FALSE \/ g # reader.cur
                       /\ TRUE => /\ g \notin resolved
                                  /\ reader.got[g].checkpoint # NoPanes}
<1>1. LatestCheckpoint(reader.got, reader.cur, FALSE, TRUE)
        = IF found = {} THEN 0 ELSE CHOOSE g \in found : \A h \in found : h <= g
  BY DEF LatestCheckpoint
<1>2. Generation \subseteq Nat \ {0}
  BY JournalAssumption DEF JournalAssumption
<1>3. reader.pc = "reading" /\ reader.left = {} /\ reader.resolved \subseteq Generation
  BY DEF ReadDone, Sound, TypeOK, Quiet
<1>4. reader.resolved \subseteq resolved
  BY <1>3 DEF ReadsResolved
<1>5. CASE found = {}
  BY <1>1, <1>2, <1>3, <1>5
<1>6. CASE found # {}
  <2>1. cur \in Nat
    <3>1. cur \in {0} \cup Generation
      BY DEF Sound, TypeOK
    <3> QED BY <1>2, <3>1
  <2>2. found \subseteq 0 .. cur
    <3>1. ASSUME NEW x \in found PROVE x \in Nat /\ x <= cur
      <4>1. x \in Generation /\ reader.got[x].has_checkpoint
        OBVIOUS
      <4> HIDE DEF found
      <4>2. x <= cur
        BY <1>3, <4>1 DEF ReadsResolved
      <4> QED BY <1>2, <4>1, <4>2
    <3> HIDE DEF found
    <3> QED BY <2>1, <3>1
  <2>3. IsFiniteSet(found) /\ found \in SUBSET Nat
    <3>1. IsFiniteSet(0 .. cur)
      BY <2>1, FS_Interval
    <3> QED BY <2>1, <2>2, <3>1, FS_Subset
  <2>4. \A g \in found : g \notin resolved
    OBVIOUS
  <2> HIDE DEF found, resolved
  <2>5. \E g \in found : \A h \in found : h <= g
    BY <1>6, <2>3, GreatestExists
  <2>6. (CHOOSE g \in found : \A h \in found : h <= g) \in found
    BY <2>5
  <2> QED BY <1>1, <1>4, <1>6, <2>4, <2>6
<1> QED BY <1>5, <1>6

(* A request that reads file after file, while graves are written and      *)
(* compaction replaces the files under it, offers no restore point that    *)
(* was used up before it began.                                            *)
THEOREM OffersNoUsedPoint == Spec => []ReaderOffersNoUsedPoint
<1>1. Init => Sound /\ Whole /\ ReadsResolved
  BY SoundInit, WholeInit, ReadsResolvedInit
<1>2. (Sound /\ Whole /\ ReadsResolved) /\ [Next]_vars => (Sound /\ Whole /\ ReadsResolved)'
  BY SoundStep, WholeStep, ReadsResolvedStep
<1>3. Sound /\ ReadsResolved => ReaderOffersNoUsedPoint
  BY OffersUnused DEF ReaderOffersNoUsedPoint
<1> QED BY <1>1, <1>2, <1>3, PTL DEF Spec
=============================================================================
