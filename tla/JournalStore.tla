---------------------------- MODULE JournalStore ----------------------------
(***************************************************************************)
(* What the lifecycle journal promises: a store of restore points, graves, *)
(* revivals and restore resolutions in which every operation happens at    *)
(* once.  LifecycleJournal, with its files, its cache, its crashes and its *)
(* compaction file by file, is checked to implement it.                    *)
(***************************************************************************)
EXTENDS Naturals, FiniteSets

CONSTANTS
  Generation,  \* tmux session incarnations, numbered in order of start
  Pane,        \* pane ids
  Version,     \* recovery metadata of a pane: numbers from 1
  Grave,       \* death records, numbered in order of death
  MaxEntries   \* grave_max_entries

VARIABLES
  now,       \* the running generation, 0 before the first
  point,     \* the restore point of each generation: metadata, 0 = no pane
  taken,     \* the generations whose restore point was ever written
  dead,      \* the graves kept
  revived,   \* those of them that are marked revived
  resolved   \* the generations whose restore point is used up

storeVars == <<now, point, taken, dead, revived, resolved>>

Points == [Pane -> {0} \cup Version]
NoPoint == [p \in Pane |-> 0]

StoreInit ==
  /\ now = 0
  /\ point = [g \in Generation |-> NoPoint]
  /\ taken = {}
  /\ dead = {}
  /\ revived = {}
  /\ resolved = {}

OpenGeneration(g) ==
  /\ g > now
  /\ now' = g
  /\ UNCHANGED <<point, taken, dead, revived, resolved>>

(* A backup replaces the running generation's restore point and no other.  *)
SetPoint(s) ==
  /\ now # 0
  /\ point' = [point EXCEPT ![now] = s]
  /\ taken' = taken \cup {now}
  /\ UNCHANGED <<now, dead, revived, resolved>>

Bury(g) ==
  /\ \A h \in dead : h < g
  /\ dead' = dead \cup {g}
  /\ UNCHANGED <<now, point, taken, revived, resolved>>

MarkRevived(g) ==
  /\ g \in dead
  /\ revived' = revived \cup {g}
  /\ UNCHANGED <<now, point, taken, dead, resolved>>

(* The running generation is never used up.                                *)
MarkResolved(src) ==
  /\ src < now
  /\ resolved' = resolved \cup {src}
  /\ UNCHANGED <<now, point, taken, dead, revived>>

(* Retention forgets graves, never one of the newest MaxEntries, and takes *)
(* their revival marks along.                                              *)
Newer(g) == {h \in dead : h > g}

Forget(gone) ==
  /\ \A g \in gone : Cardinality(Newer(g)) >= MaxEntries
  /\ dead' = dead \ gone
  /\ revived' = revived \ gone
  /\ UNCHANGED <<now, point, taken, resolved>>

StoreNext ==
  \/ \E g \in Generation : OpenGeneration(g)
  \/ \E s \in Points : SetPoint(s)
  \/ \E g \in Grave : Bury(g) \/ MarkRevived(g)
  \/ \E src \in Generation : MarkResolved(src)
  \/ \E gone \in SUBSET dead : Forget(gone)

StoreSpec == StoreInit /\ [][StoreNext]_storeVars

-----------------------------------------------------------------------------
(* Reading the store.                                                      *)

Newest(gens) == IF gens = {} THEN 0 ELSE CHOOSE g \in gens : \A h \in gens : h <= g

(* The restore point an earlier generation left to be decided on.          *)
Pending ==
  Newest({g \in taken : g # now /\ g \notin resolved /\ point[g] # NoPoint})

(* What an explicit restore takes.                                         *)
ManualSource == IF Pending # 0 THEN Pending ELSE Newest(taken)

=============================================================================
