------------------------ MODULE AcpSessionsProofs ------------------------
(***************************************************************************)
(* Proofs about AcpSessions, for any number of sessions and panes, any     *)
(* limit of live panes, and any bounds on crashes, troubles and prompts:   *)
(* types, and that deleted sessions stay deleted, that nothing which can   *)
(* be brought back is lost, and that turns keep their panes.               *)
(*                                                                         *)
(* All follow from one inductive invariant, Inv.  For every action there   *)
(* is a lemma ...Does, which says what it does field by field, and one     *)
(* ...Step, that it keeps Inv.  The latter rest on TidyGives, TidyKeeps    *)
(* and TurnRemains: how a step may change panes, graves, sessions and      *)
(* turns, whichever action it is, so that Inv still holds of them.         *)
(***************************************************************************)
EXTENDS AcpSessions, FiniteSetTheorems, WellFoundedInduction, TLAPS

-----------------------------------------------------------------------------
(* The inductive invariant.                                                *)

At(pcs) == op.pc \in pcs
Gone(p) == panes[p].st = "gone"
Has(s) == sessions[s].st = "known"
Homeless(p) == \A s \in Session : sessions[s].pane # p
Active(s) == turns[s].pc \in {"sending", "accepted", "running"}

\* Grave g is the latest of session s.
Latest(s, g) == \E i \in GravesOf(s) : graves[i] = g /\ \A j \in GravesOf(s) : j <= i

\* An absent session and a pane that never started have nothing.
Blank ==
  /\ \A s \in Session : ~Has(s) => sessions[s] = Absent
  /\ \A p \in Pane : panes[p].st = "new" => panes[p] = NoPane

\* The pane and the grave of a session are tagged as its own.
Owned(s) ==
  /\ sessions[s].pane # None => /\ panes[sessions[s].pane].session = s
                                /\ "acp" \in panes[sessions[s].pane].tags
                                /\ panes[sessions[s].pane].st # "new"
  /\ sessions[s].grave # None => Gone(sessions[s].grave) /\ panes[sessions[s].grave].session = s

\* What goes on while an operation holds session_creation, by its kind.
OpKinds ==
  /\ op.kind = "none" <=> op.pc = "idle"
  /\ op.kind = "recover" <=> mode = "recovering"
  /\ op.kind \in {"sweep", "recover"} =>
       At({"list", "rebuild", "adopt", "clear", "strip", "lease", "take", "evict", "bury"})
  /\ At({"list", "adopt", "strip", "lease"}) => op.kind = "sweep"
  /\ At({"rebuild", "clear"}) => op.kind = "recover"
  /\ At({"tombstone", "erase"}) => op.kind = "delete"
  /\ At({"close", "gone"}) <=> op.kind = "close"
  /\ At({"resident"}) => op.kind \in {"resume", "prompt", "delete"}
  /\ At({"use"}) => op.kind \in {"prompt", "delete"}

Starting == {"room", "take", "evict", "bury", "start", "live", "tag", "mark", "install"}
Started == {"live", "tag", "mark", "install"}

\* Its session: a new one is of nobody, another is known and has no pane
\* until the one started for it is installed.
OpSession ==
  /\ op.kind \in {"resume", "prompt", "delete", "close"} => op.s \in Session /\ Has(op.s)
  /\ op.kind = "new" =>
       /\ op.s \in Session \ deleted /\ ~Has(op.s) /\ turns[op.s].pc = "none"
       /\ op.native = None /\ op.grave = None /\ ~op.resumed
  /\ op.kind \in {"resume", "prompt", "delete"} /\ At(Starting) => sessions[op.s].pane = None
  /\ op.kind \in {"delete", "close"} /\ Active(op.s) => turns[op.s].cancelled
  /\ op.grave # None => op.grave \in Pane /\ Gone(op.grave) /\ panes[op.grave].session = op.s
  /\ At({"take", "evict", "bury"}) => op.victim \in Session /\ Has(op.victim)

\* Its pane: one that it starts, evicts or strips is of no session any more.
OpPane ==
  /\ At({"evict", "strip", "tombstone", "erase", "close", "gone"} \cup Started) =>
       op.pane \in Pane /\ panes[op.pane].st # "new"
  /\ At({"evict", "strip"} \cup Started) => Homeless(op.pane)
  /\ At({"evict"}) => panes[op.pane].session = op.victim /\ "acp" \in panes[op.pane].tags
  /\ At({"live"}) => panes[op.pane].session = None /\ panes[op.pane].tags = {}
  /\ At({"tag"}) => panes[op.pane].session \in {None, op.s}
  /\ At({"mark", "install", "tombstone", "erase", "close", "gone"}) =>
       panes[op.pane].session = op.s /\ "acp" \in panes[op.pane].tags
  /\ At({"tag", "mark", "install"}) /\ op.kind = "new" => "resumable" \notin panes[op.pane].tags
  /\ At({"tombstone", "erase"}) => sessions[op.s].pane \in {None, op.pane}
  /\ At({"erase"}) => "deleted" \in panes[op.pane].tags
  /\ At({"gone"}) => Gone(op.pane)

\* The panes that a sweep, or a recovery, found to be of no session.
OpTodo ==
  /\ ~At({"adopt", "strip", "lease", "clear"}) => op.todo = {}
  /\ \A p \in op.todo :
       /\ panes[p].st # "new"
       /\ Homeless(p) \/ (At({"lease"}) /\ p = op.pane)
       /\ "acp" \in panes[p].tags \/ (At({"strip"}) /\ p = op.pane)
       /\ op.kind = "sweep" => panes[p].session \notin deleted \ strayed

\* A deleted session has no live pane, and its latest grave is its tombstone.
Deleted(s) ==
  s \in deleted \ strayed =>
    /\ ~Has(s)
    /\ \A p \in Pane : Up(p) => panes[p].session # s
    /\ \A g \in Pane : Latest(s, g) => "deleted" \in panes[g].tags

\* A turn whose pane is up has it to itself.
Turning(s) ==
  /\ turns[s].pc # "none" => turns[s].pane \in Pane /\ panes[turns[s].pane].st # "new"
  /\ turns[s].pc = "stale" => Gone(turns[s].pane)
  /\ Active(s) /\ Up(turns[s].pane) => sessions[s].turn /\ sessions[s].pane = turns[s].pane
  /\ stale[s].pc \in {"kill", "forget"} => stale[s].pane \in Pane /\ Gone(stale[s].pane)
  /\ mode = "recovering" => turns[s].pc = "none" /\ stale[s].pc = "none"

Entombed(s) == \E p \in Pane : Gone(p) /\ "deleted" \in panes[p].tags /\ panes[p].session = s
Covered(s) == Has(s) \/ Entombed(s)

\* What can be brought back is known, or was deleted.
Kept(p) ==
  {"acp", "resumable"} \subseteq panes[p].tags /\ panes[p].session # None =>
    /\ Up(p) => \/ Covered(panes[p].session)
                \/ op.kind = "recover" /\ "deleted" \in panes[p].tags /\ p \in op.todo
    /\ panes[p].bound /\ Latest(panes[p].session, p) => Covered(panes[p].session)

Inv ==
  /\ TypeOK /\ Blank /\ OpKinds /\ OpSession /\ OpPane /\ OpTodo
  /\ \A s \in Session : Owned(s) /\ Deleted(s) /\ Turning(s)
  /\ ~At({"rebuild"}) => \A p \in Pane : Kept(p)

-----------------------------------------------------------------------------
(* Constants, graves and single edits.                                     *)

\* What the proofs use of the assumption on the constants.
LEMMA Constants ==
  /\ None \notin Session /\ None \notin Pane /\ Pane \subseteq Nat /\ Session \subseteq Nat
  /\ IsFiniteSet(Pane)
<1>1. MaxPanes \in Nat /\ MaxSessions \in Nat
  BY SessionsAssumption
<1>2. IsFiniteSet(1..MaxPanes)
  BY <1>1, FS_Interval
<1> QED BY <1>1, <1>2, NoneAssumption DEF Session, Pane

\* The order of the pane ids is the one of the naturals.
LEMMA LessThan == \A i, j \in Nat : i < j => <<i, j>> \in OpToRel(<, Nat)
BY Zenon DEF OpToRel

\* Numbers have a first.
LEMMA Least ==
  ASSUME NEW S \in SUBSET Nat, S # {}
  PROVE  \E n \in S : \A m \in S : n <= m
<1>1. PICK n \in S : \A m \in S : ~(<<m, n>> \in OpToRel(<, Nat))
  BY NatLessThanWellFounded, WFMin, Zenon
<1>2. \A m \in S : n <= m
  <2> SUFFICES ASSUME NEW m \in S PROVE n <= m
    OBVIOUS
  <2>1. ~(m < n)
    BY <1>1, LessThan
  <2> QED BY <2>1
<1> QED BY <1>2

\* Bounded numbers have a last.
LEMMA Greatest ==
  ASSUME NEW n \in Nat, NEW S \in SUBSET (1..n), S # {}
  PROVE  \E i \in S : \A j \in S : j <= i
<1> DEFINE R == {n - i : i \in S}
<1>1. R \subseteq Nat
  OBVIOUS
<1>6. R # {}
  <2>1. PICK i \in S : TRUE
    OBVIOUS
  <2>2. n - i \in R
    OBVIOUS
  <2> QED BY <2>2
<1>2. PICK r \in R : \A q \in R : r <= q
  <2> HIDE DEF R
  <2> QED BY <1>1, <1>6, Least
<1>3. PICK i \in S : r = n - i
  BY <1>2
<1>4. \A j \in S : n - j \in R
  OBVIOUS
<1>5. \A j \in S : r <= n - j
  BY <1>2, <1>4
<1>7. \A j \in S : j <= i
  BY <1>3, <1>5
<1> QED BY <1>7

\* The next pane and the next id are fresh ones.
LEMMA FirstFresh ==
  /\ FreshPanes # {} => FirstOf(FreshPanes) \in Pane /\ panes[FirstOf(FreshPanes)].st = "new"
  /\ FreshIds # {} => FirstOf(FreshIds) \in FreshIds
<1>1. ASSUME NEW S \in SUBSET Nat, S # {}
      PROVE  FirstOf(S) \in S
  <2>1. \E n \in S : \A m \in S : n <= m
    BY <1>1, Least
  <2> QED BY <2>1 DEF FirstOf
<1>2. FreshPanes \subseteq Nat /\ FreshIds \subseteq Nat
  BY Constants DEF FreshPanes, FreshIds
<1>3. FreshPanes # {} => FirstOf(FreshPanes) \in FreshPanes
  <2> HIDE DEF FreshPanes
  <2> QED BY <1>1, <1>2
<1>4. FreshIds # {} => FirstOf(FreshIds) \in FreshIds
  <2> HIDE DEF FreshIds
  <2> QED BY <1>1, <1>2
<1> QED BY <1>3, <1>4 DEF FreshPanes

\* LatestGrave is the latest of the graves.
LEMMA LatestIs ==
  ASSUME TypeOK, NEW s \in Session
  PROVE  /\ \A g : Latest(s, g) => g = LatestGrave(s) /\ g \in Pane /\ Gone(g)
                                   /\ panes[g].session = s
         /\ GravesOf(s) # {} => Latest(s, LatestGrave(s))
<1>1. /\ GravesOf(s) \subseteq 1..Len(graves) /\ Len(graves) \in Nat
      /\ \A i \in GravesOf(s) : /\ graves[i] \in Pane /\ Gone(graves[i])
                                /\ panes[graves[i]].session = s
  BY DEF TypeOK, GravesOf, PaneIds, Range, Gone
<1> DEFINE k == CHOOSE i \in GravesOf(s) : \A j \in GravesOf(s) : j <= i
<1>2. GravesOf(s) # {} => k \in GravesOf(s) /\ \A j \in GravesOf(s) : j <= k
  <2> SUFFICES ASSUME GravesOf(s) # {} PROVE k \in GravesOf(s) /\ \A j \in GravesOf(s) : j <= k
    OBVIOUS
  <2>1. \E i \in GravesOf(s) : \A j \in GravesOf(s) : j <= i
    <3> HIDE DEF k
    <3> QED BY <1>1, Greatest
  <2> QED BY <2>1
<1>3. LatestGrave(s) = graves[k]
  BY DEF LatestGrave
<1> HIDE DEF k
<1>4. ASSUME NEW g, Latest(s, g)
      PROVE  g = graves[k] /\ g \in Pane /\ Gone(g) /\ panes[g].session = s
  <2>1. PICK i \in GravesOf(s) : graves[i] = g /\ \A j \in GravesOf(s) : j <= i
    BY <1>4 DEF Latest
  <2>2. i = k
    BY <1>1, <1>2, <2>1
  <2> QED BY <1>1, <2>1, <2>2
<1>5. GravesOf(s) # {} => Latest(s, graves[k])
  BY <1>2 DEF Latest
<1> QED BY <1>3, <1>4, <1>5

-----------------------------------------------------------------------------
(* What the operators that several actions share do.                       *)

OpIs(k, s, pc, p, v, n, g, r, t, a) ==
  op' = [kind |-> k, s |-> s, pc |-> pc, pane |-> p, victim |-> v, native |-> n, grave |-> g,
         resumed |-> r, todo |-> t, again |-> a]
SameDaemon == panes' = panes /\ graves' = graves
OnlyPane(p) == panes' \in [Pane -> Panes] /\ \A q \in Pane \ {p} : panes'[q] = panes[q]
OnlySession(s) == /\ sessions' \in [Session -> Entries]
                  /\ \A x \in Session \ {s} : sessions'[x] = sessions[x]
OnlyTurn(s) == turns' \in [Session -> Turns] /\ \A x \in Session \ {s} : turns'[x] = turns[x]

\* Pane p is killed, if it is up.
Killed(p) ==
  /\ p \in Pane /\ OnlyPane(p)
  /\ panes'[p].tags = panes[p].tags /\ panes'[p].session = panes[p].session
  /\ panes'[p].bound = panes[p].bound /\ panes'[p].convo = panes[p].convo
  /\ Up(p) => panes'[p].st = "gone" /\ graves' = Append(graves, p)
  /\ ~Up(p) => SameDaemon

\* Grave g comes up as pane q.
Revives(g, q) ==
  /\ q \in Pane /\ panes[q].st = "new" /\ g \in Pane /\ Gone(g) /\ panes[g].bound
  /\ g \in Range(graves)
  /\ OnlyPane(q) /\ panes'[q].st = "up" /\ panes'[q].tags = panes[g].tags
  /\ panes'[q].session = panes[g].session
  /\ graves' = ReplaceAll(graves, g, None)

\* The tags or the session of pane p change; it stays up.
Retags(p) ==
  /\ p \in Pane /\ OnlyPane(p) /\ graves' = graves /\ Up(p)
  /\ panes'[p].st = "up" /\ panes'[p].bound = panes[p].bound

\* Sessions may lose panes that are not up.
Reconciles ==
  /\ sessions' \in [Session -> Entries] /\ turns' \in [Session -> Turns]
  /\ \A s \in Session :
       /\ sessions'[s].st = sessions[s].st /\ sessions'[s].grave = sessions[s].grave
       /\ sessions'[s].turn = sessions[s].turn
       /\ sessions'[s].pane \in {sessions[s].pane, None}
       /\ Up(sessions[s].pane) => sessions'[s].pane = sessions[s].pane
       /\ ~Has(s) => sessions'[s] = sessions[s]
       /\ turns'[s].pc = turns[s].pc /\ turns'[s].pane = turns[s].pane
       /\ turns[s].cancelled => turns'[s].cancelled

\* Session s has its latest grave noted, and may lose pane p.
Captures(s, p) ==
  /\ s \in Session /\ OnlySession(s)
  /\ sessions'[s].st = sessions[s].st /\ sessions'[s].turn = sessions[s].turn
  /\ sessions'[s].pane = IF sessions[s].pane = p THEN None ELSE sessions[s].pane
  /\ sessions'[s].grave = sessions[s].grave \/ Latest(s, sessions'[s].grave)
  /\ ~Has(s) => sessions' = sessions

Answered ==
  /\ mode = "serving" => OpIs("none", None, "idle", None, None, None, None, FALSE, {}, FALSE)
  /\ mode = "recovering" =>
       OpIs("recover", None, "rebuild", None, None, None, None, FALSE, {}, FALSE)

LEMMA AnswerDoes == Answer /\ mode \in {"serving", "recovering"} => Answered /\ op' \in Ops
<1>1. ASSUME Answer, mode = "serving" PROVE Answered /\ op' \in Ops
  <2>1. op' = Idle
    BY <1>1 DEF Answer
  <2> QED BY <1>1, <2>1 DEF Answered, OpIs, Idle, Ops, OpKind, OpStep, PaneIds, SessionIds
<1>2. ASSUME Answer, mode = "recovering" PROVE Answered /\ op' \in Ops
  <2>1. op' = [Idle EXCEPT !.kind = "recover", !.pc = "rebuild"]
    BY <1>2 DEF Answer
  <2>2. OpIs("recover", None, "rebuild", None, None, None, None, FALSE, {}, FALSE)
    BY <2>1 DEF OpIs, Idle
  <2>3. op' \in Ops
    BY <2>2 DEF OpIs, Ops, OpKind, OpStep, PaneIds, SessionIds
  <2> QED BY <1>2, <2>2, <2>3 DEF Answered
<1> QED BY <1>1, <1>2

LEMMA GotoDoes ==
  ASSUME op \in Ops, NEW pc \in OpStep, Goto(pc)
  PROVE  /\ OpIs(op.kind, op.s, pc, op.pane, op.victim, op.native, op.grave, op.resumed, op.todo,
                 op.again)
         /\ op' \in Ops
BY DEF Ops, Goto, OpIs

DaemonOK == /\ panes \in [Pane -> Panes] /\ graves \in Seq(PaneIds)
            /\ \A g \in Range(graves) \ {None} : panes[g].st = "gone"

LEMMA UpIs == \A p : Up(p) => p # None
BY DEF Up

\* Kill, and the calls of the daemon it stands for.
LEMMA KillDoes ==
  ASSUME DaemonOK, NEW p \in Pane, Kill(p)
  PROVE  Killed(p) /\ DaemonOK'
<1>1. CASE ~Up(p)
  BY <1>1 DEF DaemonOK, Kill, Killed, OnlyPane, SameDaemon, daemonVars
<1>2. CASE Up(p)
  <2>1. panes' = [panes EXCEPT ![p].st = "gone"] /\ graves' = Append(graves, p)
    BY <1>2 DEF Kill, Bury
  <2>2. OnlyPane(p) /\ panes'[p].st = "gone"
        /\ panes'[p].tags = panes[p].tags /\ panes'[p].session = panes[p].session
        /\ panes'[p].bound = panes[p].bound /\ panes'[p].convo = panes[p].convo
    BY <2>1 DEF DaemonOK, OnlyPane, Panes
  <2>3. graves' \in Seq(PaneIds) /\ Range(graves') = Range(graves) \cup {p}
    BY <2>1 DEF DaemonOK, PaneIds, Range
  <2>4. DaemonOK'
    <3>1. \A g \in Range(graves) \ {None} : panes'[g].st = "gone"
      <4> SUFFICES ASSUME NEW g \in Range(graves) \ {None} PROVE panes'[g].st = "gone"
        OBVIOUS
      <4>1. g \in Pane /\ panes[g].st = "gone"
        BY DEF DaemonOK, Range, PaneIds
      <4> QED BY <2>2, <4>1 DEF OnlyPane
    <3>2. panes' \in [Pane -> Panes]
      BY <2>2 DEF OnlyPane
    <3> QED BY <2>2, <2>3, <3>1, <3>2 DEF DaemonOK
  <2> QED BY <1>2, <2>1, <2>2, <2>4 DEF Killed
<1> QED BY <1>1, <1>2

\* A grave is revived as a new pane.
LEMMA ReviveDoes ==
  ASSUME DaemonOK, Blank, NEW g \in Range(graves), g # None, panes[g].bound, FreshPanes # {},
         NEW q, q = FirstOf(FreshPanes), Start(q, Revived(g)),
         graves' = ReplaceAll(graves, g, None)
  PROVE  Revives(g, q) /\ DaemonOK'
<1>1. q \in Pane /\ panes[q].st = "new"
  BY FirstFresh
<1>2. g \in Pane /\ panes[g].st = "gone"
  BY DEF DaemonOK, Range, PaneIds
<1>3. panes' = [panes EXCEPT ![q] = [panes[g] EXCEPT !.st = "up"]]
  BY DEF Start, Revived
<1>4. /\ OnlyPane(q) /\ panes'[q].st = "up" /\ panes'[q].tags = panes[g].tags
      /\ panes'[q].session = panes[g].session
  BY <1>1, <1>2, <1>3 DEF DaemonOK, OnlyPane, Panes
<1>5. graves' = [i \in DOMAIN graves |-> IF graves[i] = g THEN None ELSE graves[i]]
  BY DEF ReplaceAll
<1>6. graves' \in Seq(PaneIds) /\ Range(graves') \subseteq Range(graves) \cup {None}
  BY <1>5 DEF DaemonOK, PaneIds, Range
<1>7. q \notin Range(graves)
  BY <1>1, Constants DEF DaemonOK
<1>8. DaemonOK'
  BY <1>4, <1>6, <1>7 DEF DaemonOK, OnlyPane, Range, PaneIds
<1> QED BY <1>1, <1>2, <1>4, <1>8 DEF Revives, Gone

\* Tagging keeps the types of the daemon.
LEMMA RetagTyped ==
  ASSUME DaemonOK, NEW p, Retags(p)
  PROVE  DaemonOK'
BY Constants DEF DaemonOK, Retags, OnlyPane, Up, Range, PaneIds

\* reconcile_live_sessions changes sessions and turns as Reconciles says.
LEMMA ReconcileDoes ==
  ASSUME TypeOK, Blank, Reconcile
  PROVE  Reconciles
<1>1. \A s \in Session : sessions[s] \in Entries /\ turns[s] \in Turns
  BY DEF TypeOK
<1>2. ASSUME NEW s \in Session
      PROVE  /\ Reconciled[s] \in Entries
             /\ Reconciled[s].st = sessions[s].st /\ Reconciled[s].grave = sessions[s].grave
             /\ Reconciled[s].turn = sessions[s].turn
             /\ Reconciled[s].pane = IF Up(sessions[s].pane) THEN sessions[s].pane ELSE None
             /\ ~Has(s) => Reconciled[s] = sessions[s]
  <2>1. CASE s \in Dead
    <3>1. Reconciled[s] = PaneGone(sessions[s])
      BY <2>1 DEF Reconciled
    <3>2. ~Up(sessions[s].pane) /\ sessions[s].pane # None
      BY <2>1 DEF Dead, Resident
    <3>3. Has(s)
      BY <3>2 DEF Blank, Absent
    <3> QED BY <1>1, <3>1, <3>2, <3>3 DEF PaneGone, Entries, PaneIds
  <2>2. CASE s \notin Dead /\ s \in Resident /\ panes[sessions[s].pane].bound
    <3>1. Reconciled[s] = [sessions[s] EXCEPT !.native = panes[sessions[s].pane].convo]
      BY <2>2 DEF Reconciled
    <3>2. Up(sessions[s].pane) /\ sessions[s].pane \in Pane
      BY <1>1, <2>2 DEF Dead, Resident, Entries, PaneIds
    <3>3. Has(s)
      BY <2>2 DEF Blank, Absent, Resident
    <3>4. panes[sessions[s].pane].convo \in PaneIds
      BY <3>2 DEF TypeOK, Panes
    <3> QED BY <1>1, <3>1, <3>2, <3>3, <3>4 DEF Entries
  <2>3. CASE s \notin Dead /\ ~(s \in Resident /\ panes[sessions[s].pane].bound)
    <3>1. Reconciled[s] = sessions[s]
      BY <2>3 DEF Reconciled
    <3>2. Up(sessions[s].pane) \/ sessions[s].pane = None
      BY <2>3 DEF Dead, Resident
    <3> QED BY <1>1, <3>1, <3>2, UpIs
  <2> QED BY <2>1, <2>2, <2>3
<1>3. sessions' = Reconciled /\ Reconciled \in [Session -> Entries]
  BY <1>2 DEF Reconcile, Reconciled
<1>4. turns' = [s \in Session |->
                  [turns[s] EXCEPT !.cancelled = @ \/ (s \in Dead /\ sessions[s].turn)]]
  BY DEF Reconcile
<1>5. ASSUME NEW s \in Session
      PROVE  /\ turns'[s] \in Turns /\ turns'[s].pc = turns[s].pc
             /\ turns'[s].pane = turns[s].pane /\ (turns[s].cancelled => turns'[s].cancelled)
  <2>1. turns'[s] = [turns[s] EXCEPT !.cancelled = @ \/ (s \in Dead /\ sessions[s].turn)]
    BY <1>4
  <2> QED BY <1>1, <2>1 DEF Turns
<1>6. turns' \in [Session -> Turns]
  BY <1>4, <1>5
<1> QED BY <1>2, <1>3, <1>5, <1>6 DEF Reconciles

\* capture_latest_grave notes the latest grave in an entry.
LEMMA CaptureIs ==
  ASSUME TypeOK, NEW s \in Session, NEW e \in Entries
  PROVE  /\ Captured(e, s) \in Entries
         /\ Captured(e, s).st = e.st /\ Captured(e, s).turn = e.turn
         /\ Captured(e, s).pane = e.pane
         /\ Captured(e, s).grave = e.grave \/ Latest(s, Captured(e, s).grave)
         /\ e = Absent => Captured(e, s) = e
<1>1. CASE e = Absent \/ GravesOf(s) = {}
  BY <1>1 DEF Captured
<1>2. CASE ~(e = Absent \/ GravesOf(s) = {})
  <2> DEFINE g == LatestGrave(s)
  <2>1. Latest(s, g) /\ g \in Pane
    BY <1>2, LatestIs
  <2>2. panes[g].convo \in PaneIds
    BY <2>1 DEF TypeOK, Panes
  <2>3. Captured(e, s) = [e EXCEPT !.grave = g,
                                   !.native = IF panes[g].bound THEN panes[g].convo ELSE @]
    BY <1>2 DEF Captured
  <2> HIDE DEF g
  <2>4. g \in PaneIds
    BY <2>1 DEF PaneIds
  <2>5. /\ Captured(e, s) \in Entries /\ Captured(e, s).grave = g
        /\ Captured(e, s).st = e.st /\ Captured(e, s).turn = e.turn
        /\ Captured(e, s).pane = e.pane
    BY <2>2, <2>3, <2>4 DEF Entries
  <2> QED BY <1>2, <2>1, <2>5
<1> QED BY <1>1, <1>2

\* What a capture does to the sessions.
LEMMA CaptureDoes ==
  ASSUME TypeOK, Blank, NEW s \in Session
  PROVE  /\ CaptureGrave(s) => Captures(s, None)
         /\ \A p \in Pane : PaneToGrave(s, p) => Captures(s, p)
<1>1. sessions[s] \in Entries /\ sessions \in [Session -> Entries]
  BY DEF TypeOK
<1>2. ASSUME NEW e \in Entries, sessions' = [sessions EXCEPT ![s] = Captured(e, s)],
             NEW p \in PaneIds,
             e.pane = IF sessions[s].pane = p THEN None ELSE sessions[s].pane,
             e.st = sessions[s].st, e.turn = sessions[s].turn, e.grave = sessions[s].grave,
             ~Has(s) => e = sessions[s]
      PROVE  Captures(s, p)
  <2>1. sessions'[s] = Captured(e, s)
    BY <1>1, <1>2
  <2>2. OnlySession(s)
    BY <1>1, <1>2, CaptureIs DEF OnlySession
  <2>3. ~Has(s) => sessions' = sessions
    <3> SUFFICES ASSUME ~Has(s) PROVE sessions' = sessions
      OBVIOUS
    <3>1. e = Absent /\ sessions[s] = Absent
      BY <1>2 DEF Blank
    <3> QED BY <1>1, <1>2, <3>1, CaptureIs
  <2> QED BY <1>2, <2>1, <2>2, <2>3, CaptureIs DEF Captures
<1>3. CaptureGrave(s) => Captures(s, None)
  <2> SUFFICES ASSUME CaptureGrave(s) PROVE Captures(s, None)
    OBVIOUS
  <2>1. sessions' = [sessions EXCEPT ![s] = Captured(sessions[s], s)]
    BY DEF CaptureGrave
  <2> QED BY <1>1, <1>2, <2>1 DEF PaneIds
<1>4. ASSUME NEW p \in Pane, PaneToGrave(s, p)
      PROVE  Captures(s, p)
  <2> DEFINE e == IF sessions[s] # Absent /\ sessions[s].pane = p THEN PaneGone(sessions[s])
                  ELSE sessions[s]
  <2>1. sessions' = [sessions EXCEPT ![s] = Captured(e, s)]
    BY <1>4 DEF PaneToGrave
  <2>2. e \in Entries /\ e.pane = (IF sessions[s].pane = p THEN None ELSE sessions[s].pane)
        /\ e.st = sessions[s].st /\ e.turn = sessions[s].turn /\ e.grave = sessions[s].grave
        /\ (~Has(s) => e = sessions[s])
    <3>1. CASE sessions[s] # Absent /\ sessions[s].pane = p
      <4>1. e = PaneGone(sessions[s]) /\ Has(s)
        BY <3>1 DEF Blank
      <4>2. PaneGone(sessions[s]) \in Entries /\ PaneGone(sessions[s]).pane = None
            /\ PaneGone(sessions[s]).st = sessions[s].st
            /\ PaneGone(sessions[s]).turn = sessions[s].turn
            /\ PaneGone(sessions[s]).grave = sessions[s].grave
        BY <1>1 DEF PaneGone, Entries, PaneIds
      <4> HIDE DEF e
      <4> QED BY <3>1, <4>1, <4>2
    <3>2. CASE ~(sessions[s] # Absent /\ sessions[s].pane = p)
      <4>1. e = sessions[s] /\ sessions[s].pane # p
        BY <3>2, Constants DEF Absent
      <4> HIDE DEF e
      <4> QED BY <1>1, <4>1
    <3> QED BY <3>1, <3>2
  <2>3. p \in PaneIds
    BY DEF PaneIds
  <2> HIDE DEF e
  <2> QED BY <1>2, <2>1, <2>2, <2>3
<1> QED BY <1>3, <1>4

-----------------------------------------------------------------------------
(* What each action does, field by field.                                  *)

SameTurns == turns' = turns /\ stale' = stale
SameModes == mode' = mode /\ deleted' = deleted /\ strayed' = strayed
SameHomes ==
  /\ sessions' \in [Session -> Entries]
  /\ \A s \in Session :
       /\ sessions'[s].st = sessions[s].st /\ sessions'[s].grave = sessions[s].grave
       /\ sessions'[s].pane = sessions[s].pane /\ (~Has(s) => sessions'[s] = sessions[s])

\* The turn of s goes on to pc.
TurnGoes(s, pc) ==
  /\ OnlyTurn(s) /\ turns'[s].pc = pc
  /\ turns'[s].pane = turns[s].pane /\ turns'[s].cancelled = turns[s].cancelled

\* The types of the next state, from those of its parts.
LEMMA TypedNext ==
  ASSUME DaemonOK', sessions' \in [Session -> Entries], turns' \in [Session -> Turns],
         stale' \in [Session -> Stales], op' \in Ops, mode' \in {"serving", "recovering"},
         maint' \in BOOLEAN, deleted' \subseteq Session, strayed' \subseteq Session
  PROVE  TypeOK'
BY DEF TypeOK, DaemonOK

\* The types of the state, one by one.
LEMMA TypedNow ==
  TypeOK => /\ DaemonOK /\ sessions \in [Session -> Entries] /\ turns \in [Session -> Turns]
            /\ stale \in [Session -> Stales] /\ op \in Ops
            /\ mode \in {"serving", "recovering"} /\ maint \in BOOLEAN
            /\ deleted \subseteq Session /\ strayed \subseteq Session
BY DEF TypeOK, DaemonOK

LEMMA SameTyped == DaemonOK /\ SameDaemon => DaemonOK'
BY DEF DaemonOK, SameDaemon

LEMMA TurnEdit ==
  ASSUME TypeOK, NEW s \in Session,
         NEW pc \in {"none", "sending", "accepted", "running", "ended", "failed", "stale"},
         turns' = [turns EXCEPT ![s].pc = pc]
  PROVE  TurnGoes(s, pc)
BY DEF TypeOK, Turns, TurnGoes, OnlyTurn

LEMMA PaneDiesDoes ==
  ASSUME Inv, NEW p \in Pane, PaneDies(p)
  PROVE  /\ Killed(p) /\ Up(p) /\ sessions' = sessions /\ SameTurns /\ op' = op /\ SameModes
         /\ TypeOK'
<1>1. Killed(p) /\ DaemonOK'
  BY TypedNow, KillDoes DEF Inv, PaneDies, Kill
<1>2. /\ Up(p) /\ sessions' = sessions /\ SameTurns /\ op' = op /\ SameModes /\ maint' = maint
  BY DEF PaneDies, SameTurns, SameModes, ghostVars, turnVars
<1>3. TypeOK'
  BY <1>1, <1>2, TypedNow, TypedNext DEF Inv, SameTurns, SameModes
<1> QED BY <1>1, <1>2, <1>3

LEMMA BindDoes ==
  ASSUME Inv, NEW p \in Pane, Bind(p)
  PROVE  /\ OnlyPane(p) /\ Up(p) /\ panes'[p].st = "up" /\ graves' = graves
         /\ panes'[p].tags = panes[p].tags /\ panes'[p].session = panes[p].session
         /\ sessions' = sessions /\ SameTurns /\ op' = op /\ SameModes /\ TypeOK'
<1>1. panes' = [panes EXCEPT ![p].bound = TRUE] /\ Up(p) /\ graves' = graves
  BY DEF Bind
<1>2. /\ OnlyPane(p) /\ panes'[p].st = "up"
      /\ panes'[p].tags = panes[p].tags /\ panes'[p].session = panes[p].session
  BY <1>1, TypedNow DEF Inv, DaemonOK, Panes, OnlyPane, Up
<1>3. /\ sessions' = sessions /\ SameTurns /\ op' = op /\ SameModes /\ maint' = maint
  BY DEF Bind, SameTurns, SameModes, ghostVars, turnVars
<1>4. DaemonOK'
  <2>1. \A g \in Range(graves) \ {None} : g \in Pane /\ panes[g].st = "gone"
    BY TypedNow DEF Inv, DaemonOK, Range, PaneIds
  <2> QED BY <1>1, <1>2, <2>1, TypedNow DEF Inv, DaemonOK, OnlyPane, Up
<1>5. TypeOK'
  BY <1>3, <1>4, TypedNow, TypedNext DEF Inv, SameTurns, SameModes
<1> QED BY <1>1, <1>2, <1>3, <1>5

LEMMA SomebodyRevivesDoes ==
  ASSUME Inv, NEW g, NEW q, SomebodyRevives(g, q), g \in Pane
  PROVE  /\ Revives(g, q) /\ panes[g].session \in Session /\ Has(panes[g].session)
         /\ "deleted" \notin panes[g].tags
         /\ sessions' = sessions /\ SameTurns /\ op' = op /\ SameModes /\ TypeOK'
<1>1. Revives(g, q) /\ DaemonOK'
  BY TypedNow, ReviveDoes, Constants DEF Inv, SomebodyRevives
<1>2. panes[g].session \in Session /\ Has(panes[g].session)
  BY TypedNow DEF Inv, Blank, SomebodyRevives, Known
<1>3. /\ sessions' = sessions /\ SameTurns /\ op' = op /\ SameModes /\ maint' = maint
      /\ "deleted" \notin panes[g].tags
  BY DEF SomebodyRevives, SameTurns, SameModes, ghostVars, turnVars
<1>4. TypeOK'
  BY <1>1, <1>3, TypedNow, TypedNext DEF Inv, SameTurns, SameModes
<1> QED BY <1>1, <1>2, <1>3, <1>4

LEMMA TurnSendsDoes ==
  ASSUME Inv, NEW s \in Session, TurnSends(s)
  PROVE  /\ turns[s].pc = "sending" /\ TurnGoes(s, "accepted")
         /\ SameDaemon /\ sessions' = sessions /\ stale' = stale /\ op' = op /\ SameModes /\ TypeOK'
<1>1. TurnGoes(s, "accepted")
  BY TurnEdit DEF Inv, TurnSends
<1>2. /\ turns[s].pc = "sending" /\ SameDaemon /\ sessions' = sessions /\ stale' = stale /\ op' = op
      /\ SameModes /\ maint' = maint
  BY DEF TurnSends, SameModes, SameDaemon, daemonVars
<1>3. TypeOK'
  BY <1>1, <1>2, TypedNow, TypedNext, SameTyped DEF Inv, SameModes, TurnGoes, OnlyTurn
<1> QED BY <1>1, <1>2, <1>3

LEMMA TurnMarksDoes ==
  ASSUME Inv, NEW s \in Session, TurnMarks(s)
  PROVE  /\ turns[s].pc = "accepted" /\ TurnGoes(s, "running")
         /\ \/ SameDaemon
            \/ /\ Retags(turns[s].pane)
               /\ panes'[turns[s].pane].tags = panes[turns[s].pane].tags \cup {"resumable"}
               /\ panes'[turns[s].pane].session = panes[turns[s].pane].session
         /\ SameHomes /\ \A x \in Session : sessions'[x].turn = sessions[x].turn
         /\ stale' = stale /\ op' = op /\ SameModes /\ TypeOK'
<1> DEFINE p == turns[s].pane
           e == sessions[s]
<1>1. TurnGoes(s, "running")
  BY TurnEdit DEF Inv, TurnMarks
<1>2. /\ turns[s].pc = "accepted" /\ stale' = stale /\ op' = op /\ SameModes /\ maint' = maint
      /\ graves' = graves
  BY DEF TurnMarks, SameModes, ghostVars
<1>3. p \in Pane /\ panes[p].st # "new"
  BY <1>2 DEF Inv, Turning
<1>4. \/ SameDaemon
      \/ /\ Retags(p) /\ panes'[p].tags = panes[p].tags \cup {"resumable"}
         /\ panes'[p].session = panes[p].session
  <2>1. CASE ~Up(p)
    BY <1>2, <2>1 DEF TurnMarks, SameDaemon
  <2>2. CASE Up(p)
    <3>1. panes' = [panes EXCEPT ![p].tags = @ \cup {"resumable"}]
      BY <2>2 DEF TurnMarks
    <3> HIDE DEF p
    <3> QED BY <1>2, <1>3, <2>2, <3>1, TypedNow
       DEF Inv, DaemonOK, Panes, Retags, OnlyPane, Up
  <2> QED BY <2>1, <2>2
<1>5. DaemonOK'
  BY <1>4, TypedNow, RetagTyped, SameTyped DEF Inv
<1>6. SameHomes /\ \A x \in Session : sessions'[x].turn = sessions[x].turn
  <2>1. sessions \in [Session -> Entries]
    BY TypedNow DEF Inv
  <2>2. CASE e = Absent
    BY <2>1, <2>2 DEF TurnMarks, SameHomes
  <2>3. CASE e # Absent
    <3> DEFINE c == IF Up(p) /\ panes[p].bound /\ e.pane = p THEN panes[p].convo
                    ELSE sessions[s].native
    <3>1. sessions' = [sessions EXCEPT ![s].delivered = TRUE, ![s].native = c]
      BY <2>3 DEF TurnMarks
    <3>2. c \in PaneIds
      BY <1>3, <2>1, TypedNow DEF Inv, DaemonOK, Panes, Entries
    <3>3. Has(s)
      BY <2>3 DEF Inv, Blank
    <3> HIDE DEF c
    <3>4. OnlySession(s) /\ sessions'[s].st = sessions[s].st
          /\ sessions'[s].grave = sessions[s].grave /\ sessions'[s].pane = sessions[s].pane
          /\ sessions'[s].turn = sessions[s].turn
      BY <2>1, <3>1, <3>2 DEF Entries, OnlySession
    <3> QED BY <2>1, <3>3, <3>4 DEF SameHomes, OnlySession
  <2> QED BY <2>2, <2>3
<1>7. TypeOK'
  BY <1>1, <1>2, <1>5, <1>6, TypedNow, TypedNext
     DEF Inv, SameModes, SameHomes, TurnGoes, OnlyTurn
<1> QED BY <1>1, <1>2, <1>4, <1>6, <1>7

\* The pane that a turn reports as ended.
Loses(s, p) ==
  /\ OnlySession(s) /\ sessions'[s].st = sessions[s].st
  /\ sessions'[s].grave = sessions[s].grave /\ sessions'[s].turn = sessions[s].turn
  /\ sessions'[s].pane \in {sessions[s].pane, None}
  /\ ~Has(s) => sessions' = sessions

LEMMA MarkGoneDoes ==
  ASSUME TypeOK, Blank, NEW s \in Session, NEW p \in Pane, MarkGone(s, p)
  PROVE  Loses(s, p)
<1>1. sessions \in [Session -> Entries]
  BY TypedNow
<1>2. CASE sessions' = sessions
  BY <1>1, <1>2 DEF Loses, OnlySession
<1>3. CASE sessions[s] # Absent /\ sessions' = [sessions EXCEPT ![s] = PaneGone(@)]
  <2>1. sessions'[s] = PaneGone(sessions[s]) /\ \A x \in Session \ {s} : sessions'[x] = sessions[x]
    BY <1>1, <1>3
  <2>2. PaneGone(sessions[s]) \in Entries /\ PaneGone(sessions[s]).pane = None
        /\ PaneGone(sessions[s]).st = sessions[s].st
        /\ PaneGone(sessions[s]).turn = sessions[s].turn
        /\ PaneGone(sessions[s]).grave = sessions[s].grave
    BY <1>1 DEF PaneGone, Entries, PaneIds
  <2>3. sessions' \in [Session -> Entries]
    BY <1>1, <1>3, <2>1, <2>2
  <2>4. Has(s)
    BY <1>3 DEF Blank
  <2> QED BY <2>1, <2>2, <2>3, <2>4 DEF Loses, OnlySession
<1> QED BY <1>2, <1>3 DEF MarkGone

LEMMA TurnLosesPaneDoes ==
  ASSUME Inv, NEW s \in Session, TurnLosesPane(s)
  PROVE  /\ turns[s].pc = "running" /\ TurnGoes(s, "ended") /\ Loses(s, turns[s].pane)
         /\ SameDaemon /\ stale' = stale /\ op' = op /\ SameModes /\ TypeOK'
<1>1. TurnGoes(s, "ended")
  BY TurnEdit DEF Inv, TurnLosesPane
<1>2. /\ turns[s].pc = "running" /\ SameDaemon /\ stale' = stale /\ op' = op
      /\ SameModes /\ maint' = maint /\ MarkGone(s, turns[s].pane)
  BY DEF TurnLosesPane, SameModes, SameDaemon, daemonVars, ghostVars
<1>3. Loses(s, turns[s].pane)
  BY <1>2, MarkGoneDoes DEF Inv, Turning
<1>4. TypeOK'
  BY <1>1, <1>2, <1>3, TypedNow, TypedNext, SameTyped
     DEF Inv, SameModes, TurnGoes, OnlyTurn, Loses, OnlySession
<1> QED BY <1>1, <1>2, <1>3, <1>4

LEMMA TurnEndsDoes ==
  ASSUME Inv, NEW s \in Session, TurnEnds(s)
  PROVE  /\ turns[s].pc = "running" /\ TurnGoes(s, "ended")
         /\ SameDaemon /\ sessions' = sessions /\ stale' = stale /\ op' = op /\ SameModes /\ TypeOK'
<1>1. TurnGoes(s, "ended")
  BY TurnEdit DEF Inv, TurnEnds
<1>2. /\ turns[s].pc = "running" /\ SameDaemon /\ sessions' = sessions /\ stale' = stale /\ op' = op
      /\ SameModes /\ maint' = maint
  BY DEF TurnEnds, SameModes, SameDaemon, daemonVars, ghostVars
<1>3. TypeOK'
  BY <1>1, <1>2, TypedNow, TypedNext, SameTyped DEF Inv, SameModes, TurnGoes, OnlyTurn
<1> QED BY <1>1, <1>2, <1>3

LEMMA TurnFailsDoes ==
  ASSUME Inv, NEW s \in Session, TurnFails(s)
  PROVE  /\ turns[s].pc = "sending" /\ TurnGoes(s, "failed")
         /\ SameDaemon /\ sessions' = sessions /\ stale' = stale /\ op' = op /\ SameModes /\ TypeOK'
<1>1. TurnGoes(s, "failed")
  BY TurnEdit DEF Inv, TurnFails
<1>2. /\ turns[s].pc = "sending" /\ SameDaemon /\ sessions' = sessions /\ stale' = stale /\ op' = op
      /\ SameModes /\ maint' = maint
  BY DEF TurnFails, SameModes, SameDaemon, daemonVars
<1>3. TypeOK'
  BY <1>1, <1>2, TypedNow, TypedNext, SameTyped DEF Inv, SameModes, TurnGoes, OnlyTurn
<1> QED BY <1>1, <1>2, <1>3

LEMMA TurnFindsStaleDoes ==
  ASSUME Inv, NEW s \in Session, TurnFindsStale(s)
  PROVE  /\ turns[s].pc = "sending" /\ ~Up(turns[s].pane) /\ TurnGoes(s, "stale")
         /\ SameDaemon /\ sessions' = sessions /\ stale' = stale /\ op' = op /\ SameModes /\ TypeOK'
<1>1. TurnGoes(s, "stale")
  BY TurnEdit DEF Inv, TurnFindsStale
<1>2. /\ turns[s].pc = "sending" /\ SameDaemon /\ sessions' = sessions /\ stale' = stale /\ op' = op
      /\ SameModes /\ maint' = maint /\ ~Up(turns[s].pane)
  BY DEF TurnFindsStale, SameModes, SameDaemon, daemonVars, ghostVars
<1>3. TypeOK'
  BY <1>1, <1>2, TypedNow, TypedNext, SameTyped DEF Inv, SameModes, TurnGoes, OnlyTurn
<1> QED BY <1>1, <1>2, <1>3

\* The turn of s has ended, and the session is free of it.
Releases(s) ==
  /\ OnlyTurn(s) /\ turns'[s] = NoTurn
  /\ SameHomes /\ \A x \in Session \ {s} : sessions'[x] = sessions[x]

\* The end of a turn releases its session.
LEMMA ReleaseDoes ==
  ASSUME TypeOK, Blank, NEW s \in Session, NEW a \in BOOLEAN, Release(s, a),
         turns' = [turns EXCEPT ![s] = NoTurn]
  PROVE  Releases(s) /\ turns' \in [Session -> Turns]
<1>1. OnlyTurn(s) /\ turns'[s] = NoTurn /\ turns' \in [Session -> Turns]
  <2>1. NoTurn \in Turns
    BY DEF NoTurn, Turns, PaneIds
  <2> QED BY <2>1, TypedNow DEF OnlyTurn
<1>2. sessions \in [Session -> Entries] /\ turns \in [Session -> Turns]
  BY TypedNow
<1>3. CASE sessions' = sessions
  BY <1>1, <1>2, <1>3 DEF Releases, SameHomes
<1>4. CASE sessions[s].turn /\ sessions' # sessions
  <2> DEFINE d == sessions[s].delivered \/ (turns[s].framed /\ a)
  <2>1. sessions' = [sessions EXCEPT ![s].turn = FALSE, ![s].delivered = d]
    BY <1>4 DEF Release
  <2>2. d \in BOOLEAN
    BY <1>2 DEF Entries, Turns
  <2>3. Has(s)
    BY <1>4 DEF Blank, Absent
  <2> HIDE DEF d
  <2>4. OnlySession(s) /\ sessions'[s].st = sessions[s].st
        /\ sessions'[s].grave = sessions[s].grave /\ sessions'[s].pane = sessions[s].pane
    BY <1>2, <2>1, <2>2 DEF Entries, OnlySession
  <2> QED BY <1>1, <1>2, <2>3, <2>4 DEF Releases, SameHomes, OnlySession
<1> QED BY <1>3, <1>4 DEF Release

LEMMA TurnReleasesDoes ==
  ASSUME Inv, NEW s \in Session, TurnReleases(s)
  PROVE  /\ turns[s].pc \in {"ended", "failed"} /\ Releases(s)
         /\ SameDaemon /\ stale' = stale /\ op' = op /\ SameModes /\ TypeOK'
<1>1. /\ turns[s].pc \in {"ended", "failed"} /\ SameDaemon /\ stale' = stale /\ op' = op
      /\ SameModes /\ maint' = maint
  BY DEF TurnReleases, SameModes, SameDaemon, daemonVars, ghostVars
<1>2. Releases(s) /\ turns' \in [Session -> Turns]
  BY ReleaseDoes DEF Inv, TurnReleases
<1>3. TypeOK'
  BY <1>1, <1>2, TypedNow, TypedNext, SameTyped DEF Inv, SameModes, Releases, SameHomes
<1> QED BY <1>1, <1>2, <1>3

LEMMA TurnReleasesStaleDoes ==
  ASSUME Inv, NEW s \in Session, TurnReleasesStale(s)
  PROVE  /\ turns[s].pc = "stale" /\ Releases(s)
         /\ \A x \in Session \ {s} : stale'[x] = stale[x]
         /\ stale'[s].pc \in {"kill", "forget"} => stale'[s].pane = turns[s].pane
         /\ SameDaemon /\ op' = op /\ SameModes /\ TypeOK'
<1>1. /\ turns[s].pc = "stale" /\ SameDaemon /\ op' = op /\ SameModes /\ maint' = maint
      /\ stale[s] = NoStale
  BY DEF TurnReleasesStale, SameModes, SameDaemon, daemonVars, ghostVars
<1>2. Releases(s) /\ turns' \in [Session -> Turns]
  BY ReleaseDoes DEF Inv, TurnReleasesStale
<1>3. [pc |-> "kill", pane |-> turns[s].pane] \in Stales
  BY TypedNow DEF Inv, Turns, Stales
<1>4. /\ stale' \in [Session -> Stales] /\ \A x \in Session \ {s} : stale'[x] = stale[x]
      /\ stale'[s].pc \in {"kill", "forget"} => stale'[s].pane = turns[s].pane
  <2>1. CASE stale' = stale
    BY <1>1, <2>1, TypedNow DEF Inv, NoStale
  <2>2. CASE stale' = [stale EXCEPT ![s] = [pc |-> "kill", pane |-> turns[s].pane]]
    BY <1>3, <2>2, TypedNow DEF Inv
  <2> QED BY <2>1, <2>2 DEF TurnReleasesStale
<1>5. TypeOK'
  BY <1>1, <1>2, <1>4, TypedNow, TypedNext, SameTyped
     DEF Inv, SameModes, Releases, SameHomes
<1> QED BY <1>1, <1>2, <1>4, <1>5

LEMMA StaleEdit ==
  ASSUME TypeOK, NEW s \in Session, NEW pc \in {"none", "forget", "again"},
         stale' = [stale EXCEPT ![s].pc = pc]
  PROVE  /\ stale' \in [Session -> Stales] /\ stale'[s].pc = pc
         /\ stale'[s].pane = stale[s].pane
         /\ \A x \in Session \ {s} : stale'[x] = stale[x]
BY DEF TypeOK, Stales

LEMMA StaleKillsDoes ==
  ASSUME Inv, NEW s \in Session, StaleKills(s)
  PROVE  /\ stale[s].pc = "kill" /\ stale'[s].pc = "forget" /\ stale'[s].pane = stale[s].pane
         /\ \A x \in Session \ {s} : stale'[x] = stale[x]
         /\ SameDaemon /\ sessions' = sessions /\ turns' = turns /\ op' = op /\ SameModes /\ TypeOK'
<1>1. /\ stale[s].pc = "kill" /\ sessions' = sessions /\ turns' = turns /\ op' = op
      /\ SameModes /\ maint' = maint
  BY DEF StaleKills, SameModes, ghostVars
<1>2. SameDaemon
  <2>1. ~Up(stale[s].pane)
    BY <1>1 DEF Inv, Turning, Gone, Up
  <2> QED BY <2>1 DEF StaleKills, Kill, SameDaemon, daemonVars
<1>3. /\ stale' \in [Session -> Stales] /\ stale'[s].pc = "forget" /\ stale'[s].pane = stale[s].pane
      /\ \A x \in Session \ {s} : stale'[x] = stale[x]
  BY StaleEdit DEF Inv, StaleKills
<1>4. TypeOK'
  BY <1>1, <1>2, <1>3, TypedNow, TypedNext, SameTyped DEF Inv, SameModes
<1> QED BY <1>1, <1>2, <1>3, <1>4

LEMMA StaleForgetsPaneDoes ==
  ASSUME Inv, NEW s \in Session, StaleForgetsPane(s)
  PROVE  /\ stale[s].pc = "forget" /\ stale'[s].pc = "again"
         /\ \A x \in Session \ {s} : stale'[x] = stale[x]
         /\ Captures(s, stale[s].pane) /\ ~Up(stale[s].pane)
         /\ SameDaemon /\ turns' = turns /\ op' = op /\ SameModes /\ TypeOK'
<1>1. /\ stale[s].pc = "forget" /\ SameDaemon /\ turns' = turns /\ op' = op
      /\ SameModes /\ maint' = maint
  BY DEF StaleForgetsPane, SameModes, SameDaemon, daemonVars, ghostVars
<1>2. stale[s].pane \in Pane /\ ~Up(stale[s].pane)
  BY <1>1 DEF Inv, Turning, Gone, Up
<1>3. Captures(s, stale[s].pane)
  BY <1>2, CaptureDoes DEF Inv, StaleForgetsPane
<1>4. /\ stale' \in [Session -> Stales] /\ stale'[s].pc = "again"
      /\ \A x \in Session \ {s} : stale'[x] = stale[x]
  BY StaleEdit DEF Inv, StaleForgetsPane
<1>5. TypeOK'
  BY <1>1, <1>3, <1>4, TypedNow, TypedNext, SameTyped
     DEF Inv, SameModes, Captures, OnlySession
<1> QED BY <1>1, <1>2, <1>3, <1>4, <1>5

LEMMA NewDoes ==
  ASSUME Inv, NEW s \in Session, New(s)
  PROVE  /\ Free /\ s \in FreshIds
         /\ OpIs("new", s, "room", None, None, None, None, FALSE, {}, FALSE)
         /\ SameDaemon /\ sessions' = sessions /\ SameTurns /\ SameModes /\ TypeOK'
<1>1. /\ Free /\ s \in FreshIds /\ SameDaemon /\ sessions' = sessions /\ SameTurns
      /\ SameModes /\ maint' = maint
  BY FirstFresh DEF New, SameDaemon, SameTurns, SameModes, daemonVars, turnVars, ghostVars
<1>2. OpIs("new", s, "room", None, None, None, None, FALSE, {}, FALSE)
  BY DEF New, OpIs, Idle
<1>3. op' \in Ops
  BY <1>2 DEF OpIs, Ops, OpKind, OpStep, PaneIds, SessionIds
<1>4. TypeOK'
  BY <1>1, <1>3, TypedNow, TypedNext, SameTyped DEF Inv, SameModes, SameTurns
<1> QED BY <1>1, <1>2, <1>4

LEMMA ResumeDoes ==
  ASSUME Inv, NEW s \in Session, Resume(s)
  PROVE  /\ Free /\ Has(s)
         /\ OpIs("resume", s, "resident", None, None, None, None, FALSE, {}, FALSE)
         /\ SameDaemon /\ sessions' = sessions /\ SameTurns /\ SameModes /\ TypeOK'
<1>1. /\ Free /\ Has(s) /\ SameDaemon /\ sessions' = sessions /\ SameTurns
      /\ SameModes /\ maint' = maint
  BY
     DEF Resume, SameDaemon, SameTurns, SameModes, daemonVars, turnVars, ghostVars, Known,
         Inv, Blank
<1>2. OpIs("resume", s, "resident", None, None, None, None, FALSE, {}, FALSE)
  BY DEF Resume, OpIs, Idle
<1>3. op' \in Ops
  BY <1>2 DEF OpIs, Ops, OpKind, OpStep, PaneIds, SessionIds
<1>4. TypeOK'
  BY <1>1, <1>3, TypedNow, TypedNext, SameTyped DEF Inv, SameModes, SameTurns
<1> QED BY <1>1, <1>2, <1>4

LEMMA PromptDoes ==
  ASSUME Inv, NEW s \in Session, Prompt(s)
  PROVE  /\ Free /\ Has(s)
         /\ OpIs("prompt", s, "resident", None, None, None, None, FALSE, {}, FALSE)
         /\ SameDaemon /\ sessions' = sessions /\ SameTurns /\ SameModes /\ TypeOK'
<1>1. /\ Free /\ Has(s) /\ SameDaemon /\ sessions' = sessions /\ SameTurns
      /\ SameModes /\ maint' = maint
  BY
     DEF Prompt, SameDaemon, SameTurns, SameModes, daemonVars, turnVars, ghostVars, Known,
         Inv, Blank
<1>2. OpIs("prompt", s, "resident", None, None, None, None, FALSE, {}, FALSE)
  BY DEF Prompt, OpIs, Idle
<1>3. op' \in Ops
  BY <1>2 DEF OpIs, Ops, OpKind, OpStep, PaneIds, SessionIds
<1>4. TypeOK'
  BY <1>1, <1>3, TypedNow, TypedNext, SameTyped DEF Inv, SameModes, SameTurns
<1> QED BY <1>1, <1>2, <1>4

LEMMA PromptAgainDoes ==
  ASSUME Inv, NEW s \in Session, PromptAgain(s)
  PROVE  /\ Free
         /\ \/ op' = op
            \/ Has(s) /\ OpIs("prompt", s, "resident", None, None, None, None, FALSE, {}, TRUE)
         /\ stale'[s].pc = "none" /\ \A x \in Session \ {s} : stale'[x] = stale[x]
         /\ SameDaemon /\ sessions' = sessions /\ turns' = turns /\ SameModes /\ TypeOK'
<1>1. /\ Free /\ SameDaemon /\ sessions' = sessions /\ turns' = turns
      /\ SameModes /\ maint' = maint
  BY DEF PromptAgain, SameDaemon, SameModes, daemonVars, ghostVars
<1>2. \/ op' = op
      \/ Has(s) /\ OpIs("prompt", s, "resident", None, None, None, None, FALSE, {}, TRUE)
  <2>1. CASE s \notin Known
    BY <2>1 DEF PromptAgain
  <2>2. CASE s \in Known
    <3>1. op' = [Idle EXCEPT !.kind = "prompt", !.s = s, !.pc = "resident", !.again = TRUE]
      BY <2>2 DEF PromptAgain
    <3>2. Has(s)
      BY <2>2 DEF Known, Inv, Blank
    <3> QED BY <3>1, <3>2 DEF OpIs, Idle
  <2> QED BY <2>1, <2>2
<1>3. op' \in Ops
  <2>1. op \in Ops
    BY TypedNow DEF Inv
  <2>2. OpIs("prompt", s, "resident", None, None, None, None, FALSE, {}, TRUE) => op' \in Ops
    BY DEF OpIs, Ops, OpKind, OpStep, PaneIds, SessionIds
  <2> QED BY <1>2, <2>1, <2>2
<1>4. /\ stale' \in [Session -> Stales] /\ stale'[s].pc = "none"
      /\ \A x \in Session \ {s} : stale'[x] = stale[x]
  <2>1. NoStale \in Stales /\ NoStale.pc = "none"
    BY DEF NoStale, Stales, PaneIds
  <2> QED BY <2>1, TypedNow DEF Inv, PromptAgain
<1>5. TypeOK'
  BY <1>1, <1>3, <1>4, TypedNow, TypedNext, SameTyped DEF Inv, SameModes
<1> QED BY <1>1, <1>2, <1>4, <1>5

\* The turn of s, if it has one, is cancelled.
Cancels(s) ==
  /\ OnlyTurn(s) /\ turns'[s].pc = turns[s].pc /\ turns'[s].pane = turns[s].pane
  /\ turns[s].pc # "none" => turns'[s].cancelled

\* Delete and Close cancel the turn of their session.
LEMMA CancelDoes ==
  ASSUME TypeOK, NEW s \in Session, turns' = Cancelled(s)
  PROVE  Cancels(s)
<1>1. turns \in [Session -> Turns]
  BY TypedNow
<1> DEFINE c == turns[s].cancelled \/ turns[s] # NoTurn
<1>2. turns' = [turns EXCEPT ![s].cancelled = c]
  BY DEF Cancelled
<1>3. c \in BOOLEAN /\ (turns[s].pc # "none" => c)
  BY <1>1 DEF Turns, NoTurn
<1> HIDE DEF c
<1> QED BY <1>1, <1>2, <1>3 DEF Cancels, OnlyTurn, Turns

LEMMA DeleteDoes ==
  ASSUME Inv, NEW s \in Session, Delete(s)
  PROVE  /\ Free /\ Has(s) /\ Cancels(s)
         /\ OpIs("delete", s, "resident", None, None, None, None, FALSE, {}, FALSE)
         /\ SameDaemon /\ sessions' = sessions /\ stale' = stale /\ SameModes /\ TypeOK'
<1>1. /\ Free /\ Has(s) /\ SameDaemon /\ sessions' = sessions /\ stale' = stale
      /\ SameModes /\ maint' = maint
  BY DEF Delete, SameDaemon, SameModes, daemonVars, ghostVars, Known, Inv, Blank
<1>2. Cancels(s)
  BY CancelDoes DEF Delete, Inv
<1>3. OpIs("delete", s, "resident", None, None, None, None, FALSE, {}, FALSE)
  BY DEF Delete, OpIs, Idle
<1>4. op' \in Ops
  BY <1>3 DEF OpIs, Ops, OpKind, OpStep, PaneIds, SessionIds
<1>5. TypeOK'
  BY <1>1, <1>2, <1>4, TypedNow, TypedNext, SameTyped DEF Inv, SameModes, Cancels, OnlyTurn
<1> QED BY <1>1, <1>2, <1>3, <1>5

LEMMA CloseDoes ==
  ASSUME Inv, NEW s \in Session, Close(s)
  PROVE  /\ Free /\ Has(s) /\ Cancels(s) /\ sessions[s].pane \in Pane
         /\ OpIs("close", s, "close", sessions[s].pane, None, None, None, FALSE, {}, FALSE)
         /\ SameDaemon /\ sessions' = sessions /\ stale' = stale /\ SameModes /\ TypeOK'
<1>1. /\ Free /\ SameDaemon /\ sessions' = sessions /\ stale' = stale
      /\ SameModes /\ maint' = maint /\ sessions[s].pane # None
  BY DEF Close, SameDaemon, SameModes, daemonVars, ghostVars, Resident
<1>2. Cancels(s)
  BY CancelDoes DEF Close, Inv
<1>3. sessions[s].pane \in Pane /\ Has(s)
  BY <1>1, TypedNow DEF Inv, Entries, PaneIds, Blank, Absent
<1>4. OpIs("close", s, "close", sessions[s].pane, None, None, None, FALSE, {}, FALSE)
  BY DEF Close, OpIs, Idle
<1>5. op' \in Ops
  BY <1>3, <1>4 DEF OpIs, Ops, OpKind, OpStep, PaneIds, SessionIds
<1>6. TypeOK'
  BY <1>1, <1>2, <1>5, TypedNow, TypedNext, SameTyped DEF Inv, SameModes, Cancels, OnlyTurn
<1> QED BY <1>1, <1>2, <1>3, <1>4, <1>6

LEMMA SweepDoes ==
  ASSUME Inv, Sweep
  PROVE  /\ Free /\ OpIs("sweep", None, "list", None, None, None, None, FALSE, {}, FALSE)
         /\ SameDaemon /\ sessions' = sessions /\ SameTurns /\ SameModes /\ TypeOK'
<1>1. /\ Free /\ SameDaemon /\ sessions' = sessions /\ SameTurns
      /\ SameModes /\ maint' = maint
  BY DEF Sweep, SameDaemon, SameTurns, SameModes, daemonVars, turnVars, ghostVars
<1>2. OpIs("sweep", None, "list", None, None, None, None, FALSE, {}, FALSE)
  BY DEF Sweep, OpIs, Idle
<1>3. op' \in Ops
  BY <1>2 DEF OpIs, Ops, OpKind, OpStep, PaneIds, SessionIds
<1>4. TypeOK'
  BY <1>1, <1>3, TypedNow, TypedNext, SameTyped DEF Inv, SameModes, SameTurns
<1> QED BY <1>1, <1>2, <1>4

\* The types of an operation.
LEMMA OpTypes ==
  ASSUME TypeOK
  PROVE  /\ op.kind \in OpKind /\ op.s \in SessionIds /\ op.pc \in OpStep /\ op.pane \in PaneIds
         /\ op.victim \in SessionIds /\ op.native \in PaneIds /\ op.grave \in PaneIds
         /\ op.resumed \in BOOLEAN /\ op.todo \subseteq Pane /\ op.again \in BOOLEAN
         /\ op = [kind |-> op.kind, s |-> op.s, pc |-> op.pc, pane |-> op.pane,
                  victim |-> op.victim, native |-> op.native, grave |-> op.grave,
                  resumed |-> op.resumed, todo |-> op.todo, again |-> op.again]
BY DEF TypeOK, Ops

\* The operation goes on at pc.
Goes(pc) ==
  OpIs(op.kind, op.s, pc, op.pane, op.victim, op.native, op.grave, op.resumed, op.todo, op.again)

\* Of an operation whose session turns out to have a pane, or none.
LEMMA EnsureResidentDoes ==
  ASSUME Inv, EnsureResident
  PROVE  /\ op.pc = "resident"
         /\ \/ OpIs("none", None, "idle", None, None, None, None, FALSE, {}, FALSE)
            \/ Goes("use") /\ op.kind # "resume"
            \/ \E n \in PaneIds :
                 /\ OpIs(op.kind, op.s, "room", op.pane, op.victim, n, sessions[op.s].grave,
                         op.resumed, op.todo, op.again)
                 /\ sessions'[op.s].pane = None
         /\ Reconciles /\ SameDaemon /\ stale' = stale /\ SameModes /\ TypeOK'
<1> DEFINE known == IF sessions[op.s].pane # None THEN Reconciled ELSE sessions
           e == known[op.s]
<1>1. /\ op.pc = "resident" /\ SameDaemon /\ stale' = stale /\ SameModes /\ maint' = maint
  BY DEF EnsureResident, SameDaemon, SameModes, daemonVars, ghostVars
<1>2. op.s \in Session /\ Has(op.s)
  BY <1>1 DEF Inv, OpKinds, OpSession, At
<1>3. Reconciles /\ sessions' = known
  <2>1. CASE sessions[op.s].pane # None
    <3>1. Reconcile
      BY <2>1 DEF EnsureResident
    <3> QED BY <2>1, <3>1, ReconcileDoes DEF Inv, Reconcile
  <2>2. CASE sessions[op.s].pane = None
    <3>1. sessions' = sessions /\ turns' = turns
      BY <2>2 DEF EnsureResident
    <3> QED BY <2>2, <3>1, TypedNow DEF Inv, Reconciles
  <2> QED BY <2>1, <2>2
<1>4. sessions' \in [Session -> Entries] /\ sessions'[op.s] = e
      /\ sessions'[op.s].grave = sessions[op.s].grave
  BY <1>2, <1>3 DEF Reconciles
<1>5. op' = IF e.pane # None THEN (IF op.kind = "resume" THEN Idle ELSE [op EXCEPT !.pc = "use"])
            ELSE IF e.turn THEN Idle
            ELSE [op EXCEPT !.pc = "room", !.native = e.native, !.grave = e.grave]
  BY DEF EnsureResident
<1> HIDE DEF known, e
<1>6. e.native \in PaneIds /\ e.grave \in PaneIds /\ e.grave = sessions[op.s].grave
  BY <1>2, <1>4 DEF Entries
<1>7. /\ \/ OpIs("none", None, "idle", None, None, None, None, FALSE, {}, FALSE)
         \/ Goes("use") /\ op.kind # "resume"
         \/ \E n \in PaneIds :
              /\ OpIs(op.kind, op.s, "room", op.pane, op.victim, n, sessions[op.s].grave,
                      op.resumed, op.todo, op.again)
              /\ sessions'[op.s].pane = None
      /\ op' \in Ops
  <2>1. CASE op' = Idle
    <3>1. OpIs("none", None, "idle", None, None, None, None, FALSE, {}, FALSE)
      BY <2>1 DEF OpIs, Idle
    <3> QED BY <3>1 DEF OpIs, Ops, OpKind, OpStep, PaneIds, SessionIds
  <2>2. CASE op' = [op EXCEPT !.pc = "use"] /\ op.kind # "resume"
    <3>1. Goto("use")
      BY <2>2 DEF Goto
    <3> QED BY <2>2, <3>1, GotoDoes, TypedNow DEF Inv, Goes, OpStep
  <2>3. CASE op' = [op EXCEPT !.pc = "room", !.native = e.native, !.grave = e.grave] /\ e.pane = None
    <3>1. OpIs(op.kind, op.s, "room", op.pane, op.victim, e.native, sessions[op.s].grave,
               op.resumed, op.todo, op.again)
      <4>1. op \in Ops /\ op' = [op EXCEPT !.pc = "room", !.native = e.native, !.grave = sessions[op.s].grave]
        BY <1>6, <2>3, TypedNow DEF Inv
      <4> QED BY <4>1 DEF Ops, OpIs
    <3>2. op' \in Ops
      BY <1>6, <3>1, OpTypes DEF Inv, OpIs, Ops, OpStep
    <3> QED BY <1>4, <1>6, <2>3, <3>1, <3>2
  <2> QED BY <1>5, <2>1, <2>2, <2>3
<1>8. TypeOK'
  BY <1>1, <1>3, <1>7, TypedNow, TypedNext, SameTyped DEF Inv, SameModes, Reconciles
<1> QED BY <1>1, <1>3, <1>7, <1>8

\* A victim is chosen.
Chooses(v) ==
  OpIs(op.kind, op.s, "take", op.pane, v, op.native, op.grave, op.resumed, op.todo, op.again)

\* A victim is chosen among the sessions given, or the request fails.
LEMMA EvictDoes ==
  ASSUME TypeOK, NEW victims \in SUBSET Session, Evict(victims)
  PROVE  /\ op' \in Ops
         /\ Answered \/ \E v \in victims : Chooses(v)
<1>1. CASE Answer
  BY <1>1, AnswerDoes, TypedNow
<1>2. ASSUME NEW v \in victims, op' = [op EXCEPT !.victim = v, !.pc = "take"]
      PROVE  Chooses(v) /\ op' \in Ops
  <2>1. Chooses(v)
    <3>1. op \in Ops
      BY TypedNow
    <3> QED BY <1>2, <3>1 DEF Ops, Chooses, OpIs
  <2> QED BY <2>1, OpTypes DEF Chooses, OpIs, Ops, OpStep, SessionIds
<1> QED BY <1>1, <1>2 DEF Evict

LEMMA MakeRoomDoes ==
  ASSUME Inv, MakeRoom
  PROVE  /\ op.pc = "room"
         /\ Goes("start") \/ Answered \/ \E v \in Session : Has(v) /\ Chooses(v)
         /\ Reconciles /\ SameDaemon /\ stale' = stale /\ SameModes /\ TypeOK'
<1> DEFINE live == Resident \ Dead
<1>1. /\ op.pc = "room" /\ SameDaemon /\ stale' = stale /\ SameModes /\ maint' = maint
      /\ Reconcile
  BY DEF MakeRoom, SameDaemon, SameModes, daemonVars, ghostVars
<1>2. Reconciles
  BY <1>1, ReconcileDoes DEF Inv
<1>3. Goto("start") \/ Evict(live \cap Inactive)
  BY DEF MakeRoom
<1>4. \A v \in live \cap Inactive : v \in Session /\ Has(v)
  BY DEF Resident, Inv, Blank, Absent
<1> HIDE DEF live
<1>5. op' \in Ops /\ (Goes("start") \/ Answered \/ \E v \in Session : Has(v) /\ Chooses(v))
  <2>1. CASE Goto("start")
    BY <2>1, GotoDoes, TypedNow DEF Inv, Goes, OpStep
  <2>2. CASE Evict(live \cap Inactive)
    <3>1. live \cap Inactive \in SUBSET Session
      BY <1>4
    <3>2. op' \in Ops /\ (Answered \/ \E v \in live \cap Inactive : Chooses(v))
      BY <2>2, <3>1, EvictDoes DEF Inv
    <3> QED BY <1>4, <3>2
  <2> QED BY <1>3, <2>1, <2>2
<1>6. TypeOK'
  BY <1>1, <1>2, <1>5, TypedNow, TypedNext, SameTyped DEF Inv, SameModes, Reconciles
<1> QED BY <1>1, <1>2, <1>5, <1>6

LEMMA PanicDoes ==
  ASSUME TypeOK, Panic
  PROVE  Answered /\ op' \in Ops /\ maint' \in BOOLEAN
<1>1. Answered /\ op' \in Ops
  BY AnswerDoes, TypedNow DEF Panic
<1>2. maint \in BOOLEAN /\ maint' = (maint /\ op.kind # "sweep")
  BY TypedNow DEF Panic
<1>3. maint' \in BOOLEAN
  BY <1>2, Zenon
<1> QED BY <1>1, <1>3

\* The inactive session v loses its pane.
Frees(v) ==
  /\ OnlySession(v) /\ sessions'[v].st = sessions[v].st /\ ~sessions[v].turn
  /\ sessions'[v].grave = sessions[v].grave /\ sessions'[v].turn = sessions[v].turn
  /\ sessions'[v].pane = None

LEMMA TakeVictimDoes ==
  ASSUME Inv, TakeVictim
  PROVE  /\ op.pc = "take" /\ op.victim \in Session /\ Has(op.victim)
         /\ \/ Answered /\ sessions' = sessions
            \/ /\ Frees(op.victim) /\ sessions[op.victim].pane \in Pane
               /\ OpIs(op.kind, op.s, "evict", sessions[op.victim].pane, op.victim, op.native,
                       op.grave, op.resumed, op.todo, op.again)
         /\ SameDaemon /\ SameTurns /\ SameModes /\ TypeOK'
<1> DEFINE v == op.victim
           e == sessions[v]
<1>1. /\ op.pc = "take" /\ SameDaemon /\ SameTurns /\ SameModes
  BY DEF TakeVictim, SameDaemon, SameTurns, SameModes, daemonVars, turnVars, ghostVars
<1>2. v \in Session /\ Has(v)
  BY <1>1 DEF Inv, OpSession, At
<1>3. sessions \in [Session -> Entries] /\ e \in Entries
  BY <1>2, TypedNow DEF Inv
<1>4. \/ Answer /\ UNCHANGED <<sessions, maint>>
      \/ Panic /\ UNCHANGED sessions
      \/ /\ ~e.turn /\ e.pane # None
         /\ sessions' = [sessions EXCEPT ![v].pane = None]
         /\ op' = [op EXCEPT !.pane = e.pane, !.pc = "evict"]
         /\ UNCHANGED maint
  BY DEF TakeVictim
<1>5. CASE Answer /\ UNCHANGED <<sessions, maint>>
  <2>1. Answered /\ op' \in Ops
    BY <1>5, AnswerDoes, TypedNow DEF Inv
  <2>2. TypeOK'
    BY <1>1, <1>5, <2>1, TypedNow, TypedNext, SameTyped DEF Inv, SameModes, SameTurns
  <2> QED BY <1>1, <1>2, <1>5, <2>1, <2>2
<1>6. CASE Panic /\ UNCHANGED sessions
  <2>1. Answered /\ op' \in Ops /\ maint' \in BOOLEAN
    BY <1>6, PanicDoes DEF Inv
  <2>2. TypeOK'
    BY <1>1, <1>6, <2>1, TypedNow, TypedNext, SameTyped DEF Inv, SameModes, SameTurns
  <2> QED BY <1>1, <1>2, <1>6, <2>1, <2>2
<1>7. CASE /\ ~e.turn /\ e.pane # None
           /\ sessions' = [sessions EXCEPT ![v].pane = None]
           /\ op' = [op EXCEPT !.pane = e.pane, !.pc = "evict"]
           /\ UNCHANGED maint
  <2>1. e.pane \in Pane
    BY <1>3, <1>7 DEF Entries, PaneIds
  <2>2. OpIs(op.kind, op.s, "evict", e.pane, v, op.native, op.grave, op.resumed, op.todo, op.again)
    <3>1. op \in Ops /\ op' = [op EXCEPT !.pane = e.pane, !.pc = "evict"]
      BY <1>7, TypedNow DEF Inv
    <3> HIDE DEF e
    <3> QED BY <3>1 DEF Ops, OpIs
  <2>3. op' \in Ops
    BY <2>1, <2>2, OpTypes DEF Inv, OpIs, Ops, OpStep, PaneIds
  <2>4. Frees(v)
    BY <1>2, <1>3, <1>7 DEF Frees, OnlySession, Entries, PaneIds
  <2>5. TypeOK'
    BY <1>1, <1>7, <2>3, <2>4, TypedNow, TypedNext, SameTyped
       DEF Inv, SameModes, SameTurns, Frees, OnlySession
  <2> QED BY <1>1, <1>2, <2>1, <2>2, <2>4, <2>5
<1> QED BY <1>4, <1>5, <1>6, <1>7

LEMMA EvictPaneDoes ==
  ASSUME Inv, EvictPane
  PROVE  /\ op.pc = "evict" /\ op.pane \in Pane /\ Killed(op.pane) /\ Goes("bury")
         /\ sessions' = sessions /\ SameTurns /\ SameModes /\ TypeOK'
<1>1. /\ op.pc = "evict" /\ sessions' = sessions /\ SameTurns /\ SameModes /\ maint' = maint
  BY DEF EvictPane, SameTurns, SameModes, turnVars, ghostVars
<1>2. op.pane \in Pane
  BY <1>1 DEF Inv, OpPane, At
<1>3. Killed(op.pane) /\ DaemonOK'
  BY <1>2, KillDoes, TypedNow DEF Inv, EvictPane
<1>4. Goes("bury") /\ op' \in Ops
  BY GotoDoes, TypedNow DEF Inv, EvictPane, Goes, OpStep
<1>5. TypeOK'
  BY <1>1, <1>3, <1>4, TypedNow, TypedNext DEF Inv, SameModes, SameTurns
<1> QED BY <1>1, <1>2, <1>3, <1>4, <1>5

LEMMA EvictFailsDoes ==
  ASSUME Inv, EvictFails
  PROVE  /\ op.pc = "evict" /\ op.victim \in Session /\ op.pane \in Pane /\ Answered
         /\ OnlySession(op.victim) /\ sessions'[op.victim].st = sessions[op.victim].st
         /\ sessions'[op.victim].grave = sessions[op.victim].grave
         /\ sessions'[op.victim].turn = sessions[op.victim].turn
         /\ \/ sessions' = sessions
            \/ sessions[op.victim].pane = None /\ sessions'[op.victim].pane = op.pane
         /\ SameDaemon /\ SameTurns /\ SameModes /\ TypeOK'
<1> DEFINE v == op.victim
<1>1. /\ op.pc = "evict" /\ SameDaemon /\ SameTurns /\ SameModes /\ maint' = maint
  BY DEF EvictFails, SameTurns, SameModes, turnVars, ghostVars, SameDaemon, daemonVars
<1>2. op.pane \in Pane /\ v \in Session
  BY <1>1 DEF Inv, OpPane, OpSession, At
<1>3. Answered /\ op' \in Ops
  BY AnswerDoes, TypedNow DEF Inv, EvictFails
<1>4. sessions \in [Session -> Entries]
  BY TypedNow DEF Inv
<1>5. /\ OnlySession(v) /\ sessions'[v].st = sessions[v].st
      /\ sessions'[v].grave = sessions[v].grave
      /\ sessions'[v].turn = sessions[v].turn
      /\ \/ sessions' = sessions
         \/ sessions[v].pane = None /\ sessions'[v].pane = op.pane
  <2>1. CASE sessions' = sessions
    BY <1>4, <2>1 DEF OnlySession
  <2>2. CASE sessions[v].pane = None /\ sessions' = [sessions EXCEPT ![v].pane = op.pane]
    BY <1>2, <1>4, <2>2 DEF OnlySession, Entries, PaneIds
  <2> QED BY <2>1, <2>2 DEF EvictFails
<1>6. TypeOK'
  BY <1>1, <1>3, <1>5, TypedNow, TypedNext, SameTyped
     DEF Inv, SameModes, SameTurns, OnlySession
<1> QED BY <1>1, <1>2, <1>3, <1>5, <1>6

BuryStep == IF op.kind = "sweep" THEN "adopt" ELSE IF op.kind = "recover" THEN "clear" ELSE "start"

LEMMA BuryVictimDoes ==
  ASSUME Inv, BuryVictim
  PROVE  /\ op.pc = "bury" /\ op.victim \in Session /\ Captures(op.victim, None)
         /\ OpIs(op.kind, op.s, BuryStep, None, None, op.native, op.grave, op.resumed, op.todo,
                 op.again)
         /\ SameDaemon /\ SameTurns /\ SameModes /\ TypeOK'
<1>1. /\ op.pc = "bury" /\ SameDaemon /\ SameTurns /\ SameModes /\ maint' = maint
  BY DEF BuryVictim, SameTurns, SameModes, turnVars, ghostVars, SameDaemon, daemonVars
<1>2. op.victim \in Session
  BY <1>1 DEF Inv, OpSession, At
<1>3. Captures(op.victim, None)
  BY <1>2, CaptureDoes DEF Inv, BuryVictim
<1>4. op' = [op EXCEPT !.victim = None, !.pane = None, !.pc = BuryStep]
  <2>1. CASE op.kind = "sweep"
    BY <2>1 DEF BuryVictim, BuryStep
  <2>2. CASE op.kind = "recover"
    BY <2>2 DEF BuryVictim, BuryStep
  <2>3. CASE op.kind \notin {"sweep", "recover"}
    BY <2>3 DEF BuryVictim, BuryStep
  <2> QED BY <2>1, <2>2, <2>3
<1>5. BuryStep \in OpStep
  BY DEF BuryStep, OpStep
<1>6. OpIs(op.kind, op.s, BuryStep, None, None, op.native, op.grave, op.resumed, op.todo, op.again)
  <2>1. op \in Ops
    BY TypedNow DEF Inv
  <2> QED BY <1>4, <2>1 DEF Ops, OpIs
<1>7. op' \in Ops
  BY <1>5, <1>6, OpTypes DEF Inv, OpIs, Ops, PaneIds, SessionIds
<1>8. TypeOK'
  BY <1>1, <1>3, <1>7, TypedNow, TypedNext, SameTyped
     DEF Inv, SameModes, SameTurns, Captures, OnlySession
<1> QED BY <1>1, <1>2, <1>3, <1>6, <1>8

LEMMA RevivePaneDoes ==
  ASSUME Inv, NEW q \in Pane, RevivePane(q)
  PROVE  /\ op.pc = "start" /\ op.grave \in Pane /\ Revives(op.grave, q)
         /\ \/ OpIs(op.kind, op.s, "tag", q, op.victim, op.native, op.grave, TRUE, op.todo, op.again)
            \/ OpIs(op.kind, op.s, op.pc, op.pane, op.victim, op.native, None, op.resumed, op.todo,
                    op.again)
         /\ sessions' = sessions /\ SameTurns /\ SameModes /\ TypeOK'
<1>1. /\ op.pc = "start" /\ sessions' = sessions /\ SameTurns /\ SameModes /\ maint' = maint
      /\ op.grave # None
  BY DEF RevivePane, SameTurns, SameModes, turnVars, ghostVars
<1>2. Revives(op.grave, q) /\ DaemonOK'
  BY TypedNow, ReviveDoes DEF Inv, RevivePane
<1>3. op.grave \in Pane
  BY <1>2 DEF Revives
<1>4. op \in Ops
  BY TypedNow DEF Inv
<1>5. \/ OpIs(op.kind, op.s, "tag", q, op.victim, op.native, op.grave, TRUE, op.todo, op.again)
      \/ OpIs(op.kind, op.s, op.pc, op.pane, op.victim, op.native, None, op.resumed, op.todo,
              op.again)
  <2>1. CASE StartedPane(q, TRUE)
    <3>1. op' = [op EXCEPT !.pane = q, !.resumed = TRUE, !.pc = "tag"]
      BY <2>1 DEF StartedPane
    <3> QED BY <1>4, <3>1 DEF Ops, OpIs
  <2>2. CASE op' = [op EXCEPT !.grave = None]
    BY <1>4, <2>2 DEF Ops, OpIs
  <2> QED BY <2>1, <2>2 DEF RevivePane
<1>6. op' \in Ops
  <2> DEFINE A == OpIs(op.kind, op.s, "tag", q, op.victim, op.native, op.grave, TRUE, op.todo, op.again)
             B == OpIs(op.kind, op.s, op.pc, op.pane, op.victim, op.native, None, op.resumed,
                       op.todo, op.again)
  <2>1. CASE A
    BY <2>1, OpTypes DEF Inv, OpIs, Ops, OpStep, PaneIds
  <2>2. CASE B
    BY <2>2, OpTypes DEF Inv, OpIs, Ops, PaneIds
  <2> QED BY <1>5, <2>1, <2>2
<1>7. TypeOK'
  BY <1>1, <1>2, <1>6, TypedNow, TypedNext DEF Inv, SameModes, SameTurns
<1> QED BY <1>1, <1>2, <1>3, <1>5, <1>7

LEMMA ReviveFailsDoes ==
  ASSUME Inv, ReviveFails
  PROVE  /\ op.pc = "start" /\ op.grave # None
         /\ OpIs(op.kind, op.s, op.pc, op.pane, op.victim, op.native, None, op.resumed, op.todo,
                 op.again)
         /\ SameDaemon /\ sessions' = sessions /\ SameTurns /\ SameModes /\ TypeOK'
<1>1. /\ op.pc = "start" /\ sessions' = sessions /\ SameTurns /\ SameModes /\ maint' = maint
      /\ op.grave # None /\ SameDaemon
  BY DEF ReviveFails, SameTurns, SameModes, turnVars, ghostVars, SameDaemon, daemonVars
<1>2. op \in Ops /\ op' = [op EXCEPT !.grave = None]
  BY TypedNow DEF Inv, ReviveFails
<1>3. OpIs(op.kind, op.s, op.pc, op.pane, op.victim, op.native, None, op.resumed, op.todo, op.again)
  BY <1>2 DEF Ops, OpIs
<1>4. op' \in Ops
  BY <1>3, OpTypes DEF Inv, OpIs, Ops, PaneIds
<1>5. TypeOK'
  BY <1>1, <1>4, TypedNow, TypedNext, SameTyped DEF Inv, SameModes, SameTurns
<1> QED BY <1>1, <1>3, <1>5

\* A new pane q is up, with nothing yet.
Runs(q) ==
  /\ q \in Pane /\ panes[q].st = "new" /\ OnlyPane(q) /\ graves' = graves
  /\ panes'[q].st = "up" /\ panes'[q].tags = {} /\ panes'[q].session = None

LEMMA FreshPaneIs ==
  ASSUME NEW c \in PaneIds
  PROVE  LET r == [NoPane EXCEPT !.st = "up", !.convo = c] IN
         r \in Panes /\ r.st = "up" /\ r.tags = {} /\ r.session = None
BY DEF NoPane, Panes, SessionIds

LEMMA RunPaneDoes ==
  ASSUME Inv, NEW q \in Pane, RunPane(q)
  PROVE  /\ op.pc = "start" /\ op.grave = None /\ Runs(q)
         /\ OpIs(op.kind, op.s, "live", q, op.victim, op.native, op.grave, op.native # None,
                 op.todo, op.again)
         /\ sessions' = sessions /\ SameTurns /\ SameModes /\ TypeOK'
<1> DEFINE c == IF op.native = None THEN q ELSE op.native
<1>1. /\ op.pc = "start" /\ sessions' = sessions /\ SameTurns /\ SameModes /\ maint' = maint
      /\ op.grave = None /\ graves' = graves /\ q = FirstOf(FreshPanes) /\ FreshPanes # {}
  BY DEF RunPane, SameTurns, SameModes, turnVars, ghostVars
<1>2. panes[q].st = "new"
  BY <1>1, FirstFresh
<1>3. op \in Ops /\ op' = [op EXCEPT !.pane = q, !.resumed = (op.native # None), !.pc = "live"]
  BY TypedNow DEF Inv, RunPane
<1>4. OpIs(op.kind, op.s, "live", q, op.victim, op.native, op.grave, op.native # None, op.todo,
           op.again)
  BY <1>3 DEF Ops, OpIs
<1>5. op' \in Ops
  BY <1>4, OpTypes DEF Inv, OpIs, Ops, OpStep, PaneIds
<1>6. panes' = [panes EXCEPT ![q] = [NoPane EXCEPT !.st = "up", !.convo = c]]
  BY DEF RunPane, Start
<1>7. c \in PaneIds
  BY OpTypes DEF Inv, PaneIds
<1> HIDE DEF c
<1>8. /\ OnlyPane(q) /\ panes'[q].st = "up" /\ panes'[q].tags = {} /\ panes'[q].session = None
  <2> DEFINE r == [NoPane EXCEPT !.st = "up", !.convo = c]
  <2>1. r \in Panes /\ r.st = "up" /\ r.tags = {} /\ r.session = None
    BY <1>7, FreshPaneIs
  <2>2. panes' = [panes EXCEPT ![q] = r]
    BY <1>6
  <2> HIDE DEF r
  <2> QED BY <2>1, <2>2, TypedNow DEF Inv, DaemonOK, OnlyPane
<1>9. DaemonOK'
  <2>1. \A g \in Range(graves) \ {None} : g \in Pane /\ panes[g].st = "gone"
    BY TypedNow DEF Inv, DaemonOK, Range, PaneIds
  <2> QED BY <1>1, <1>2, <1>8, <2>1, TypedNow DEF Inv, DaemonOK, OnlyPane
<1>10. TypeOK'
  BY <1>1, <1>5, <1>9, TypedNow, TypedNext DEF Inv, SameModes, SameTurns
<1> QED BY <1>1, <1>2, <1>4, <1>8, <1>10 DEF Runs

LEMMA RunFailsDoes ==
  ASSUME Inv, RunFails
  PROVE  /\ op.pc = "start" /\ Answered
         /\ SameDaemon /\ sessions' = sessions /\ SameTurns /\ SameModes /\ TypeOK'
<1>1. /\ op.pc = "start" /\ sessions' = sessions /\ SameTurns /\ SameModes /\ maint' = maint
      /\ SameDaemon
  BY DEF RunFails, SameTurns, SameModes, turnVars, ghostVars, SameDaemon, daemonVars
<1>2. Answered /\ op' \in Ops
  BY AnswerDoes, TypedNow DEF Inv, RunFails
<1>3. TypeOK'
  BY <1>1, <1>2, TypedNow, TypedNext, SameTyped DEF Inv, SameModes, SameTurns
<1> QED BY <1>1, <1>2, <1>3

LEMMA PaneLiveDoes ==
  ASSUME Inv, PaneLive
  PROVE  /\ op.pc = "live"
         /\ \/ Answered /\ SameDaemon
            \/ /\ Goes("tag") /\ Retags(op.pane)
               /\ panes'[op.pane].tags = panes[op.pane].tags \cup {"acp"}
               /\ panes'[op.pane].session = panes[op.pane].session
         /\ sessions' = sessions /\ SameTurns /\ SameModes /\ TypeOK'
<1> DEFINE p == op.pane
<1>1. /\ op.pc = "live" /\ sessions' = sessions /\ SameTurns /\ SameModes /\ maint' = maint
      /\ graves' = graves
  BY DEF PaneLive, SameTurns, SameModes, turnVars, ghostVars
<1>2. CASE ~Up(p)
  <2>1. Answered /\ op' \in Ops
    BY <1>2, AnswerDoes, TypedNow DEF Inv, PaneLive
  <2>2. SameDaemon
    BY <1>1, <1>2 DEF PaneLive, SameDaemon
  <2>3. TypeOK'
    BY <1>1, <2>1, <2>2, TypedNow, TypedNext, SameTyped DEF Inv, SameModes, SameTurns
  <2> QED BY <1>1, <2>1, <2>2, <2>3
<1>3. CASE Up(p)
  <2>1. panes' = [panes EXCEPT ![p].tags = @ \cup {"acp"}] /\ Goto("tag")
    BY <1>3 DEF PaneLive
  <2>2. Goes("tag") /\ op' \in Ops
    BY <2>1, GotoDoes, TypedNow DEF Inv, Goes, OpStep
  <2>3. p \in Pane
    BY <1>1 DEF Inv, OpPane, At, Started
  <2>4. /\ Retags(p) /\ panes'[p].tags = panes[p].tags \cup {"acp"}
        /\ panes'[p].session = panes[p].session
    <3> HIDE DEF p
    <3> QED BY <1>1, <1>3, <2>1, <2>3, TypedNow
       DEF Inv, DaemonOK, Panes, Retags, OnlyPane, Up
  <2>5. TypeOK'
    BY <1>1, <2>2, <2>4, TypedNow, TypedNext, RetagTyped DEF Inv, SameModes, SameTurns
  <2> QED BY <1>1, <2>2, <2>4, <2>5
<1> QED BY <1>2, <1>3

LEMMA TagSessionDoes ==
  ASSUME Inv, TagSession
  PROVE  /\ op.pc = "tag"
         /\ \/ Answered /\ SameDaemon
            \/ /\ Goes("mark") /\ Retags(op.pane) /\ op.s \in Session
               /\ panes'[op.pane].tags = panes[op.pane].tags \cup {"acp"}
               /\ panes'[op.pane].session = op.s
         /\ sessions' = sessions /\ SameTurns /\ SameModes /\ TypeOK'
<1> DEFINE p == op.pane
<1>1. /\ op.pc = "tag" /\ sessions' = sessions /\ SameTurns /\ SameModes /\ maint' = maint
      /\ graves' = graves
  BY DEF TagSession, SameTurns, SameModes, turnVars, ghostVars
<1>2. CASE ~Up(p)
  <2>1. Answered /\ op' \in Ops
    BY <1>2, AnswerDoes, TypedNow DEF Inv, TagSession
  <2>2. SameDaemon
    BY <1>1, <1>2 DEF TagSession, SameDaemon
  <2>3. TypeOK'
    BY <1>1, <2>1, <2>2, TypedNow, TypedNext, SameTyped DEF Inv, SameModes, SameTurns
  <2> QED BY <1>1, <2>1, <2>2, <2>3
<1>3. CASE Up(p)
  <2>1. panes' = [panes EXCEPT ![p].tags = @ \cup {"acp"}, ![p].session = op.s] /\ Goto("mark")
    BY <1>3 DEF TagSession
  <2>2. Goes("mark") /\ op' \in Ops
    BY <2>1, GotoDoes, TypedNow DEF Inv, Goes, OpStep
  <2>3. p \in Pane /\ op.s \in Session
    <3>1. op.kind \in {"new", "resume", "prompt", "delete"}
      BY <1>1, OpTypes DEF Inv, OpKinds, At, OpKind
    <3> QED BY <1>1, <3>1 DEF Inv, OpPane, OpSession, At, Started
  <2>4. /\ Retags(p) /\ panes'[p].tags = panes[p].tags \cup {"acp"}
        /\ panes'[p].session = op.s
    <3> HIDE DEF p
    <3>1. panes \in [Pane -> Panes] /\ op.s \in SessionIds
      BY <2>3, TypedNow DEF Inv, DaemonOK, SessionIds
    <3> QED BY <1>1, <1>3, <2>1, <2>3, <3>1 DEF Panes, Retags, OnlyPane, Up
  <2>5. TypeOK'
    BY <1>1, <2>2, <2>4, TypedNow, TypedNext, RetagTyped DEF Inv, SameModes, SameTurns
  <2> QED BY <1>1, <2>2, <2>3, <2>4, <2>5
<1> QED BY <1>2, <1>3

LEMMA TagResumableDoes ==
  ASSUME Inv, TagResumable
  PROVE  /\ op.pc = "mark"
         /\ \/ Answered /\ SameDaemon
            \/ /\ Goes("install") /\ Retags(op.pane)
               /\ panes'[op.pane].tags = IF op.resumed THEN panes[op.pane].tags \cup {"resumable"}
                                         ELSE panes[op.pane].tags \ {"resumable"}
               /\ panes'[op.pane].session = panes[op.pane].session
         /\ sessions' = sessions /\ SameTurns /\ SameModes /\ TypeOK'
<1> DEFINE p == op.pane
           tags == IF op.resumed THEN panes[p].tags \cup {"resumable"}
                   ELSE panes[p].tags \ {"resumable"}
<1>1. /\ op.pc = "mark" /\ sessions' = sessions /\ SameTurns /\ SameModes /\ maint' = maint
      /\ graves' = graves
  BY DEF TagResumable, SameTurns, SameModes, turnVars, ghostVars
<1>2. CASE ~Up(p)
  <2>1. Answered /\ op' \in Ops
    BY <1>2, AnswerDoes, TypedNow DEF Inv, TagResumable
  <2>2. SameDaemon
    BY <1>1, <1>2 DEF TagResumable, SameDaemon
  <2>3. TypeOK'
    BY <1>1, <2>1, <2>2, TypedNow, TypedNext, SameTyped DEF Inv, SameModes, SameTurns
  <2> QED BY <1>1, <2>1, <2>2, <2>3
<1>3. CASE Up(p)
  <2>1. panes' = [panes EXCEPT ![p].tags = tags] /\ Goto("install")
    BY <1>3 DEF TagResumable
  <2>2. Goes("install") /\ op' \in Ops
    BY <2>1, GotoDoes, TypedNow DEF Inv, Goes, OpStep
  <2>3. p \in Pane
    BY <1>1 DEF Inv, OpPane, At, Started
  <2>4. /\ Retags(p) /\ panes'[p].tags = tags /\ panes'[p].session = panes[p].session
    <3>1. panes \in [Pane -> Panes]
      BY TypedNow DEF Inv, DaemonOK
    <3>2. tags \subseteq {"acp", "resumable", "deleted"}
      BY <2>3, <3>1 DEF Panes
    <3> HIDE DEF p, tags
    <3> QED BY <1>1, <1>3, <2>1, <2>3, <3>1, <3>2 DEF Panes, Retags, OnlyPane, Up
  <2>5. TypeOK'
    BY <1>1, <2>2, <2>4, TypedNow, TypedNext, RetagTyped DEF Inv, SameModes, SameTurns
  <2> QED BY <1>1, <2>2, <2>4, <2>5
<1> QED BY <1>2, <1>3

LEMMA TagFailsDoes ==
  ASSUME Inv, TagFails
  PROVE  /\ op.pc \in {"live", "tag", "mark"} /\ op.pane \in Pane /\ Killed(op.pane) /\ Answered
         /\ sessions' = sessions /\ SameTurns /\ SameModes /\ TypeOK'
<1>1. /\ op.pc \in {"live", "tag", "mark"} /\ sessions' = sessions /\ SameTurns /\ SameModes
      /\ maint' = maint
  BY DEF TagFails, SameTurns, SameModes, turnVars, ghostVars
<1>2. op.pane \in Pane
  BY <1>1 DEF Inv, OpPane, At, Started
<1>3. Killed(op.pane) /\ DaemonOK'
  BY <1>2, KillDoes, TypedNow DEF Inv, TagFails
<1>4. Answered /\ op' \in Ops
  BY AnswerDoes, TypedNow DEF Inv, TagFails
<1>5. TypeOK'
  BY <1>1, <1>3, <1>4, TypedNow, TypedNext DEF Inv, SameModes, SameTurns
<1> QED BY <1>1, <1>2, <1>3, <1>4, <1>5

\* Session s has pane p from now on.
Installs(s, p) ==
  /\ s \in Session /\ OnlySession(s) /\ sessions'[s].st = "known" /\ sessions'[s].pane = p
  /\ sessions'[s].grave = None /\ sessions'[s].turn = sessions[s].turn

LEMMA NewEntryIs ==
  ASSUME NEW p \in PaneIds, NEW n \in PaneIds
  PROVE  LET r == [Absent EXCEPT !.st = "known", !.pane = p, !.prompt = TRUE, !.native = n] IN
         r \in Entries /\ r.st = "known" /\ r.pane = p /\ r.grave = None /\ ~r.turn
BY DEF Absent, Entries, PaneIds

LEMMA InstallDoes ==
  ASSUME Inv, Install
  PROVE  /\ op.pc = "install" /\ op.kind \in {"new", "resume", "prompt", "delete"}
         /\ op.pane \in Pane /\ Installs(op.s, op.pane)
         /\ \/ Answered
            \/ /\ op.kind \in {"prompt", "delete"}
               /\ OpIs(op.kind, op.s, "use", None, None, None, None, FALSE, {}, op.again)
         /\ SameDaemon /\ SameTurns /\ SameModes /\ TypeOK'
<1> DEFINE p == op.pane
           s == op.s
           e == sessions[s]
           n == IF panes[p].bound THEN panes[p].convo ELSE IF op.kind = "new" THEN None ELSE op.native
<1>1. /\ op.pc = "install" /\ SameDaemon /\ SameTurns /\ SameModes /\ maint' = maint
  BY DEF Install, SameTurns, SameModes, turnVars, ghostVars, SameDaemon, daemonVars
<1>2. op.kind \in {"new", "resume", "prompt", "delete"}
  BY <1>1, OpTypes DEF Inv, OpKinds, At, OpKind
<1>3. p \in Pane /\ s \in Session
  BY <1>1, <1>2 DEF Inv, OpPane, OpSession, At, Started
<1>4. sessions \in [Session -> Entries] /\ e \in Entries /\ panes[p].convo \in PaneIds
      /\ op.native \in PaneIds /\ op.resumed \in BOOLEAN
  BY <1>3, TypedNow, OpTypes DEF Inv, DaemonOK, Panes
<1>5. n \in PaneIds /\ p \in PaneIds
  BY <1>3, <1>4 DEF PaneIds
<1>6. Installs(s, p)
  <2>1. CASE op.kind = "new"
    <3>1. e = Absent
      BY <1>3, <2>1 DEF Inv, OpSession, Blank
    <3>2. sessions' = [sessions EXCEPT ![s] = [Absent EXCEPT !.st = "known", !.pane = p,
                         !.prompt = TRUE, !.native = n]]
      BY <2>1 DEF Install
    <3> HIDE DEF n, p, s
    <3> DEFINE r == [Absent EXCEPT !.st = "known", !.pane = p, !.prompt = TRUE, !.native = n]
    <3>3. r \in Entries /\ r.st = "known" /\ r.pane = p /\ r.grave = None /\ ~r.turn
      BY <1>5, NewEntryIs
    <3>4. sessions' = [sessions EXCEPT ![s] = r]
      BY <3>2
    <3> HIDE DEF r
    <3>5. ~sessions[s].turn
      BY <3>1 DEF e, Absent
    <3>6. sessions'[s].turn = sessions[s].turn
      BY <1>3, <1>4, <3>3, <3>4, <3>5 DEF Entries
    <3> QED BY <1>3, <1>4, <3>3, <3>4, <3>6 DEF Installs, OnlySession
  <2>2. CASE op.kind # "new"
    <3>1. e.st = "known"
      BY <1>2, <1>3, <2>2 DEF Inv, OpSession, Has
    <3>2. sessions' = [sessions EXCEPT ![s] = [e EXCEPT !.pane = p, !.grave = None, !.native = n,
                         !.delivered = e.delivered /\ op.resumed]]
      BY <2>2 DEF Install
    <3> HIDE DEF n, p, s, e
    <3> DEFINE d == e.delivered /\ op.resumed
    <3>4. d \in BOOLEAN
      BY Zenon
    <3>7. sessions' = [sessions EXCEPT ![s] = [e EXCEPT !.pane = p, !.grave = None, !.native = n,
                         !.delivered = d]]
      BY <3>2
    <3> HIDE DEF d
    <3> DEFINE r == [e EXCEPT !.pane = p, !.grave = None, !.native = n, !.delivered = d]
    <3>3. r \in Entries /\ r.st = e.st /\ r.pane = p /\ r.grave = None /\ r.turn = e.turn
      <4>1. e \in Entries /\ p \in PaneIds /\ n \in PaneIds /\ d \in BOOLEAN
        BY <1>4, <1>5, <3>4
      <4> QED BY <4>1 DEF Entries, PaneIds
    <3>5. sessions' = [sessions EXCEPT ![s] = r]
      BY <3>7
    <3>6. e = sessions[s]
      BY DEF e
    <3> HIDE DEF r
    <3> QED BY <1>3, <1>4, <3>1, <3>3, <3>5, <3>6 DEF Installs, OnlySession
  <2> QED BY <2>1, <2>2
<1>7. op' \in Ops /\ \/ Answered
                     \/ /\ op.kind \in {"prompt", "delete"}
                        /\ OpIs(op.kind, s, "use", None, None, None, None, FALSE, {}, op.again)
  <2>1. CASE op.kind \in {"new", "resume"}
    BY <2>1, AnswerDoes, TypedNow DEF Inv, Install
  <2>2. CASE op.kind \notin {"new", "resume"}
    <3>1. op' = [Idle EXCEPT !.kind = op.kind, !.s = op.s, !.again = op.again, !.pc = "use"]
      BY <2>2 DEF Install
    <3>2. OpIs(op.kind, s, "use", None, None, None, None, FALSE, {}, op.again)
      BY <3>1 DEF Idle, OpIs
    <3>3. op' \in Ops
      BY <3>2, OpTypes DEF Inv, OpIs, Ops, OpStep, PaneIds, SessionIds
    <3> QED BY <1>2, <2>2, <3>2, <3>3
  <2> QED BY <2>1, <2>2
<1>8. TypeOK'
  BY <1>1, <1>6, <1>7, TypedNow, TypedNext, SameTyped
     DEF Inv, SameModes, SameTurns, Installs, OnlySession
<1> QED BY <1>1, <1>2, <1>3, <1>6, <1>7, <1>8

LEMMA BeginTurnDoes ==
  ASSUME Inv, BeginTurn
  PROVE  /\ op.pc = "use" /\ op.kind = "prompt" /\ op.s \in Session /\ Answered
         /\ \/ sessions' = sessions /\ turns' = turns
            \/ /\ OnlyTurn(op.s) /\ turns'[op.s].pc = "sending"
               /\ turns'[op.s].pane = sessions[op.s].pane /\ ~turns'[op.s].cancelled
               /\ sessions[op.s].pane \in Pane
               /\ SameHomes /\ sessions'[op.s].turn
               /\ \A x \in Session \ {op.s} : sessions'[x] = sessions[x]
         /\ SameDaemon /\ stale' = stale /\ SameModes /\ TypeOK'
<1> DEFINE s == op.s
           e == sessions[s]
           f == ~e.delivered /\ e.prompt
<1>1. /\ op.pc = "use" /\ op.kind = "prompt" /\ SameDaemon /\ stale' = stale /\ SameModes
      /\ maint' = maint
  BY DEF BeginTurn, SameModes, ghostVars, SameDaemon, daemonVars
<1>2. s \in Session /\ Has(s)
  BY <1>1 DEF Inv, OpSession
<1>3. Answered /\ op' \in Ops
  BY AnswerDoes, TypedNow DEF Inv, BeginTurn
<1>4. sessions \in [Session -> Entries] /\ e \in Entries /\ turns \in [Session -> Turns]
      /\ op.again \in BOOLEAN
  BY <1>2, TypedNow, OpTypes DEF Inv
<1>5. CASE e.turn \/ e.pane = None
  <2>1. sessions' = sessions /\ turns' = turns
    BY <1>5 DEF BeginTurn
  <2>2. TypeOK'
    BY <1>1, <1>3, <2>1, TypedNow, TypedNext, SameTyped DEF Inv, SameModes
  <2> QED BY <1>1, <1>2, <1>3, <2>1, <2>2
<1>6. CASE ~(e.turn \/ e.pane = None)
  <2>1. /\ sessions' = [sessions EXCEPT ![s].turn = TRUE]
        /\ turns' = [turns EXCEPT ![s] = [NoTurn EXCEPT
             !.pc = "sending", !.pane = e.pane, !.again = op.again, !.framed = f]]
    BY <1>6 DEF BeginTurn
  <2>2. e.pane \in Pane /\ f \in BOOLEAN
    BY <1>4, <1>6 DEF Entries, PaneIds
  <2> HIDE DEF f
  <2> DEFINE r == [NoTurn EXCEPT !.pc = "sending", !.pane = e.pane, !.again = op.again, !.framed = f]
  <2>3. r \in Turns /\ r.pc = "sending" /\ r.pane = e.pane /\ ~r.cancelled
    <3>1. e.pane \in PaneIds /\ op.again \in BOOLEAN /\ f \in BOOLEAN
      BY <1>4, <2>2 DEF PaneIds
    <3> HIDE DEF e
    <3> QED BY <3>1 DEF NoTurn, Turns
  <2>4. turns' = [turns EXCEPT ![s] = r]
    BY <2>1
  <2> HIDE DEF r
  <2>5. /\ OnlyTurn(s) /\ turns'[s].pc = "sending" /\ turns'[s].pane = e.pane
        /\ ~turns'[s].cancelled
    BY <1>2, <1>4, <2>3, <2>4 DEF OnlyTurn
  <2>6. OnlySession(s) /\ sessions'[s].st = e.st /\ sessions'[s].grave = e.grave
        /\ sessions'[s].pane = e.pane /\ sessions'[s].turn
    <3> HIDE DEF s
    <3> QED BY <1>2, <1>4, <2>1 DEF OnlySession, Entries
  <2>7. SameHomes
    BY <1>2, <2>6 DEF SameHomes, OnlySession
  <2>8. TypeOK'
    BY <1>1, <1>3, <2>5, <2>7, TypedNow, TypedNext, SameTyped
       DEF Inv, SameModes, SameHomes, OnlyTurn
  <2> QED BY <1>1, <1>2, <1>3, <2>2, <2>5, <2>6, <2>7, <2>8 DEF OnlySession
<1> QED BY <1>5, <1>6

LEMMA UseDeletedDoes ==
  ASSUME Inv, UseDeleted
  PROVE  /\ op.pc = "use" /\ op.kind = "delete" /\ op.s \in Session
         /\ \/ Answered
            \/ /\ sessions[op.s].pane \in Pane
               /\ OpIs(op.kind, op.s, "tombstone", sessions[op.s].pane, op.victim, op.native,
                       op.grave, op.resumed, op.todo, op.again)
         /\ SameDaemon /\ sessions' = sessions /\ SameTurns /\ SameModes /\ TypeOK'
<1> DEFINE p == sessions[op.s].pane
<1>1. /\ op.pc = "use" /\ op.kind = "delete" /\ SameDaemon /\ sessions' = sessions /\ SameTurns
      /\ SameModes
  BY DEF UseDeleted, SameModes, SameTurns, ghostVars, SameDaemon, daemonVars, turnVars
<1>2. op.s \in Session
  BY <1>1 DEF Inv, OpSession
<1>3. CASE p = None
  <2>1. Answered /\ op' \in Ops /\ maint' \in BOOLEAN
    BY <1>3, PanicDoes DEF Inv, UseDeleted
  <2>2. TypeOK'
    BY <1>1, <2>1, TypedNow, TypedNext, SameTyped DEF Inv, SameModes, SameTurns
  <2> QED BY <1>1, <1>2, <2>1, <2>2
<1>4. CASE p # None
  <2>1. op \in Ops /\ op' = [op EXCEPT !.pane = p, !.pc = "tombstone"] /\ maint' = maint
    BY <1>4, TypedNow DEF Inv, UseDeleted
  <2>2. p \in Pane
    BY <1>2, <1>4, TypedNow DEF Inv, Entries, PaneIds
  <2> HIDE DEF p
  <2>3. OpIs(op.kind, op.s, "tombstone", p, op.victim, op.native, op.grave, op.resumed, op.todo,
             op.again)
    BY <2>1 DEF Ops, OpIs
  <2>4. op' \in Ops
    BY <2>2, <2>3, OpTypes DEF Inv, OpIs, Ops, OpStep, PaneIds
  <2>5. TypeOK'
    BY <1>1, <2>1, <2>4, TypedNow, TypedNext, SameTyped DEF Inv, SameModes, SameTurns
  <2> QED BY <1>1, <1>2, <2>2, <2>3, <2>5 DEF p
<1> QED BY <1>3, <1>4

\* Of a session that is deleted, other panes that are up are noted.
Strayed == /\ strayed' \subseteq Session /\ strayed \subseteq strayed'
           /\ strayed' \subseteq strayed \cup {op.s}
           /\ Strays(op.s) # {} => op.s \in strayed'

LEMMA TombstoneDoes ==
  ASSUME Inv, Tombstone
  PROVE  /\ op.pc = "tombstone" /\ op.s \in Session /\ op.pane \in Pane
         /\ \/ Answered /\ SameDaemon
            \/ /\ Goes("erase") /\ Retags(op.pane)
               /\ panes'[op.pane].tags = panes[op.pane].tags \cup {"deleted"}
               /\ panes'[op.pane].session = panes[op.pane].session
         /\ sessions' = sessions /\ SameTurns /\ mode' = mode /\ deleted' = deleted /\ Strayed
         /\ TypeOK'
<1> DEFINE p == op.pane
<1>1. /\ op.pc = "tombstone" /\ sessions' = sessions /\ SameTurns /\ mode' = mode /\ maint' = maint
      /\ graves' = graves /\ deleted' = deleted
  BY DEF Tombstone, SameTurns, turnVars
<1>2. p \in Pane /\ op.s \in Session
  BY <1>1 DEF Inv, OpPane, OpSession, OpKinds, At
<1>3. Strayed
  <2>1. strayed' = IF Strays(op.s) = {} THEN strayed ELSE strayed \cup {op.s}
    BY DEF Tombstone
  <2> QED BY <1>2, <2>1, TypedNow DEF Inv, Strayed
<1>4. CASE ~Up(p)
  <2>1. Answered /\ op' \in Ops
    BY <1>4, AnswerDoes, TypedNow DEF Inv, Tombstone
  <2>2. SameDaemon
    BY <1>1, <1>4 DEF Tombstone, SameDaemon
  <2>3. TypeOK'
    BY <1>1, <1>3, <2>1, <2>2, TypedNow, TypedNext, SameTyped DEF Inv, SameTurns, Strayed
  <2> QED BY <1>1, <1>2, <1>3, <2>1, <2>2, <2>3
<1>5. CASE Up(p)
  <2>1. panes' = [panes EXCEPT ![p].tags = @ \cup {"deleted"}] /\ Goto("erase")
    BY <1>5 DEF Tombstone
  <2>2. Goes("erase") /\ op' \in Ops
    BY <2>1, GotoDoes, TypedNow DEF Inv, Goes, OpStep
  <2>3. /\ Retags(p) /\ panes'[p].tags = panes[p].tags \cup {"deleted"}
        /\ panes'[p].session = panes[p].session
    <3> HIDE DEF p
    <3> QED BY <1>1, <1>2, <1>5, <2>1, TypedNow
       DEF Inv, DaemonOK, Panes, Retags, OnlyPane, Up
  <2>4. TypeOK'
    BY <1>1, <1>3, <2>2, <2>3, TypedNow, TypedNext, RetagTyped DEF Inv, SameTurns, Strayed
  <2> QED BY <1>1, <1>2, <1>3, <2>2, <2>3, <2>4
<1> QED BY <1>4, <1>5

LEMMA ErasePaneDoes ==
  ASSUME Inv, ErasePane
  PROVE  /\ op.pc = "erase" /\ op.s \in Session /\ op.pane \in Pane /\ Killed(op.pane) /\ Answered
         /\ \/ /\ Up(op.pane) /\ OnlySession(op.s) /\ sessions'[op.s] = Absent
               /\ deleted' = deleted \cup {op.s}
            \/ ~Up(op.pane) /\ sessions' = sessions /\ deleted' = deleted
         /\ SameTurns /\ mode' = mode /\ Strayed /\ TypeOK'
<1> DEFINE p == op.pane
<1>1. /\ op.pc = "erase" /\ SameTurns /\ mode' = mode /\ maint' = maint
  BY DEF ErasePane, SameTurns, turnVars
<1>2. p \in Pane /\ op.s \in Session
  BY <1>1 DEF Inv, OpPane, OpSession, OpKinds, At
<1>3. Strayed
  <2>1. strayed' = IF Strays(op.s) = {} THEN strayed ELSE strayed \cup {op.s}
    BY DEF ErasePane
  <2> QED BY <1>2, <2>1, TypedNow DEF Inv, Strayed
<1>4. Killed(p) /\ DaemonOK'
  BY <1>2, KillDoes, TypedNow DEF Inv, ErasePane
<1>5. Answered /\ op' \in Ops
  BY AnswerDoes, TypedNow DEF Inv, ErasePane
<1>6. \/ /\ Up(p) /\ OnlySession(op.s) /\ sessions'[op.s] = Absent
         /\ deleted' = deleted \cup {op.s}
      \/ ~Up(p) /\ sessions' = sessions /\ deleted' = deleted
  <2>1. Absent \in Entries
    BY DEF Absent, Entries, PaneIds
  <2> QED BY <1>2, <2>1, TypedNow DEF Inv, ErasePane, OnlySession
<1>7. sessions' \in [Session -> Entries] /\ deleted' \subseteq Session
  BY <1>2, <1>6, TypedNow DEF Inv, OnlySession
<1>8. TypeOK'
  BY <1>1, <1>3, <1>4, <1>5, <1>7, TypedNow, TypedNext DEF Inv, SameTurns, Strayed
<1> QED BY <1>1, <1>2, <1>3, <1>4, <1>5, <1>6, <1>8

LEMMA ClosePaneDoes ==
  ASSUME Inv, ClosePane
  PROVE  /\ op.pc = "close" /\ op.pane \in Pane /\ Killed(op.pane)
         /\ \/ Up(op.pane) /\ Goes("gone")
            \/ ~Up(op.pane) /\ Answered
         /\ SameHomes /\ \A x \in Session : sessions'[x].turn = sessions[x].turn
         /\ SameTurns /\ SameModes /\ TypeOK'
<1> DEFINE p == op.pane
           s == op.s
<1>1. /\ op.pc = "close" /\ SameTurns /\ SameModes /\ maint' = maint
  BY DEF ClosePane, SameTurns, turnVars, SameModes, ghostVars
<1>2. p \in Pane /\ s \in Session /\ Has(s)
  BY <1>1 DEF Inv, OpPane, OpSession, OpKinds, At
<1>3. Killed(p) /\ DaemonOK'
  BY <1>2, KillDoes, TypedNow DEF Inv, ClosePane
<1>4. SameHomes /\ \A x \in Session : sessions'[x].turn = sessions[x].turn
  <2>1. sessions \in [Session -> Entries]
    BY TypedNow DEF Inv
  <2>2. CASE sessions' = sessions
    BY <2>1, <2>2 DEF SameHomes
  <2>3. CASE sessions' = [sessions EXCEPT ![s].native = panes[p].convo]
    <3>1. panes[p].convo \in PaneIds
      BY <1>2, TypedNow DEF Inv, DaemonOK, Panes
    <3> HIDE DEF p, s
    <3>2. OnlySession(s) /\ sessions'[s].st = sessions[s].st
          /\ sessions'[s].grave = sessions[s].grave /\ sessions'[s].pane = sessions[s].pane
          /\ sessions'[s].turn = sessions[s].turn
      BY <1>2, <2>1, <2>3, <3>1 DEF Entries, OnlySession
    <3> QED BY <1>2, <2>1, <3>2 DEF SameHomes, OnlySession
  <2> QED BY <2>2, <2>3 DEF ClosePane
<1>5. op' \in Ops /\ ((Up(p) /\ Goes("gone")) \/ (~Up(p) /\ Answered))
  <2>1. CASE Up(p)
    <3>1. Goto("gone")
      BY <2>1 DEF ClosePane
    <3>2. Goes("gone") /\ op' \in Ops
      <4>1. op \in Ops /\ "gone" \in OpStep
        BY TypedNow DEF Inv, OpStep
      <4> QED BY <3>1, <4>1, GotoDoes DEF Goes
    <3> QED BY <2>1, <3>2
  <2>2. CASE ~Up(p)
    BY <2>2, AnswerDoes, TypedNow DEF Inv, ClosePane
  <2> QED BY <2>1, <2>2
<1>6. TypeOK'
  BY <1>1, <1>3, <1>4, <1>5, TypedNow, TypedNext DEF Inv, SameTurns, SameModes, SameHomes
<1> QED BY <1>1, <1>2, <1>3, <1>4, <1>5, <1>6

LEMMA CloseForgetsPaneDoes ==
  ASSUME Inv, CloseForgetsPane
  PROVE  /\ op.pc = "gone" /\ op.s \in Session /\ Gone(op.pane) /\ Captures(op.s, op.pane) /\ Answered
         /\ SameDaemon /\ SameTurns /\ SameModes /\ TypeOK'
<1>1. /\ op.pc = "gone" /\ SameTurns /\ SameModes /\ maint' = maint /\ SameDaemon
  BY DEF CloseForgetsPane, SameTurns, turnVars, SameModes, ghostVars, SameDaemon, daemonVars
<1>2. op.pane \in Pane /\ op.s \in Session /\ Gone(op.pane)
  BY <1>1 DEF Inv, OpPane, OpSession, OpKinds, At
<1>3. Captures(op.s, op.pane)
  BY <1>2, CaptureDoes DEF Inv, CloseForgetsPane
<1>4. Answered /\ op' \in Ops
  BY AnswerDoes, TypedNow DEF Inv, CloseForgetsPane
<1>5. TypeOK'
  BY <1>1, <1>3, <1>4, TypedNow, TypedNext, SameTyped
     DEF Inv, SameTurns, SameModes, Captures, OnlySession
<1> QED BY <1>1, <1>2, <1>3, <1>4, <1>5

LEMMA SweepListsDoes ==
  ASSUME Inv, SweepLists
  PROVE  /\ op.pc = "list" /\ Reconciles
         /\ OpIs(op.kind, op.s, "adopt", op.pane, op.victim, op.native, op.grave, op.resumed,
                 InScope \ {sessions[s].pane : s \in Resident \ Dead}, op.again)
         /\ SameDaemon /\ stale' = stale /\ SameModes /\ TypeOK'
<1> DEFINE todo == InScope \ {sessions[s].pane : s \in Resident \ Dead}
<1>1. /\ op.pc = "list" /\ stale' = stale /\ SameModes /\ maint' = maint /\ SameDaemon /\ Reconcile
  BY DEF SweepLists, SameModes, ghostVars, SameDaemon, daemonVars
<1>2. Reconciles
  BY <1>1, ReconcileDoes DEF Inv
<1>3. op \in Ops /\ op' = [op EXCEPT !.pc = "adopt", !.todo = todo]
  BY TypedNow DEF Inv, SweepLists
<1>4. todo \subseteq Pane
  BY DEF InScope
<1> HIDE DEF todo
<1>5. OpIs(op.kind, op.s, "adopt", op.pane, op.victim, op.native, op.grave, op.resumed, todo, op.again)
  BY <1>3 DEF Ops, OpIs
<1>6. op' \in Ops
  BY <1>4, <1>5, OpTypes DEF Inv, OpIs, Ops, OpStep
<1>7. TypeOK'
  BY <1>1, <1>2, <1>6, TypedNow, TypedNext, SameTyped DEF Inv, SameModes, Reconciles
<1> QED BY <1>1, <1>2, <1>5, <1>7 DEF todo

LEMMA DoneDoes ==
  ASSUME TypeOK, NEW p, Done(p)
  PROVE  /\ OpIs(op.kind, op.s, op.pc, op.pane, op.victim, op.native, op.grave, op.resumed,
                 op.todo \ {p}, op.again)
         /\ op' \in Ops
<1>1. op \in Ops /\ op' = [op EXCEPT !.todo = @ \ {p}]
  BY TypedNow DEF Done
<1>2. OpIs(op.kind, op.s, op.pc, op.pane, op.victim, op.native, op.grave, op.resumed,
           op.todo \ {p}, op.again)
  BY <1>1 DEF Ops, OpIs
<1>3. op' \in Ops
  BY <1>2, OpTypes DEF OpIs, Ops
<1> QED BY <1>2, <1>3

LEMMA SweepDiscardsDoes ==
  ASSUME Inv, NEW p \in Pane, SweepDiscards(p)
  PROVE  /\ op.pc = "adopt" /\ p \in op.todo /\ Killed(p)
         /\ OpIs(op.kind, op.s, op.pc, op.pane, op.victim, op.native, op.grave, op.resumed,
                 op.todo \ {p}, op.again)
         /\ sessions' = sessions /\ SameTurns /\ SameModes /\ TypeOK'
<1>1. /\ op.pc = "adopt" /\ p \in op.todo /\ sessions' = sessions /\ SameTurns /\ SameModes
      /\ maint' = maint
  BY DEF SweepDiscards, SameTurns, turnVars, SameModes, ghostVars
<1>2. Killed(p) /\ DaemonOK'
  BY KillDoes, TypedNow DEF Inv, SweepDiscards
<1>3. /\ OpIs(op.kind, op.s, op.pc, op.pane, op.victim, op.native, op.grave, op.resumed,
              op.todo \ {p}, op.again)
      /\ op' \in Ops
  BY DoneDoes DEF Inv, SweepDiscards
<1>4. TypeOK'
  BY <1>1, <1>2, <1>3, TypedNow, TypedNext DEF Inv, SameTurns, SameModes
<1> QED BY <1>1, <1>2, <1>3, <1>4

LEMMA SweepStripsDoes ==
  ASSUME Inv, NEW p \in Pane, SweepStrips(p)
  PROVE  /\ op.pc = "adopt" /\ p \in op.todo
         /\ OpIs(op.kind, op.s, "strip", p, op.victim, op.native, op.grave, op.resumed, op.todo,
                 op.again)
         /\ \/ SameDaemon /\ ~Up(p)
            \/ /\ Retags(p) /\ panes'[p].tags = panes[p].tags \ {"acp", "resumable"}
               /\ panes'[p].session = None
         /\ sessions' = sessions /\ SameTurns /\ SameModes /\ TypeOK'
<1>1. /\ op.pc = "adopt" /\ p \in op.todo /\ sessions' = sessions /\ SameTurns /\ SameModes
      /\ maint' = maint /\ graves' = graves
  BY DEF SweepStrips, SameTurns, turnVars, SameModes, ghostVars
<1>2. op \in Ops /\ op' = [op EXCEPT !.pane = p, !.pc = "strip"]
  BY TypedNow DEF Inv, SweepStrips
<1>3. OpIs(op.kind, op.s, "strip", p, op.victim, op.native, op.grave, op.resumed, op.todo, op.again)
  BY <1>2 DEF Ops, OpIs
<1>4. op' \in Ops
  BY <1>3, OpTypes DEF Inv, OpIs, Ops, OpStep, PaneIds
<1>5. \/ SameDaemon /\ ~Up(p)
      \/ /\ Retags(p) /\ panes'[p].tags = panes[p].tags \ {"acp", "resumable"}
         /\ panes'[p].session = None
  <2>1. CASE ~Up(p)
    BY <1>1, <2>1 DEF SweepStrips, SameDaemon
  <2>2. CASE Up(p)
    <3>1. /\ panes \in [Pane -> Panes]
          /\ panes' = [panes EXCEPT ![p].tags = @ \ {"acp", "resumable"}, ![p].session = None]
      BY <2>2, TypedNow DEF Inv, DaemonOK, SweepStrips
    <3> QED BY <1>1, <2>2, <3>1 DEF Panes, Retags, OnlyPane, Up, SessionIds
  <2> QED BY <2>1, <2>2
<1>6. DaemonOK'
  BY <1>5, RetagTyped, SameTyped, TypedNow DEF Inv
<1>7. TypeOK'
  BY <1>1, <1>4, <1>6, TypedNow, TypedNext DEF Inv, SameTurns, SameModes
<1> QED BY <1>1, <1>3, <1>5, <1>7

LEMMA KillStrippedDoes ==
  ASSUME Inv, KillStripped
  PROVE  /\ op.pc = "strip" /\ op.pane \in Pane /\ Killed(op.pane)
         /\ OpIs(op.kind, op.s, "adopt", None, op.victim, op.native, op.grave, op.resumed,
                 op.todo \ {op.pane}, op.again)
         /\ sessions' = sessions /\ SameTurns /\ SameModes /\ TypeOK'
<1>1. /\ op.pc = "strip" /\ sessions' = sessions /\ SameTurns /\ SameModes /\ maint' = maint
  BY DEF KillStripped, SameTurns, turnVars, SameModes, ghostVars
<1>2. op.pane \in Pane
  BY <1>1 DEF Inv, OpPane, At
<1>3. Killed(op.pane) /\ DaemonOK'
  BY <1>2, KillDoes, TypedNow DEF Inv, KillStripped
<1>4. op \in Ops /\ op' = [op EXCEPT !.todo = @ \ {op.pane}, !.pane = None, !.pc = "adopt"]
  BY TypedNow DEF Inv, KillStripped
<1>5. OpIs(op.kind, op.s, "adopt", None, op.victim, op.native, op.grave, op.resumed,
           op.todo \ {op.pane}, op.again)
  BY <1>4 DEF Ops, OpIs
<1>6. op' \in Ops
  BY <1>5, OpTypes DEF Inv, OpIs, Ops, OpStep, PaneIds
<1>7. TypeOK'
  BY <1>1, <1>3, <1>6, TypedNow, TypedNext DEF Inv, SameTurns, SameModes
<1> QED BY <1>1, <1>2, <1>3, <1>5, <1>7

\* The entry of a session that is adopted with pane p.
LEMMA RecoveredIs ==
  ASSUME TypeOK, NEW p \in Pane
  PROVE  /\ Recovered(p) \in Entries /\ Recovered(p).st = "known" /\ Recovered(p).pane = p
         /\ Recovered(p).grave = None /\ ~Recovered(p).turn
<1>1. panes[p].convo \in PaneIds /\ p \in PaneIds
  BY TypedNow DEF DaemonOK, Panes, PaneIds
<1> QED BY <1>1 DEF Recovered, Absent, Entries, PaneIds

LEMMA SweepAdoptsDoes ==
  ASSUME Inv, NEW p \in Pane, SweepAdopts(p)
  PROVE  /\ op.pc = "adopt" /\ p \in op.todo /\ panes[p].session \in Session
         /\ sessions[panes[p].session].pane = None /\ Installs(panes[p].session, p)
         /\ OpIs(op.kind, op.s, "lease", p, op.victim, op.native, op.grave, op.resumed, op.todo,
                 op.again)
         /\ SameDaemon /\ SameTurns /\ SameModes /\ TypeOK'
<1> DEFINE s == panes[p].session
           e == sessions[s]
           c == panes[p].convo
<1>1. /\ op.pc = "adopt" /\ p \in op.todo /\ SameDaemon /\ SameTurns /\ SameModes
      /\ maint' = maint /\ s # None /\ e.pane = None
  BY DEF SweepAdopts, SameTurns, turnVars, SameModes, ghostVars, SameDaemon, daemonVars
<1>2. s \in Session /\ c \in PaneIds /\ p \in PaneIds
  BY <1>1, TypedNow DEF Inv, DaemonOK, Panes, SessionIds, PaneIds
<1>3. op \in Ops /\ op' = [op EXCEPT !.pane = p, !.pc = "lease"]
  BY TypedNow DEF Inv, SweepAdopts
<1>4. OpIs(op.kind, op.s, "lease", p, op.victim, op.native, op.grave, op.resumed, op.todo, op.again)
  BY <1>3 DEF Ops, OpIs
<1>5. op' \in Ops
  BY <1>4, OpTypes DEF Inv, OpIs, Ops, OpStep, PaneIds
<1>6. sessions \in [Session -> Entries] /\ e \in Entries
  BY <1>2, TypedNow DEF Inv
<1>7. Installs(s, p)
  <2>1. CASE e = Absent
    <3>1. sessions' = [sessions EXCEPT ![s] = Recovered(p)]
      BY <2>1 DEF SweepAdopts
    <3>2. ~sessions[s].turn
      BY <2>1 DEF Absent
    <3>3. /\ Recovered(p) \in Entries /\ Recovered(p).st = "known" /\ Recovered(p).pane = p
          /\ Recovered(p).grave = None /\ ~Recovered(p).turn
      BY RecoveredIs DEF Inv
    <3> HIDE DEF s, e
    <3>4. sessions'[s] = Recovered(p) /\ sessions'[s].turn = sessions[s].turn
      BY <1>2, <1>6, <3>1, <3>2, <3>3 DEF Entries
    <3> QED BY <1>2, <1>6, <3>1, <3>3, <3>4 DEF Installs, OnlySession
  <2>2. CASE e # Absent
    <3>1. sessions' = [sessions EXCEPT ![s] = [e EXCEPT !.pane = p, !.grave = None, !.native = c]]
      BY <2>2 DEF SweepAdopts
    <3>2. e.st = "known"
      BY <1>2, <1>6, <2>2 DEF Inv, Blank, Has, Entries
    <3> DEFINE r == [e EXCEPT !.pane = p, !.grave = None, !.native = c]
    <3>3. r \in Entries /\ r.st = e.st /\ r.pane = p /\ r.grave = None /\ r.turn = e.turn
      <4>1. e \in Entries /\ p \in PaneIds /\ c \in PaneIds
        BY <1>2, <1>6
      <4> HIDE DEF e, c
      <4> QED BY <4>1 DEF Entries, PaneIds
    <3>4. e = sessions[s] /\ sessions' = [sessions EXCEPT ![s] = r]
      BY <3>1
    <3> HIDE DEF s, e, r
    <3> QED BY <1>2, <1>6, <3>2, <3>3, <3>4 DEF Installs, OnlySession
  <2> QED BY <2>1, <2>2
<1>8. TypeOK'
  BY <1>1, <1>5, <1>7, TypedNow, TypedNext, SameTyped
     DEF Inv, SameTurns, SameModes, Installs, OnlySession
<1> QED BY <1>1, <1>2, <1>4, <1>7, <1>8

LEMMA LeaseAdoptedDoes ==
  ASSUME Inv, LeaseAdopted
  PROVE  /\ op.pc = "lease"
         /\ \/ Answered
            \/ OpIs(op.kind, op.s, "adopt", None, op.victim, op.native, op.grave, op.resumed,
                    op.todo \ {op.pane}, op.again)
         /\ SameDaemon /\ sessions' = sessions /\ SameTurns /\ SameModes /\ TypeOK'
<1>1. /\ op.pc = "lease" /\ sessions' = sessions /\ SameTurns /\ SameModes /\ maint' = maint
      /\ SameDaemon
  BY DEF LeaseAdopted, SameTurns, turnVars, SameModes, ghostVars, SameDaemon, daemonVars
<1>2. op' \in Ops /\ \/ Answered
                     \/ OpIs(op.kind, op.s, "adopt", None, op.victim, op.native, op.grave,
                             op.resumed, op.todo \ {op.pane}, op.again)
  <2>1. CASE Up(op.pane)
    <3>1. op \in Ops /\ op' = [op EXCEPT !.todo = @ \ {op.pane}, !.pane = None, !.pc = "adopt"]
      BY <2>1, TypedNow DEF Inv, LeaseAdopted
    <3>2. OpIs(op.kind, op.s, "adopt", None, op.victim, op.native, op.grave, op.resumed,
               op.todo \ {op.pane}, op.again)
      BY <3>1 DEF Ops, OpIs
    <3>3. op' \in Ops
      BY <3>2, OpTypes DEF Inv, OpIs, Ops, OpStep, PaneIds
    <3> QED BY <3>2, <3>3
  <2>2. CASE ~Up(op.pane)
    BY <2>2, AnswerDoes, TypedNow DEF Inv, LeaseAdopted
  <2> QED BY <2>1, <2>2
<1>3. TypeOK'
  BY <1>1, <1>2, TypedNow, TypedNext, SameTyped DEF Inv, SameTurns, SameModes
<1> QED BY <1>1, <1>2, <1>3

\* The victim is known.
LEMMA ChoosesSomeone ==
  ASSUME Inv, NEW victims \in SUBSET Inactive, Evict(victims)
  PROVE  op' \in Ops /\ (Answered \/ \E v \in Session : Has(v) /\ Chooses(v))
<1>1. victims \in SUBSET Session
  BY DEF Inactive, Resident
<1>2. op' \in Ops /\ (Answered \/ \E v \in victims : Chooses(v))
  BY <1>1, EvictDoes DEF Inv
<1>3. \A v \in victims : v \in Session /\ Has(v)
  BY DEF Inactive, Resident, Inv, Blank, Absent
<1> QED BY <1>2, <1>3

LEMMA TrimDoes ==
  ASSUME Inv, Trim
  PROVE  /\ Trimming
         /\ \/ mode' = mode /\ (Answered \/ \E v \in Session : Has(v) /\ Chooses(v))
            \/ mode' = "serving" /\ OpIs("none", None, "idle", None, None, None, None, FALSE, {}, FALSE)
         /\ SameDaemon /\ sessions' = sessions /\ SameTurns /\ deleted' = deleted
         /\ strayed' = strayed /\ TypeOK'
<1>1. /\ Trimming /\ SameDaemon /\ sessions' = sessions /\ SameTurns /\ deleted' = deleted
      /\ strayed' = strayed /\ maint' = maint
  BY DEF Trim, SameDaemon, daemonVars, SameTurns, turnVars, ghostVars
<1>2. CASE Evict(Inactive) /\ UNCHANGED mode
  <2>1. op' \in Ops /\ (Answered \/ \E v \in Session : Has(v) /\ Chooses(v))
    BY <1>2, ChoosesSomeone
  <2>2. TypeOK'
    BY <1>1, <1>2, <2>1, TypedNow, TypedNext, SameTyped DEF Inv, SameTurns
  <2> QED BY <1>1, <1>2, <2>1, <2>2
<1>3. CASE op' = Idle /\ mode' = "serving"
  <2>1. OpIs("none", None, "idle", None, None, None, None, FALSE, {}, FALSE) /\ op' \in Ops
    BY <1>3 DEF OpIs, Idle, Ops, OpKind, OpStep, PaneIds, SessionIds
  <2>2. TypeOK'
    BY <1>1, <1>3, <2>1, TypedNow, TypedNext, SameTyped DEF Inv, SameTurns
  <2> QED BY <1>1, <1>3, <2>1, <2>2
<1> QED BY <1>2, <1>3 DEF Trim

LEMMA IdleTimeoutDoes ==
  ASSUME Inv, IdleTimeout
  PROVE  /\ Trimming /\ (Answered \/ \E v \in Session : Has(v) /\ Chooses(v))
         /\ SameDaemon /\ sessions' = sessions /\ SameTurns /\ SameModes /\ TypeOK'
<1>1. /\ Trimming /\ SameDaemon /\ sessions' = sessions /\ SameTurns /\ SameModes /\ maint' = maint
  BY DEF IdleTimeout, SameDaemon, daemonVars, SameTurns, turnVars, SameModes, ghostVars
<1>2. op' \in Ops /\ (Answered \/ \E v \in Session : Has(v) /\ Chooses(v))
  BY ChoosesSomeone DEF IdleTimeout
<1>3. TypeOK'
  BY <1>1, <1>2, TypedNow, TypedNext, SameTyped DEF Inv, SameTurns, SameModes
<1> QED BY <1>1, <1>2, <1>3

\* The adapter ends: another one begins to recover its sessions.
Ends ==
  /\ \A s \in Session : sessions'[s] = Absent /\ turns'[s] = NoTurn /\ stale'[s] = NoStale
  /\ OpIs("recover", None, "rebuild", None, None, None, None, FALSE, {}, FALSE)
  /\ mode' = "recovering" /\ deleted' = deleted /\ strayed' = strayed

LEMMA RestartIs ==
  [kind |-> "recover", s |-> None, pc |-> "rebuild", pane |-> None, victim |-> None,
   native |-> None, grave |-> None, resumed |-> FALSE, todo |-> {}, again |-> FALSE] \in Ops
BY DEF Ops, OpKind, OpStep, PaneIds, SessionIds

LEMMA EndsTyped ==
  ASSUME sessions' = [s \in Session |-> Absent], turns' = [s \in Session |-> NoTurn],
         stale' = [s \in Session |-> NoStale],
         op' = [Idle EXCEPT !.kind = "recover", !.pc = "rebuild"],
         mode' = "recovering", maint' = TRUE, deleted' = deleted, strayed' = strayed,
         TypeOK, DaemonOK'
  PROVE  Ends /\ TypeOK'
<1>1. OpIs("recover", None, "rebuild", None, None, None, None, FALSE, {}, FALSE)
  BY DEF OpIs, Idle
<1>2. op' \in Ops
  BY <1>1, RestartIs DEF OpIs
<1>3. Absent \in Entries /\ NoTurn \in Turns /\ NoStale \in Stales
  BY DEF Absent, Entries, NoTurn, Turns, NoStale, Stales, PaneIds
<1>4. TypeOK'
  BY <1>2, <1>3, TypedNow, TypedNext
<1> QED BY <1>1, <1>4 DEF Ends

LEMMA CrashDoes ==
  ASSUME Inv, Crash
  PROVE  Ends /\ SameDaemon /\ TypeOK'
<1>1. SameDaemon /\ deleted' = deleted /\ strayed' = strayed
  BY DEF Crash, SameDaemon, daemonVars, ghostVars
<1>2. DaemonOK'
  BY <1>1, TypedNow, SameTyped DEF Inv
<1> QED BY <1>1, <1>2, EndsTyped DEF Crash, Inv

\* The panes that a shutdown closes, in some order.
LEMMA SetToSeqIs ==
  ASSUME NEW S \in SUBSET Pane
  PROVE  SetToSeq(S) \in Seq(S)
<1>1. IsFiniteSet(S)
  BY Constants, FS_Subset
<1> DEFINE n == Cardinality(S)
<1>2. n \in Nat /\ \E f : ExistsBijection(1..n, S)
  BY <1>1, FS_CardinalityType
<1> HIDE DEF n
<1>3. PICK f : f \in Bijection(1..n, S)
  BY <1>2 DEF ExistsBijection
<1>4. f \in [1..n -> S] /\ IsInjective(f)
  BY <1>3 DEF Bijection, Injection, IsInjective
<1>5. SetToSeq(S) \in [1..n -> S]
  BY <1>4 DEF SetToSeq, n
<1> QED BY <1>2, <1>5

\* The panes in closed are killed, one after another.
Closes(closed) ==
  /\ panes' \in [Pane -> Panes]
  /\ \A p \in Pane : /\ panes'[p].tags = panes[p].tags /\ panes'[p].session = panes[p].session
                     /\ p \notin closed => panes'[p] = panes[p]
                     /\ p \in closed => panes'[p].st = "gone" /\ Up(p)
  /\ \E t \in Seq(closed) : graves' = graves \o t

LEMMA ShutdownClosesDoes ==
  ASSUME Inv, ShutdownCloses
  PROVE  \E closed \in SUBSET Pane : Closes(closed) /\ Ends /\ TypeOK'
<1> DEFINE closed == {p \in Residents : Up(p)}
           t == SetToSeq(closed)
<1>1. closed \in SUBSET Pane
  BY TypedNow DEF Inv, Residents, Resident, Entries, PaneIds
<1>2. t \in Seq(closed)
  BY <1>1, SetToSeqIs
<1>3. /\ panes' = [p \in Pane |-> IF p \in closed THEN [panes[p] EXCEPT !.st = "gone"] ELSE panes[p]]
      /\ graves' = graves \o t
  BY DEF ShutdownCloses
<1>4. \A p \in closed : Up(p)
  OBVIOUS
<1> HIDE DEF t, closed
<1>5. /\ panes' \in [Pane -> Panes]
      /\ \A p \in Pane : /\ panes'[p].tags = panes[p].tags /\ panes'[p].session = panes[p].session
                         /\ p \notin closed => panes'[p] = panes[p]
                         /\ p \in closed => panes'[p].st = "gone"
  BY <1>3, TypedNow DEF Inv, DaemonOK, Panes
<1>6. Closes(closed)
  BY <1>2, <1>3, <1>4, <1>5 DEF Closes
<1>7. DaemonOK'
  <2>1. graves \in Seq(PaneIds) /\ t \in Seq(PaneIds)
    BY <1>1, <1>2, TypedNow DEF Inv, DaemonOK, PaneIds
  <2>2. graves' \in Seq(PaneIds)
    BY <1>3, <2>1
  <2>3. Range(graves') \subseteq Range(graves) \cup closed
    BY <1>2, <1>3, <2>1 DEF Range
  <2>4. \A g \in Range(graves) \ {None} : g \in Pane /\ panes[g].st = "gone"
    BY TypedNow DEF Inv, DaemonOK, Range, PaneIds
  <2>5. \A g \in Range(graves') \ {None} : panes'[g].st = "gone"
    BY <1>1, <1>5, <2>3, <2>4
  <2> QED BY <1>5, <2>2, <2>5 DEF DaemonOK
<1>8. Ends /\ TypeOK'
  BY <1>7, EndsTyped DEF ShutdownCloses, Inv, ghostVars
<1> QED BY <1>1, <1>6, <1>8

LEMMA ClearIncompleteDoes ==
  ASSUME Inv, NEW p \in Pane, ClearIncomplete(p)
  PROVE  /\ op.pc = "clear" /\ p \in op.todo
         /\ OpIs(op.kind, op.s, op.pc, op.pane, op.victim, op.native, op.grave, op.resumed,
                 op.todo \ {p}, op.again)
         /\ \/ SameDaemon /\ ~Up(p)
            \/ /\ Up(p) /\ OnlyPane(p) /\ panes'[p].st = "gone" /\ graves' = Append(graves, p)
               /\ \/ "deleted" \in panes[p].tags /\ panes'[p].tags = panes[p].tags
                     /\ panes'[p].session = panes[p].session
                  \/ panes'[p].session = None
         /\ sessions' = sessions /\ SameTurns /\ SameModes /\ TypeOK'
<1>1. /\ op.pc = "clear" /\ p \in op.todo /\ sessions' = sessions /\ SameTurns /\ SameModes
      /\ maint' = maint
  BY DEF ClearIncomplete, SameTurns, turnVars, SameModes, ghostVars
<1>2. /\ op' \in Ops
      /\ OpIs(op.kind, op.s, op.pc, op.pane, op.victim, op.native, op.grave, op.resumed,
              op.todo \ {p}, op.again)
  BY DoneDoes DEF Inv, ClearIncomplete
<1>3. CASE ~Up(p)
  <2>1. panes' = panes /\ graves' = graves
    BY <1>3, TypedNow DEF ClearIncomplete, Inv, DaemonOK
  <2>2. TypeOK'
    BY <1>1, <1>2, <2>1, TypedNow, TypedNext, SameTyped
       DEF Inv, SameTurns, SameModes, SameDaemon
  <2> QED BY <1>1, <1>2, <1>3, <2>1, <2>2 DEF SameDaemon
<1>4. CASE Up(p)
  <2> DEFINE t == IF "deleted" \in panes[p].tags THEN panes[p].tags
                  ELSE panes[p].tags \ {"acp", "resumable"}
             c == IF "deleted" \in panes[p].tags THEN panes[p].session ELSE None
  <2>1. graves' = Append(graves, p)
    BY <1>4 DEF ClearIncomplete
  <2>2. panes[p] \in Panes /\ panes \in [Pane -> Panes] /\ graves \in Seq(PaneIds)
    BY TypedNow DEF Inv, DaemonOK
  <2>3. t \in SUBSET {"acp", "resumable", "deleted"} /\ c \in SessionIds
    BY <2>2 DEF Panes, SessionIds
  <2>4. panes' = [panes EXCEPT ![p].st = "gone", ![p].tags = t, ![p].session = c]
    <3>1. panes' = [panes EXCEPT ![p].st = "gone",
                      ![p].tags = IF "deleted" \in @ THEN @ ELSE @ \ {"acp", "resumable"},
                      ![p].session = IF "deleted" \in panes[p].tags THEN @ ELSE None]
      BY <1>4 DEF ClearIncomplete
    <3> QED BY <2>2, <3>1 DEF Panes
  <2>5. ("deleted" \in panes[p].tags /\ t = panes[p].tags /\ c = panes[p].session) \/ c = None
    OBVIOUS
  <2> HIDE DEF t, c
  <2>6. OnlyPane(p) /\ panes'[p].st = "gone" /\ panes'[p].tags = t /\ panes'[p].session = c
    BY <2>2, <2>3, <2>4 DEF OnlyPane, Panes
  <2>8. graves' \in Seq(PaneIds) /\ Range(graves') = Range(graves) \cup {p}
    BY <2>1, <2>2 DEF PaneIds, Range
  <2>9. \A g \in Range(graves) \ {None} : g \in Pane /\ panes[g].st = "gone"
    BY TypedNow DEF Inv, DaemonOK, Range, PaneIds
  <2>10. DaemonOK'
    BY <2>6, <2>8, <2>9 DEF DaemonOK, OnlyPane
  <2>11. TypeOK'
    BY <1>1, <1>2, <2>10, TypedNow, TypedNext DEF Inv, SameTurns, SameModes
  <2> QED BY <1>1, <1>2, <1>4, <2>1, <2>5, <2>6, <2>11
<1> QED BY <1>3, <1>4

\* Pane p, of no session, is given the new id of one.
Names(p) ==
  /\ panes[p].session = None /\ panes'[p].session \in FreshIds
  /\ panes'[p].st = panes[p].st /\ panes'[p].tags = panes[p].tags \cup {"resumable"}

\* The panes in whole are adopted, and other sessions come from graves.
Adopts(whole) ==
  /\ panes' \in [Pane -> Panes] /\ graves' = graves
  /\ \A p \in Pane : panes'[p] = panes[p] \/ (p \in whole /\ Names(p))
  /\ \A p \in whole : panes'[p].session \in Session
                      /\ sessions'[panes'[p].session].st = "known"
  /\ \A s \in Session :
       \/ sessions'[s] = FromGrave(s)
       \/ \E p \in whole : sessions'[s] = Recovered(p) /\ panes'[p].session = s

\* What a session is rebuilt from a grave as.
LEMMA FromGraveIs ==
  ASSUME TypeOK, NEW s \in Session
  PROVE  /\ FromGrave(s) \in Entries /\ FromGrave(s).pane = None
         /\ FromGrave(s) = Absent \/ /\ FromGrave(s).st = "known"
                                     /\ Latest(s, FromGrave(s).grave)
                                     /\ "deleted" \notin panes[FromGrave(s).grave].tags
         /\ \A g : /\ Latest(s, g) /\ "deleted" \notin panes[g].tags /\ Whole(g)
                   => FromGrave(s).st = "known"
<1> DEFINE g == LatestGrave(s)
           new == [Absent EXCEPT !.st = "known", !.grave = g, !.native = panes[g].convo,
                                 !.delivered = TRUE]
           there == GravesOf(s) # {} /\ "deleted" \notin panes[g].tags /\ Whole(g)
<1>1. FromGrave(s) = IF there THEN new ELSE Absent
  BY DEF FromGrave
<1>2. Absent \in Entries /\ Absent.pane = None
  BY DEF Absent, Entries, PaneIds
<1>3. GravesOf(s) # {} => Latest(s, g) /\ g \in Pane
  BY LatestIs
<1>4. ASSUME there PROVE new \in Entries /\ new.pane = None /\ new.st = "known" /\ new.grave = g
  <2>1. g \in PaneIds /\ panes[g].convo \in PaneIds
    BY <1>3, <1>4, TypedNow DEF PaneIds, DaemonOK, Panes
  <2> HIDE DEF g
  <2> QED BY <2>1 DEF Absent, Entries, PaneIds
<1>5. ASSUME NEW h, Latest(s, h), "deleted" \notin panes[h].tags, Whole(h) PROVE there
  <2>1. h = g /\ GravesOf(s) # {}
    BY <1>5, LatestIs DEF Latest
  <2> QED BY <1>5, <2>1
<1>6. there => Latest(s, g) /\ "deleted" \notin panes[g].tags
  BY <1>3
<1> HIDE DEF there, new, g
<1> QED BY <1>1, <1>2, <1>4, <1>5, <1>6

LEMMA RebuildDoes ==
  ASSUME Inv, Rebuild
  PROVE  \E whole \in SUBSET InScope :
           /\ op.pc = "rebuild" /\ Adopts(whole)
           /\ \A p \in InScope : p \in whole <=> Complete(p)
           /\ OpIs(op.kind, op.s, "clear", op.pane, op.victim, op.native, op.grave, op.resumed,
                   InScope \ whole, op.again)
           /\ SameTurns /\ SameModes /\ TypeOK'
<1> DEFINE whole == {p \in InScope : Complete(p)}
           legacy == {p \in whole : panes[p].session = None}
           todo == InScope \ whole
<1>1. /\ op.pc = "rebuild" /\ graves' = graves /\ SameTurns /\ SameModes /\ maint' = maint
  BY DEF Rebuild, SameTurns, turnVars, SameModes, ghostVars
<1>2. PICK id \in [legacy -> FreshIds] :
        LET idOf(p) == IF p \in legacy THEN id[p] ELSE panes[p].session
        IN /\ \E chosen \in [{idOf(p) : p \in whole} -> whole] :
                /\ \A s \in DOMAIN chosen : idOf(chosen[s]) = s
                /\ sessions' = [s \in Session |->
                     IF s \in DOMAIN chosen THEN Recovered(chosen[s]) ELSE FromGrave(s)]
           /\ panes' = [p \in Pane |-> IF p \in legacy
                          THEN [panes[p] EXCEPT !.session = id[p], !.tags = @ \cup {"resumable"}]
                          ELSE panes[p]]
           /\ op' = [op EXCEPT !.pc = "clear", !.todo = todo]
  BY Zenon DEF Rebuild
<1> DEFINE idOf(p) == IF p \in legacy THEN id[p] ELSE panes[p].session
<1>3. PICK chosen \in [{idOf(p) : p \in whole} -> whole] :
        /\ \A s \in DOMAIN chosen : idOf(chosen[s]) = s
        /\ sessions' = [s \in Session |->
             IF s \in DOMAIN chosen THEN Recovered(chosen[s]) ELSE FromGrave(s)]
  BY <1>2, Zenon
<1>4. whole \in SUBSET InScope /\ InScope \in SUBSET Pane /\ legacy \in SUBSET whole
      /\ \A p \in InScope : p \in whole <=> Complete(p)
  BY DEF InScope
<1>5. todo \in SUBSET Pane
  BY <1>4
<1>6. \A p \in legacy : panes[p].session = None
  OBVIOUS
<1>7. \A p \in whole : panes[p].session = None => p \in legacy
  OBVIOUS
<1> HIDE DEF whole, legacy, todo
<1>8. panes \in [Pane -> Panes] /\ FreshIds \in SUBSET Session
  BY TypedNow DEF Inv, DaemonOK, FreshIds
<1>9. panes' = [p \in Pane |-> IF p \in legacy
                  THEN [panes[p] EXCEPT !.session = id[p], !.tags = @ \cup {"resumable"}]
                  ELSE panes[p]]
      /\ op' = [op EXCEPT !.pc = "clear", !.todo = todo]
  BY <1>2
<1>10. ASSUME NEW p \in legacy
       PROVE  /\ panes'[p] \in Panes /\ panes'[p].session = id[p] /\ id[p] \in FreshIds
              /\ panes'[p].st = panes[p].st /\ panes'[p].bound = panes[p].bound
              /\ panes'[p].tags = panes[p].tags \cup {"resumable"}
  <2> DEFINE i == id[p]
  <2>1. p \in Pane /\ i \in FreshIds /\ i \in SessionIds /\ panes[p] \in Panes
    BY <1>4, <1>8 DEF SessionIds
  <2>2. panes'[p] = [panes[p] EXCEPT !.session = i, !.tags = @ \cup {"resumable"}]
    BY <1>9, <2>1
  <2>3. /\ panes'[p] \in Panes /\ panes'[p].session = i
        /\ panes'[p].st = panes[p].st /\ panes'[p].bound = panes[p].bound
        /\ panes'[p].tags = panes[p].tags \cup {"resumable"}
    <3> HIDE DEF i
    <3> QED BY <2>1, <2>2 DEF Panes
  <2> QED BY <2>1, <2>3
<1>11. \A p \in Pane : p \notin legacy => panes'[p] = panes[p]
  BY <1>9
<1>12. panes' \in [Pane -> Panes]
  BY <1>8, <1>9, <1>10, <1>11
<1>13. \A p \in Pane : idOf(p) = panes'[p].session
  BY <1>10, <1>11
<1>14. \A p \in Pane : panes'[p] = panes[p] \/ (p \in whole /\ Names(p))
  BY <1>4, <1>6, <1>10, <1>11 DEF Names
<1>15. \A p \in whole : panes'[p].session \in Session
  BY <1>4, <1>7, <1>8, <1>10, <1>11 DEF Panes, SessionIds
<1>16. ASSUME NEW s \in Session
       PROVE  /\ sessions'[s] \in Entries
              /\ \/ sessions'[s] = FromGrave(s)
                 \/ \E p \in whole : sessions'[s] = Recovered(p) /\ panes'[p].session = s
  <2>1. CASE s \in DOMAIN chosen
    <3>1. chosen[s] \in whole /\ idOf(chosen[s]) = s /\ sessions'[s] = Recovered(chosen[s])
      BY <1>3, <2>1
    <3>2. panes'[chosen[s]].session = s /\ chosen[s] \in Pane
      BY <1>4, <1>13, <3>1
    <3> QED BY <3>1, <3>2, RecoveredIs DEF Inv
  <2>2. CASE s \notin DOMAIN chosen
    BY <1>3, <2>2, FromGraveIs DEF Inv
  <2> QED BY <2>1, <2>2
<1>17. ASSUME NEW p \in whole
       PROVE  sessions'[panes'[p].session].st = "known"
  <2>1. idOf(p) \in DOMAIN chosen /\ idOf(p) = panes'[p].session
    BY <1>3, <1>4, <1>13
  <2> HIDE DEF idOf
  <2>2. sessions'[panes'[p].session] = Recovered(chosen[idOf(p)]) /\ chosen[idOf(p)] \in Pane
    BY <1>3, <1>4, <1>15, <2>1
  <2> QED BY <2>2, RecoveredIs DEF Inv
<1>18. sessions' \in [Session -> Entries]
  BY <1>3, <1>16
<1>19. Adopts(whole)
  BY <1>1, <1>12, <1>14, <1>15, <1>16, <1>17 DEF Adopts
<1>20. op \in Ops
  BY TypedNow DEF Inv
<1>21. OpIs(op.kind, op.s, "clear", op.pane, op.victim, op.native, op.grave, op.resumed, todo,
            op.again)
  BY <1>9, <1>20 DEF Ops, OpIs
<1>22. op' \in Ops
  BY <1>5, <1>21, OpTypes DEF Inv, OpIs, Ops, OpStep
<1>23. DaemonOK'
  <2>1. \A g \in Range(graves) \ {None} : g \in Pane /\ panes[g].st = "gone"
    BY TypedNow DEF Inv, DaemonOK, Range, PaneIds
  <2>2. \A g \in Range(graves) \ {None} : panes'[g].st = "gone"
    BY <1>10, <1>11, <2>1
  <2> QED BY <1>1, <1>12, <2>2, TypedNow DEF Inv, DaemonOK
<1>24. TypeOK'
  BY <1>1, <1>18, <1>22, <1>23, TypedNow, TypedNext DEF Inv, SameTurns, SameModes
<1> QED BY <1>1, <1>4, <1>19, <1>21, <1>24 DEF todo

-----------------------------------------------------------------------------
(* How a step may change panes, graves and sessions so that what is said   *)
(* of each of them still holds.                                            *)

Settled == deleted \ strayed
Tagged(p) == {"acp", "resumable"} \subseteq panes[p].tags /\ panes[p].session # None

\* A dead pane stays as it is, and none becomes new again.
Firm == \A p \in Pane : /\ Gone(p) => panes'[p] = panes[p]
                        /\ panes'[p].st = "new" => panes'[p] = panes[p]

\* A pane starts as one of no session, or of one that is known.
Begins(p) ==
  /\ panes'[p].st = "up"
  /\ panes'[p].session = None \/ (panes'[p].session \in Session /\ Has(panes'[p].session))

\* A pane keeps its session and its tags, or was of nobody.
Stays(p) ==
  /\ panes'[p].session = panes[p].session /\ panes[p].tags \ {"resumable"} \subseteq panes'[p].tags
  /\ Tagged(p)' => Tagged(p) \/ Has(panes[p].session)
Changes(p) ==
  /\ Homeless(p) /\ panes'[p].session \notin Settled
  /\ Tagged(p)' => Has(panes'[p].session) \/ At({"rebuild"})

\* The latest grave of a session that is not known was it before, or is dug now.
Digs == \A s \in Session : \A g :
  Latest(s, g)' => \/ Latest(s, g) \/ Has(s)
                   \/ g \in Pane /\ Up(g) /\ panes'[g].st = "gone" /\ panes'[g].session = s

TidyPanes ==
  /\ Firm /\ Digs
  /\ \A p \in Pane : IF panes[p].st = "new" THEN panes'[p].st = "new" \/ Begins(p)
                     ELSE Stays(p) \/ Changes(p)

Lodges(s, p) == /\ p \in Pane /\ panes'[p].session = s /\ "acp" \in panes'[p].tags
                /\ panes'[p].st # "new"

TidyHomes == \A s \in Session :
  /\ Has(s)' \/ sessions'[s] = Absent
  /\ Has(s)' => Has(s) \/ s \notin Settled
  /\ sessions'[s].pane \in {sessions[s].pane, None} \/ Lodges(s, sessions'[s].pane)
  /\ sessions'[s].grave \in {sessions[s].grave, None} \/ Latest(s, sessions'[s].grave)

KeepsHomes == \A s \in Session : Has(s) => Has(s)'

TidyPast ==
  /\ \A s \in Session : Has(s) => Covered(s)'
  /\ op.kind = "recover" =>
       \A p \in op.todo : Up(p)' => op'.kind = "recover" /\ p \in op'.todo

\* After a tidy step panes and sessions are as Blank, Owned and Deleted say.
LEMMA TidyGives ==
  ASSUME Inv, TypeOK', TidyPanes, TidyHomes
  PROVE  Blank' /\ \A s \in Session : Owned(s)' /\ (s \in Settled => Deleted(s)')
<1>1. TypeOK /\ Blank /\ \A s \in Session : Owned(s) /\ Deleted(s)
  BY DEF Inv
<1>2. panes \in [Pane -> Panes] /\ panes' \in [Pane -> Panes]
      /\ sessions \in [Session -> Entries] /\ sessions' \in [Session -> Entries]
  BY <1>1 DEF TypeOK
<1>3. Firm
  BY DEF TidyPanes
<1>4. Blank'
  <2>1. \A s \in Session : ~Has(s)' => sessions'[s] = Absent
    BY DEF TidyHomes
  <2>2. \A p \in Pane : panes'[p].st = "new" => panes'[p] = NoPane
    BY <1>1, <1>3 DEF Blank, Firm
  <2> QED BY <2>1, <2>2 DEF Blank, Has
<1>5. ASSUME NEW s \in Session
      PROVE  Owned(s)'
  <2>1. ASSUME NEW p \in Pane, sessions'[s].pane = p
        PROVE  panes'[p].session = s /\ "acp" \in panes'[p].tags /\ panes'[p].st # "new"
    <3>1. CASE Lodges(s, p)
      BY <3>1 DEF Lodges
    <3>2. CASE sessions[s].pane = p
      <4>1. panes[p].session = s /\ "acp" \in panes[p].tags /\ panes[p].st # "new"
        BY <1>1, <3>2, Constants DEF Owned
      <4>2. ~Changes(p)
        BY <3>2 DEF Changes, Homeless
      <4>3. Stays(p)
        BY <4>1, <4>2 DEF TidyPanes
      <4>4. panes'[p].st # "new"
        BY <1>3, <4>1 DEF Firm
      <4> QED BY <4>1, <4>3, <4>4 DEF Stays
    <3>3. p # None
      BY Constants
    <3>4. Lodges(s, p) \/ sessions[s].pane = p
      <4> HIDE DEF Lodges
      <4> QED BY <2>1, <3>3 DEF TidyHomes
    <3> QED BY <3>1, <3>2, <3>4
  <2>2. ASSUME NEW g \in Pane, sessions'[s].grave = g
        PROVE  panes'[g].st = "gone" /\ panes'[g].session = s
    <3>1. g # None
      BY Constants
    <3>2. sessions[s].grave = g \/ Latest(s, g)
      BY <2>2, <3>1 DEF TidyHomes
    <3>3. Gone(g) /\ panes[g].session = s
      BY <1>1, <3>1, <3>2, LatestIs DEF Owned
    <3> QED BY <1>3, <3>3 DEF Firm, Gone
  <2>3. sessions'[s].pane \in PaneIds /\ sessions'[s].grave \in PaneIds
    BY <1>2 DEF Entries
  <2>4. sessions'[s].pane # None =>
          /\ panes'[sessions'[s].pane].session = s
          /\ "acp" \in panes'[sessions'[s].pane].tags
          /\ panes'[sessions'[s].pane].st # "new"
    BY <2>1, <2>3 DEF PaneIds
  <2>5. sessions'[s].grave # None =>
          panes'[sessions'[s].grave].st = "gone" /\ panes'[sessions'[s].grave].session = s
    BY <2>2, <2>3 DEF PaneIds
  <2> QED BY <2>4, <2>5 DEF Owned, Gone
<1>6. ASSUME NEW s \in Session, s \in Settled
      PROVE  Deleted(s)'
  <2>1. ~Has(s) /\ \A p \in Pane : Up(p) => panes[p].session # s
    BY <1>1, <1>6 DEF Settled, Deleted
  <2>2. \A g \in Pane : Latest(s, g) => "deleted" \in panes[g].tags
    BY <1>1, <1>6 DEF Settled, Deleted
  <2>3. ~Has(s)'
    BY <1>6, <2>1 DEF TidyHomes
  <2>4. ASSUME NEW p \in Pane, panes[p].st # "new", ~Gone(p) PROVE panes'[p].session # s
    <3>1. Up(p)
      BY <1>2, <2>4, Constants DEF Up, Gone, Panes
    <3>2. Stays(p) \/ Changes(p)
      BY <2>4 DEF TidyPanes
    <3> QED BY <1>6, <2>1, <3>1, <3>2 DEF Stays, Changes
  <2>5. ASSUME NEW p \in Pane, panes'[p].st = "up" PROVE panes'[p].session # s
    <3>1. CASE panes[p].st = "new"
      <4>1. Begins(p)
        BY <2>5, <3>1 DEF TidyPanes
      <4> QED BY <2>1, <4>1, Constants DEF Begins
    <3>2. CASE panes[p].st # "new"
      <4>1. ~Gone(p)
        BY <1>3, <2>5 DEF Firm, Gone
      <4> QED BY <2>4, <3>2, <4>1
    <3> QED BY <3>1, <3>2
  <2>6. ASSUME NEW g \in Pane, Latest(s, g)' PROVE "deleted" \in panes'[g].tags
    <3>1. Latest(s, g) \/ (Up(g) /\ panes'[g].session = s)
      BY <2>1, <2>6 DEF TidyPanes, Digs
    <3>2. ~(Up(g) /\ panes'[g].session = s)
      BY <2>4 DEF Up, Gone
    <3>3. Latest(s, g)
      BY <3>1, <3>2
    <3>4. Gone(g)
      BY <1>1, <3>3, LatestIs
    <3> QED BY <1>3, <2>2, <3>3, <3>4 DEF Firm
  <2>7. \A p \in Pane : Up(p)' => panes'[p].session # s
    BY <2>5 DEF Up
  <2> QED BY <2>3, <2>6, <2>7 DEF Deleted
<1> QED BY <1>4, <1>5, <1>6

\* And what can be brought back is still known.
LEMMA TidyKeeps ==
  ASSUME Inv, TypeOK', TidyPanes, TidyPast, ~At({"rebuild"}), NEW p \in Pane
  PROVE  Kept(p)'
<1>1. TypeOK /\ Firm /\ Kept(p)
  BY DEF Inv, TidyPanes
<1>2. panes'[p] \in Panes /\ panes[p] \in Panes
  BY <1>1 DEF TypeOK
<1>3. \A s \in Session : Entombed(s) => Entombed(s)'
  BY <1>1 DEF Entombed, Firm, Gone
<1>4. \A s \in Session : Covered(s) => Covered(s)'
  BY <1>3 DEF TidyPast, Covered
<1>5. ASSUME Tagged(p)', NEW s \in Session, s = panes'[p].session
      PROVE  /\ Up(p)' => \/ Covered(s)'
                          \/ op'.kind = "recover" /\ "deleted" \in panes'[p].tags /\ p \in op'.todo
             /\ panes'[p].bound /\ Latest(s, p)' => Covered(s)'
  <2>1. CASE Has(s)
    BY <2>1 DEF TidyPast
  <2>2. CASE ~Has(s)
    <3>1. CASE panes[p].st = "new"
      <4>1. panes'[p].st # "new"
        BY <1>1, <1>5, <3>1, Constants DEF Inv, Blank, Firm, NoPane
      <4>2. Begins(p)
        BY <3>1, <4>1 DEF TidyPanes
      <4> QED BY <1>5, <2>2, <4>2, Constants DEF Begins
    <3>2. CASE panes[p].st # "new"
      <4>1. Stays(p) \/ Changes(p)
        BY <3>2 DEF TidyPanes
      <4>2. ~Changes(p)
        BY <1>5, <2>2 DEF Changes
      <4>3. panes[p].session = s /\ Tagged(p) /\ ("deleted" \in panes[p].tags => "deleted" \in panes'[p].tags)
        BY <1>5, <2>2, <4>1, <4>2 DEF Stays
      <4>4. Up(p) => \/ Covered(s)
                     \/ op.kind = "recover" /\ "deleted" \in panes[p].tags /\ p \in op.todo
        BY <1>1, <4>3 DEF Kept, Tagged
      <4>5. panes[p].bound /\ Latest(s, p) => Covered(s)
        BY <1>1, <4>3 DEF Kept, Tagged
      <4>6. Up(p)' => Up(p)
        <5>1. ~Gone(p) => Up(p)
          BY <1>2, <3>2, Constants DEF Gone, Up, Panes
        <5>2. Gone(p) => ~Up(p)'
          BY <1>1 DEF Firm, Gone, Up
        <5> QED BY <5>1, <5>2
      <4>7. ASSUME Up(p)'
            PROVE  \/ Covered(s)'
                   \/ op'.kind = "recover" /\ "deleted" \in panes'[p].tags /\ p \in op'.todo
        BY <1>4, <4>3, <4>4, <4>6, <4>7 DEF TidyPast
      <4>8. ASSUME panes'[p].bound, Latest(s, p)'
            PROVE  Covered(s)'
        <5>1. CASE Latest(s, p)
          <6>1. panes[p].bound
            BY <1>1, <4>8, <5>1, LatestIs DEF Firm
          <6> QED BY <1>4, <4>5, <5>1, <6>1
        <5>2. CASE Up(p) /\ panes'[p].st = "gone" /\ panes'[p].session = s
          <6>1. CASE Covered(s)
            BY <1>4, <6>1
          <6>2. CASE "deleted" \in panes[p].tags
            BY <4>3, <5>2, <6>2 DEF Covered, Entombed, Gone
          <6> QED BY <4>4, <5>2, <6>1, <6>2
        <5> QED BY <2>2, <4>8, <5>1, <5>2 DEF TidyPanes, Digs
      <4> QED BY <4>7, <4>8
    <3> QED BY <3>1, <3>2
  <2> QED BY <2>1, <2>2
<1>6. ASSUME Tagged(p)' PROVE panes'[p].session \in Session
  BY <1>2, <1>6 DEF Tagged, Panes, SessionIds
<1> QED BY <1>5, <1>6 DEF Kept, Tagged

\* Graves that are dug come after the others.
LEMMA AppendGrows ==
  ASSUME graves \in Seq(PaneIds), NEW N \in SUBSET Pane, Firm, DaemonOK,
         NEW t \in Seq(N), graves' = graves \o t,
         \A p \in N : Up(p) /\ panes'[p].st = "gone"
  PROVE  Digs
<1>1. N \in SUBSET PaneIds /\ t \in Seq(PaneIds)
  BY DEF PaneIds
<1>2. /\ Len(graves) \in Nat /\ Len(t) \in Nat
      /\ DOMAIN graves = 1..Len(graves) /\ DOMAIN graves' = 1..(Len(graves) + Len(t))
      /\ \A i \in 1..Len(graves) : graves'[i] = graves[i]
      /\ \A i \in DOMAIN graves' : i \notin DOMAIN graves => graves'[i] \in N
  BY <1>1
<1>3. \A i \in DOMAIN graves : graves[i] # None => /\ graves[i] \in Pane
                                                   /\ panes'[graves[i]] = panes[graves[i]]
  BY DEF DaemonOK, PaneIds, Range, Firm, Gone
<1>4. ASSUME NEW s \in Session, NEW g, Latest(s, g)'
      PROVE  Latest(s, g) \/ (g \in Pane /\ Up(g) /\ panes'[g].st = "gone" /\ panes'[g].session = s)
  <2>1. PICK i \in GravesOf(s)' : graves'[i] = g /\ \A j \in GravesOf(s)' : j <= i
    BY <1>4 DEF Latest
  <2>2. i \in DOMAIN graves' /\ panes'[g].session = s
    BY <2>1 DEF GravesOf
  <2>3. CASE i \in DOMAIN graves
    <3>1. GravesOf(s) \subseteq GravesOf(s)'
      BY <1>2, <1>3 DEF GravesOf
    <3>2. i \in GravesOf(s)
      BY <1>2, <1>3, <2>1, <2>3 DEF GravesOf
    <3>3. graves[i] = g
      BY <1>2, <2>1, <2>3
    <3> QED BY <2>1, <3>1, <3>2, <3>3 DEF Latest
  <2>4. CASE i \notin DOMAIN graves
    BY <1>2, <2>1, <2>2, <2>4
  <2> QED BY <2>3, <2>4
<1> QED BY <1>4 DEF Digs

\* No grave is dug.
LEMMA SameDigs ==
  ASSUME DaemonOK, Firm, graves' = graves
  PROVE  Digs
<1>1. graves \in Seq(PaneIds) /\ <<>> \in Seq({}) /\ {} \in SUBSET Pane
  BY DEF DaemonOK
<1>2. graves' = graves \o <<>>
  BY <1>1
<1> QED BY <1>1, <1>2, AppendGrows

\* One grave is dug.
LEMMA BuryDigs ==
  ASSUME DaemonOK, Firm, NEW p \in Pane, Up(p), panes'[p].st = "gone", graves' = Append(graves, p)
  PROVE  Digs
<1>1. graves \in Seq(PaneIds) /\ <<p>> \in Seq({p}) /\ {p} \in SUBSET Pane
  BY DEF DaemonOK
<1>2. graves' = graves \o <<p>>
  BY <1>1 DEF PaneIds
<1> HIDE DEF Firm
<1>3. \A q \in {p} : Up(q) /\ panes'[q].st = "gone"
  OBVIOUS
<1> QED BY <1>1, <1>2, <1>3, AppendGrows

\* A grave is emptied.
LEMMA ReviveDigs ==
  ASSUME DaemonOK, Firm, NEW g, NEW q, Revives(g, q), Has(panes[g].session)
  PROVE  Digs
<1>1. graves \in Seq(PaneIds) /\ DOMAIN graves' = DOMAIN graves
      /\ \A i \in DOMAIN graves : graves'[i] = IF graves[i] = g THEN None ELSE graves[i]
  BY DEF DaemonOK, Revives, ReplaceAll
<1>2. \A i \in DOMAIN graves : graves[i] # None => /\ graves[i] \in Pane
                                                   /\ panes'[graves[i]] = panes[graves[i]]
  BY DEF DaemonOK, PaneIds, Range, Firm, Gone
<1>3. ASSUME NEW s \in Session, NEW h, Latest(s, h)', ~Has(s)
      PROVE  Latest(s, h)
  <2>1. panes[g].session # s
    BY <1>3
  <2>2. GravesOf(s)' = GravesOf(s)
    BY <1>1, <1>2, <2>1 DEF GravesOf
  <2>3. \A i \in GravesOf(s) : graves'[i] = graves[i]
    BY <1>1, <2>1 DEF GravesOf
  <2>4. PICK i \in GravesOf(s) : graves'[i] = h /\ \A j \in GravesOf(s) : j <= i
    BY <1>3, <2>2 DEF Latest
  <2> QED BY <2>3, <2>4 DEF Latest
<1> QED BY <1>3 DEF Digs

\* Steps that leave the panes alone are tidy; so are the others, below.
LEMMA SamePanes == DaemonOK /\ SameDaemon => TidyPanes
<1> SUFFICES ASSUME DaemonOK, SameDaemon PROVE TidyPanes
  OBVIOUS
<1>1. Firm
  BY DEF SameDaemon, Firm
<1>2. Digs
  BY <1>1, SameDigs DEF SameDaemon
<1>3. \A p \in Pane : Stays(p)
  BY DEF SameDaemon, Stays, Tagged
<1> QED BY <1>1, <1>2, <1>3 DEF TidyPanes, SameDaemon

LEMMA KilledPanes ==
  ASSUME DaemonOK, NEW p, Killed(p)
  PROVE  TidyPanes
<1>1. p \in Pane
  BY DEF Killed
<1>2. CASE ~Up(p)
  BY <1>2, SamePanes DEF Killed
<1>3. CASE Up(p)
  <2>1. panes'[p].st = "gone" /\ graves' = Append(graves, p) /\ panes[p].st = "up"
    BY <1>3 DEF Killed, Up
  <2>2. Firm
    BY <2>1 DEF Killed, OnlyPane, Firm, Gone
  <2>3. Digs
    BY <1>1, <1>3, <2>1, <2>2, BuryDigs
  <2>4. \A q \in Pane : Stays(q)
    BY <1>1 DEF Killed, OnlyPane, Stays, Tagged
  <2>5. \A q \in Pane : panes[q].st = "new" => panes'[q].st = "new"
    BY <2>1 DEF Killed, OnlyPane
  <2> QED BY <2>2, <2>3, <2>4, <2>5 DEF TidyPanes
<1> QED BY <1>2, <1>3

LEMMA RevivedPanes ==
  ASSUME DaemonOK, NEW g, NEW q, Revives(g, q), panes[g].session \in Session,
         Has(panes[g].session)
  PROVE  TidyPanes
<1>1. Firm
  BY DEF Revives, OnlyPane, Firm, Gone
<1>2. Digs
  BY <1>1, ReviveDigs
<1>3. Begins(q)
  BY DEF Revives, Begins
<1>4. \A p \in Pane : p # q => Stays(p) /\ (panes[p].st = "new" => panes'[p].st = "new")
  BY DEF Revives, OnlyPane, Stays, Tagged
<1>5. panes[q].st = "new"
  BY DEF Revives
<1> QED BY <1>1, <1>2, <1>3, <1>4, <1>5 DEF TidyPanes

\* A pane that goes on is tagged.
LEMMA RetaggedPanes ==
  ASSUME DaemonOK, NEW p, Retags(p), Stays(p) \/ Changes(p)
  PROVE  TidyPanes
<1>1. panes[p].st = "up" /\ p \in Pane
  BY DEF Retags, Up
<1>2. Firm
  BY <1>1 DEF Retags, OnlyPane, Firm, Gone
<1>3. Digs
  BY <1>2, SameDigs DEF Retags
<1>4. \A q \in Pane : q # p => Stays(q) /\ (panes[q].st = "new" => panes'[q].st = "new")
  BY DEF Retags, OnlyPane, Stays, Tagged
<1> QED BY <1>1, <1>2, <1>3, <1>4 DEF TidyPanes

-----------------------------------------------------------------------------
(* Sessions and turns.                                                     *)

\* What is said of the turn of s does not change with its entry.
Undisturbed(s) ==
  /\ turns'[s].pc = turns[s].pc /\ turns'[s].pane = turns[s].pane /\ stale'[s] = stale[s]
  /\ /\ Active(s) /\ sessions[s].turn /\ Up(sessions[s].pane)
     /\ panes'[sessions[s].pane].st = "up"
     => sessions'[s].turn /\ sessions'[s].pane = sessions[s].pane

\* A turn that is not disturbed keeps its pane.
LEMMA TurnRemains ==
  ASSUME Inv, Firm, NEW s \in Session, Undisturbed(s), mode' \in {mode, "serving"}
  PROVE  Turning(s)'
<1>1. Turning(s) /\ TypeOK
  BY DEF Inv
<1>2. \A p \in Pane : /\ Gone(p) => panes'[p].st = "gone"
                      /\ panes[p].st # "new" => panes'[p].st # "new"
                      /\ panes'[p].st = "up" /\ panes[p].st # "new" => Up(p)
  <2>1. \A p \in Pane : panes[p].st \in {"new", "up", "gone"}
    BY <1>1 DEF TypeOK, Panes
  <2> QED BY <2>1, Constants DEF Firm, Gone, Up
<1>3. turns'[s].pc # "none" => turns'[s].pane \in Pane /\ panes'[turns'[s].pane].st # "new"
  BY <1>1, <1>2 DEF Undisturbed, Turning
<1>4. turns'[s].pc = "stale" => panes'[turns'[s].pane].st = "gone"
  BY <1>1, <1>2, <1>3 DEF Undisturbed, Turning
<1>5. Active(s)' /\ Up(turns[s].pane)' => sessions'[s].turn /\ sessions'[s].pane = turns'[s].pane
  <2> SUFFICES ASSUME Active(s)', panes'[turns'[s].pane].st = "up"
               PROVE  sessions'[s].turn /\ sessions'[s].pane = turns'[s].pane
    BY DEF Up
  <2>1. Active(s)
    BY DEF Active, Undisturbed
  <2>2. Up(turns[s].pane)
    BY <1>1, <1>2, <2>1 DEF Undisturbed, Turning, Active
  <2>3. sessions[s].turn /\ sessions[s].pane = turns[s].pane
    BY <1>1, <2>1, <2>2 DEF Turning
  <2> QED BY <2>1, <2>2, <2>3 DEF Undisturbed
<1>6. stale'[s].pc \in {"kill", "forget"} => stale'[s].pane \in Pane /\ panes'[stale'[s].pane].st = "gone"
  BY <1>1, <1>2 DEF Undisturbed, Turning
<1>7. mode' = "recovering" => turns'[s].pc = "none" /\ stale'[s].pc = "none"
  BY <1>1 DEF Undisturbed, Turning
<1> QED BY <1>3, <1>4, <1>5, <1>6, <1>7 DEF Turning, Gone, Active

LEMMA SameHomesTidy ==
  ASSUME Inv, SameHomes
  PROVE  TidyHomes /\ KeepsHomes
BY DEF Inv, Blank, SameHomes, TidyHomes, KeepsHomes, Has

LEMMA SameSessions ==
  ASSUME Inv, sessions' = sessions
  PROVE  SameHomes /\ TidyHomes /\ KeepsHomes
<1>1. SameHomes
  BY TypedNow DEF Inv, SameHomes
<1> QED BY <1>1, SameHomesTidy

LEMMA ReconciledHomes ==
  ASSUME Inv, Reconciles, stale' = stale
  PROVE  TidyHomes /\ KeepsHomes /\ \A s \in Session : Undisturbed(s)
<1>1. TidyHomes
  BY DEF Inv, Blank, Reconciles, TidyHomes, Has
<1>2. KeepsHomes
  BY DEF Reconciles, KeepsHomes, Has
<1>3. \A s \in Session : Undisturbed(s)
  BY DEF Reconciles, Undisturbed
<1> QED BY <1>1, <1>2, <1>3

LEMMA CapturedHomes ==
  ASSUME Inv, NEW s, NEW p, Captures(s, p), ~Up(p)
  PROVE  /\ TidyHomes /\ KeepsHomes
         /\ SameTurns => \A x \in Session : Undisturbed(x)
<1>1. \A x \in Session : x # s => sessions'[x] = sessions[x]
  BY DEF Captures, OnlySession
<1>2. TidyHomes
  BY <1>1 DEF Inv, Blank, Captures, TidyHomes, Has
<1>3. KeepsHomes
  BY <1>1 DEF Captures, KeepsHomes, Has
<1>4. SameTurns => \A x \in Session : Undisturbed(x)
  BY <1>1 DEF Captures, Undisturbed, SameTurns
<1> QED BY <1>2, <1>3, <1>4

LEMMA LostHomes ==
  ASSUME Inv, NEW s, NEW p, Loses(s, p)
  PROVE  TidyHomes /\ KeepsHomes
<1>1. \A x \in Session : x # s => sessions'[x] = sessions[x]
  BY DEF Loses, OnlySession
<1> QED BY <1>1 DEF Inv, Blank, Loses, TidyHomes, KeepsHomes, Has

LEMMA LodgedHomes ==
  ASSUME Inv, NEW s, NEW p, Installs(s, p), Lodges(s, p), Has(s) \/ s \notin Settled
  PROVE  TidyHomes /\ KeepsHomes
<1>1. \A x \in Session : x # s => sessions'[x] = sessions[x]
  BY DEF Installs, OnlySession
<1> QED BY <1>1 DEF Inv, Blank, Installs, TidyHomes, KeepsHomes, Has

\* No session is forgotten.
LEMMA HomesPast ==
  ASSUME Inv, Firm, KeepsHomes,
         op.kind = "recover" =>
           \A p \in op.todo : panes'[p].st = "up" => op'.kind = "recover" /\ p \in op'.todo
  PROVE  TidyPast
<1>1. \A s \in Session : Has(s) => Covered(s)'
  BY DEF KeepsHomes, Covered
<1> QED BY <1>1 DEF TidyPast, Up

-----------------------------------------------------------------------------
(* The operation.                                                          *)

Operation == OpKinds /\ OpSession /\ OpPane /\ OpTodo

\* It ends, or the next adapter starts over.
LEMMA Ended ==
  \/ /\ OpIs("none", None, "idle", None, None, None, None, FALSE, {}, FALSE)
     /\ mode' = "serving"
  \/ /\ OpIs("recover", None, "rebuild", None, None, None, None, FALSE, {}, FALSE)
     /\ mode' = "recovering"
  => Operation'
<1>1. ASSUME OpIs("none", None, "idle", None, None, None, None, FALSE, {}, FALSE),
             mode' = "serving"
      PROVE  Operation'
  BY <1>1 DEF OpIs, Operation, OpKinds, OpSession, OpPane, OpTodo, At, Starting, Started
<1>2. ASSUME OpIs("recover", None, "rebuild", None, None, None, None, FALSE, {}, FALSE),
             mode' = "recovering"
      PROVE  Operation'
  BY <1>2 DEF OpIs, Operation, OpKinds, OpSession, OpPane, OpTodo, At, Starting, Started
<1> QED BY <1>1, <1>2

LEMMA AnsweredIsFine == TypeOK /\ Answered /\ mode' = mode => Operation'
BY Ended, TypedNow DEF Answered

\* The invariant from its parts, after a tidy step.
LEMMA AssembleInv ==
  ASSUME Inv, TypeOK', TidyPanes, TidyHomes, Operation', \A s \in Session : Turning(s)',
         deleted' \ strayed' \subseteq Settled,
         ~At({"rebuild"})' => ~At({"rebuild"}) /\ TidyPast
  PROVE  Inv'
<1>1. Blank' /\ \A s \in Session : Owned(s)' /\ (s \in Settled => Deleted(s)')
  BY TidyGives
<1>2. \A s \in Session : Deleted(s)'
  <2> SUFFICES ASSUME NEW s \in Session, s \in deleted' \ strayed' PROVE Deleted(s)'
    BY DEF Deleted
  <2> QED BY <1>1
<1>3. ~At({"rebuild"})' => \A p \in Pane : Kept(p)'
  BY TidyKeeps
<1> QED BY <1>1, <1>2, <1>3 DEF Inv, Operation

-----------------------------------------------------------------------------
(* Steps that are not of the operation.                                    *)

Calm ==
  /\ op' = op /\ SameModes /\ TidyPanes /\ TidyHomes /\ KeepsHomes
  /\ \A p \in Pane : panes[p].st # "new" =>
       /\ panes'[p].session = panes[p].session /\ panes[p].tags \subseteq panes'[p].tags
       /\ Homeless(p) => panes'[p].tags = panes[p].tags
  /\ \A s \in Session : /\ Has(s)' => Has(s)
                        /\ sessions'[s].pane \in {sessions[s].pane, None}
                        /\ turns[s].pc = "none" => turns'[s].pc = "none"
                        /\ Active(s)' => Active(s) /\ (turns[s].cancelled => turns'[s].cancelled)

\* A calm step leaves the operation as it is.
LEMMA CalmOperation ==
  ASSUME Inv, Calm
  PROVE  Operation'
<1>1. Firm /\ \A p \in Pane : /\ Gone(p) => panes'[p] = panes[p]
                              /\ panes[p].st # "new" => panes'[p].st # "new"
  BY DEF Calm, TidyPanes, Firm
<1>2. op' = op /\ mode' = mode /\ deleted' = deleted /\ strayed' = strayed
  BY DEF Calm, SameModes
<1>3. OpKinds'
  BY <1>2 DEF Inv, OpKinds, At
<1>4. \A s \in Session : (Has(s)' <=> Has(s)) /\ sessions'[s].pane \in {sessions[s].pane, None}
  BY DEF Calm, KeepsHomes
<1>5. \A p \in Pane : Homeless(p) => \A s \in Session : sessions'[s].pane # p
  BY <1>4, Constants DEF Homeless
<1>6. OpSession'
  <2>1. op.kind \in {"resume", "prompt", "delete", "close"} => op.s \in Session /\ sessions'[op.s].st = "known"
    BY <1>4 DEF Inv, OpSession, Has
  <2>2. op.kind = "new" =>
          /\ op.s \in Session \ deleted /\ sessions'[op.s].st # "known" /\ turns'[op.s].pc = "none"
          /\ op.native = None /\ op.grave = None /\ ~op.resumed
    BY <1>4 DEF Inv, OpSession, Calm, Has
  <2>3. op.kind \in {"resume", "prompt", "delete"} /\ At(Starting) => sessions'[op.s].pane = None
    BY <1>4, <2>1 DEF Inv, OpSession
  <2>4. op.kind \in {"delete", "close"} /\ Active(op.s)' => turns'[op.s].cancelled
    BY <2>1 DEF Inv, OpSession, Calm
  <2>5. op.grave # None => op.grave \in Pane /\ panes'[op.grave].st = "gone"
                           /\ panes'[op.grave].session = op.s
    BY <1>1 DEF Inv, OpSession, Gone
  <2>6. At({"take", "evict", "bury"}) => op.victim \in Session /\ sessions'[op.victim].st = "known"
    BY <1>4 DEF Inv, OpSession, Has
  <2> QED BY <1>2, <2>1, <2>2, <2>3, <2>4, <2>5, <2>6 DEF OpSession, At, Has, Gone, Active
<1>7. OpPane'
  <2> DEFINE p == op.pane
  <2>1. At({"evict", "strip", "tombstone", "erase", "close", "gone"} \cup Started) =>
          /\ p \in Pane /\ panes'[p].st # "new"
          /\ panes'[p].session = panes[p].session /\ panes[p].tags \subseteq panes'[p].tags
          /\ Homeless(p) => panes'[p].tags = panes[p].tags /\ \A s \in Session : sessions'[s].pane # p
    BY <1>1, <1>5 DEF Inv, OpPane, Calm
  <2>2. At({"tombstone", "erase"}) => sessions'[op.s].pane \in {None, p}
    BY <1>4 DEF Inv, OpPane, OpSession, OpKinds, At
  <2>3. At({"gone"}) => panes'[p].st = "gone"
    BY <1>1, <2>1 DEF Inv, OpPane, Gone, At
  <2>4. OpPane
    BY DEF Inv
  <2> HIDE DEF Inv, Calm
  <2> QED BY <1>2, <2>1, <2>2, <2>3, <2>4 DEF OpPane, At, Started, Homeless, Gone
<1>8. OpTodo'
  <2>1. ~At({"adopt", "strip", "lease", "clear"}) => op.todo = {}
    BY DEF Inv, OpTodo
  <2>2. ASSUME NEW p \in op.todo
        PROVE  /\ panes'[p].st # "new"
               /\ Homeless(p)' \/ (At({"lease"}) /\ p = op.pane)
               /\ "acp" \in panes'[p].tags \/ (At({"strip"}) /\ p = op.pane)
               /\ op.kind = "sweep" => panes'[p].session \notin deleted \ strayed
    <3>1. p \in Pane
      BY OpTypes DEF Inv
    <3>2. panes[p].st # "new"
      BY DEF Inv, OpTodo
    <3>3. panes'[p].session = panes[p].session /\ panes[p].tags \subseteq panes'[p].tags
      BY <3>1, <3>2 DEF Calm
    <3> QED BY <1>1, <1>5, <3>1, <3>2, <3>3 DEF Inv, OpTodo, Homeless
  <2> QED BY <1>2, <2>1, <2>2 DEF OpTodo, At
<1> QED BY <1>3, <1>6, <1>7, <1>8 DEF Operation

LEMMA CalmStep ==
  ASSUME Inv, TypeOK', Calm, \A s \in Session : Turning(s)'
  PROVE  Inv'
<1>1. Operation'
  BY CalmOperation
<1>2. deleted' \ strayed' \subseteq Settled
  BY DEF Calm, SameModes, Settled
<1>3. op' = op /\ Firm /\ KeepsHomes /\ TidyPanes /\ TidyHomes
  BY DEF Calm, TidyPanes
<1>4. TidyPast
  BY <1>3, HomesPast
<1>5. ~At({"rebuild"})' => ~At({"rebuild"})
  BY <1>3 DEF At
<1> QED BY <1>1, <1>2, <1>3, <1>4, <1>5, AssembleInv

\* The daemon's side alone: of the adapter nothing changes.
LEMMA OutsideStep ==
  ASSUME Inv, TypeOK', TidyPanes, sessions' = sessions, SameTurns, op' = op, SameModes,
         \A p \in Pane : panes[p].st # "new" =>
           panes'[p].session = panes[p].session /\ panes'[p].tags = panes[p].tags
  PROVE  Inv'
<1>1. TidyHomes /\ KeepsHomes
  BY SameSessions
<1>2. Calm
  BY <1>1 DEF Calm, SameTurns, Has, Active
<1>3. \A s \in Session : Undisturbed(s)
  BY DEF Undisturbed, SameTurns
<1>4. \A s \in Session : Turning(s)'
  BY <1>3, TurnRemains DEF TidyPanes, SameModes
<1> QED BY <1>2, <1>4, CalmStep

LEMMA PaneDiesStep ==
  ASSUME Inv, NEW p \in Pane, PaneDies(p)
  PROVE  Inv'
<1>1. /\ Killed(p) /\ sessions' = sessions /\ SameTurns /\ op' = op /\ SameModes /\ TypeOK'
  BY PaneDiesDoes
<1>2. TidyPanes
  BY <1>1, KilledPanes, TypedNow DEF Inv
<1>3. \A q \in Pane : panes'[q].session = panes[q].session /\ panes'[q].tags = panes[q].tags
  BY <1>1 DEF Killed, OnlyPane
<1> QED BY <1>1, <1>2, <1>3, OutsideStep

LEMMA BindStep ==
  ASSUME Inv, NEW p \in Pane, Bind(p)
  PROVE  Inv'
<1>1. /\ OnlyPane(p) /\ Up(p) /\ panes'[p].st = "up" /\ graves' = graves
      /\ panes'[p].tags = panes[p].tags /\ panes'[p].session = panes[p].session
      /\ sessions' = sessions /\ SameTurns /\ op' = op /\ SameModes /\ TypeOK'
  BY BindDoes
<1>2. Firm
  BY <1>1 DEF OnlyPane, Firm, Gone, Up
<1>3. Digs
  BY <1>1, <1>2, SameDigs, TypedNow DEF Inv
<1>4. \A q \in Pane : /\ panes'[q].session = panes[q].session /\ panes'[q].tags = panes[q].tags
                      /\ panes[q].st = "new" => panes'[q].st = "new"
  BY <1>1 DEF OnlyPane, Up
<1>5. TidyPanes
  BY <1>2, <1>3, <1>4 DEF TidyPanes, Stays, Tagged
<1> QED BY <1>1, <1>4, <1>5, OutsideStep

LEMMA SomebodyRevivesStep ==
  ASSUME Inv, NEW g \in Pane, NEW q, SomebodyRevives(g, q)
  PROVE  Inv'
<1>1. /\ Revives(g, q) /\ panes[g].session \in Session /\ Has(panes[g].session)
      /\ sessions' = sessions /\ SameTurns /\ op' = op /\ SameModes /\ TypeOK'
  BY SomebodyRevivesDoes
<1>2. TidyPanes
  BY <1>1, RevivedPanes, TypedNow DEF Inv
<1>3. \A p \in Pane : panes[p].st # "new" => panes'[p] = panes[p]
  BY <1>1 DEF Revives, OnlyPane
<1> QED BY <1>1, <1>2, <1>3, OutsideStep

\* A turn that is active goes on to pc.
LEMMA TurnStep ==
  ASSUME Inv, TypeOK', NEW s \in Session,
         NEW pc \in {"accepted", "running", "ended", "failed", "stale"},
         TurnGoes(s, pc), Active(s), pc = "stale" => ~Up(turns[s].pane),
         TidyPanes, TidyHomes, KeepsHomes,
         \A p \in Pane : panes[p].st # "new" =>
           /\ panes'[p].session = panes[p].session /\ panes[p].tags \subseteq panes'[p].tags
           /\ Homeless(p) => panes'[p].tags = panes[p].tags,
         \A x \in Session : /\ sessions'[x].turn = sessions[x].turn /\ (Has(x)' => Has(x))
                            /\ sessions'[x].pane \in {sessions[x].pane, None},
         \A x \in Session : x # s \/ pc \in {"accepted", "running"} =>
           sessions'[x].pane = sessions[x].pane,
         stale' = stale, op' = op, SameModes
  PROVE  Inv'
<1>1. Firm /\ Turning(s) /\ mode' = mode
  BY DEF TidyPanes, Inv, SameModes
<1>2. \A x \in Session : x # s => turns'[x] = turns[x]
  BY DEF TurnGoes, OnlyTurn
<1>3. turns'[s].pc = pc /\ turns'[s].pane = turns[s].pane /\ turns'[s].cancelled = turns[s].cancelled
  BY DEF TurnGoes
<1>4. Calm
  BY <1>2, <1>3 DEF Calm, Active
<1>5. \A x \in Session : x # s => Undisturbed(x)
  BY <1>2 DEF Undisturbed
<1>6. \A x \in Session : x # s => Turning(x)'
  BY <1>1, <1>5, TurnRemains
<1>7. Turning(s)'
  <2> DEFINE p == turns[s].pane
  <2>1. p \in Pane /\ panes[p].st \in {"up", "gone"}
    BY TypedNow DEF Turning, Active, Inv, DaemonOK, Panes
  <2>2. panes'[p].st # "new" /\ (Gone(p) => panes'[p].st = "gone")
    BY <1>1, <2>1 DEF Firm, Gone
  <2>3. pc = "stale" => panes'[p].st = "gone"
    BY <2>1, <2>2, Constants DEF Up, Gone
  <2>4. pc \in {"accepted", "running"} /\ panes'[p].st = "up" =>
          sessions'[s].turn /\ sessions'[s].pane = p
    <3>1. panes'[p].st = "up" => Up(p)
      BY <2>1, <2>2, Constants DEF Up, Gone
    <3>2. Up(p) => sessions[s].turn /\ sessions[s].pane = p
      BY <1>1 DEF Turning
    <3> QED BY <3>1, <3>2
  <2>5. stale[s].pc \in {"kill", "forget"} => stale[s].pane \in Pane /\ panes'[stale[s].pane].st = "gone"
    BY <1>1 DEF Turning, Firm, Gone
  <2>6. mode # "recovering"
    BY <1>1, TypedNow DEF Turning, Active
  <2> HIDE DEF p
  <2>7. turns'[s].pane = p
    BY <1>3 DEF p
  <2>8. Active(s)' => pc \in {"accepted", "running"}
    BY <1>3 DEF Active
  <2> QED BY <1>1, <1>3, <2>1, <2>2, <2>3, <2>4, <2>5, <2>6, <2>7, <2>8
     DEF Turning, Gone, Up
<1> QED BY <1>4, <1>6, <1>7, CalmStep

LEMMA ActiveTurnSteps ==
  ASSUME Inv, NEW s \in Session,
         TurnSends(s) \/ TurnEnds(s) \/ TurnFails(s) \/ TurnFindsStale(s)
  PROVE  Inv'
<1>1. \E pc \in {"accepted", "running", "ended", "failed", "stale"} :
        /\ TurnGoes(s, pc) /\ Active(s) /\ (pc = "stale" => ~Up(turns[s].pane))
        /\ SameDaemon /\ sessions' = sessions /\ stale' = stale /\ op' = op /\ SameModes /\ TypeOK'
  BY TurnSendsDoes, TurnEndsDoes, TurnFailsDoes, TurnFindsStaleDoes, Zenon DEF Active
<1>2. PICK pc \in {"accepted", "running", "ended", "failed", "stale"} :
        /\ TurnGoes(s, pc) /\ Active(s) /\ (pc = "stale" => ~Up(turns[s].pane))
        /\ SameDaemon /\ sessions' = sessions /\ stale' = stale /\ op' = op /\ SameModes /\ TypeOK'
  BY <1>1
<1>3. TidyPanes /\ TidyHomes /\ KeepsHomes
  BY <1>2, SamePanes, SameSessions, TypedNow DEF Inv
<1>4. \A x \in Session : Has(x)' => Has(x)
  BY <1>2 DEF Has
<1>5. panes' = panes
  BY <1>2 DEF SameDaemon
<1> QED BY <1>2, <1>3, <1>4, <1>5, TurnStep

LEMMA TurnMarksStep ==
  ASSUME Inv, NEW s \in Session, TurnMarks(s)
  PROVE  Inv'
<1> DEFINE p == turns[s].pane
<1>1. /\ turns[s].pc = "accepted" /\ TurnGoes(s, "running")
      /\ \/ SameDaemon
         \/ /\ Retags(p) /\ panes'[p].tags = panes[p].tags \cup {"resumable"}
            /\ panes'[p].session = panes[p].session
      /\ SameHomes /\ \A x \in Session : sessions'[x].turn = sessions[x].turn
      /\ stale' = stale /\ op' = op /\ SameModes /\ TypeOK'
  BY TurnMarksDoes
<1>2. Active(s) /\ TidyHomes /\ KeepsHomes
  BY <1>1, SameHomesTidy DEF Active
<1>3. \A x \in Session : (Has(x)' => Has(x)) /\ sessions'[x].pane = sessions[x].pane
  BY <1>1 DEF SameHomes, Has
<1>4. ASSUME Retags(p), panes'[p].tags = panes[p].tags \cup {"resumable"},
             panes'[p].session = panes[p].session
      PROVE  /\ Stays(p) /\ ~Homeless(p)
             /\ \A q \in Pane : q # p => panes'[q] = panes[q]
  <2>1. Up(p) /\ p \in Pane /\ \A q \in Pane : q # p => panes'[q] = panes[q]
    BY <1>4 DEF Retags, OnlyPane
  <2>2. sessions[s].pane = p /\ p # None
    BY <1>2, <2>1, Constants DEF Inv, Turning
  <2>3. panes[p].session = s /\ Has(s)
    BY <2>2 DEF Inv, Owned, Blank, Absent
  <2> HIDE DEF p
  <2> QED BY <1>4, <2>1, <2>2, <2>3 DEF Stays, Tagged, Homeless
<1>5. TidyPanes
  <2> HIDE DEF p
  <2> QED BY <1>1, <1>4, SamePanes, RetaggedPanes, TypedNow DEF Inv
<1>6. ASSUME NEW q \in Pane
      PROVE  /\ panes'[q].session = panes[q].session /\ panes[q].tags \subseteq panes'[q].tags
             /\ Homeless(q) => panes'[q].tags = panes[q].tags
  <2> HIDE DEF p
  <2> QED BY <1>1, <1>4 DEF SameDaemon
<1>7. "running" \in {"accepted", "running", "ended", "failed", "stale"}
  OBVIOUS
<1> HIDE DEF p
<1> QED BY <1>1, <1>2, <1>3, <1>5, <1>6, <1>7, TurnStep

LEMMA TurnLosesPaneStep ==
  ASSUME Inv, NEW s \in Session, TurnLosesPane(s)
  PROVE  Inv'
<1>1. /\ turns[s].pc = "running" /\ TurnGoes(s, "ended") /\ Loses(s, turns[s].pane)
      /\ SameDaemon /\ stale' = stale /\ op' = op /\ SameModes /\ TypeOK'
  BY TurnLosesPaneDoes
<1>2. Active(s) /\ TidyHomes /\ KeepsHomes /\ TidyPanes
  BY <1>1, LostHomes, SamePanes, TypedNow DEF Active, Inv
<1>3. \A x \in Session : x # s => sessions'[x] = sessions[x]
  BY <1>1 DEF Loses, OnlySession
<1>4. \A x \in Session : /\ sessions'[x].turn = sessions[x].turn /\ (Has(x)' => Has(x))
                         /\ sessions'[x].pane \in {sessions[x].pane, None}
  BY <1>1, <1>3 DEF Loses, Has
<1>5. panes' = panes /\ "ended" \in {"accepted", "running", "ended", "failed", "stale"}
  BY <1>1 DEF SameDaemon
<1>6. \A x \in Session : x # s \/ "ended" \in {"accepted", "running"} => sessions'[x].pane = sessions[x].pane
  BY <1>3
<1>7. \A p \in Pane : panes[p].st # "new" =>
           /\ panes'[p].session = panes[p].session /\ panes[p].tags \subseteq panes'[p].tags
           /\ Homeless(p) => panes'[p].tags = panes[p].tags
  BY <1>5
<1> QED BY <1>1, <1>2, <1>4, <1>5, <1>6, <1>7, TurnStep

LEMMA ReleaseSteps ==
  ASSUME Inv, NEW s \in Session, TurnReleases(s) \/ TurnReleasesStale(s)
  PROVE  Inv'
<1>1. /\ Releases(s) /\ SameDaemon /\ op' = op /\ SameModes /\ TypeOK'
      /\ turns[s].pc \in {"ended", "failed", "stale"}
      /\ \A x \in Session \ {s} : stale'[x] = stale[x]
      /\ stale'[s].pc \in {"kill", "forget"} =>
           \/ stale' = stale
           \/ turns[s].pc = "stale" /\ stale'[s].pane = turns[s].pane
  BY TurnReleasesDoes, TurnReleasesStaleDoes
<1>2. TidyPanes /\ TidyHomes /\ KeepsHomes
  BY <1>1, SamePanes, SameHomesTidy, TypedNow DEF Inv, Releases
<1>3. \A x \in Session : x # s => turns'[x] = turns[x] /\ sessions'[x] = sessions[x]
  BY <1>1 DEF Releases, OnlyTurn
<1>4. turns'[s].pc = "none"
  BY <1>1 DEF Releases, NoTurn
<1>5. \A x \in Session : (Has(x)' => Has(x)) /\ sessions'[x].pane = sessions[x].pane
  BY <1>1 DEF Releases, SameHomes, Has
<1>6. Calm
  BY <1>1, <1>2, <1>3, <1>4, <1>5 DEF Calm, SameDaemon, Active
<1>7. \A x \in Session : x # s => Turning(x)'
  <2>1. \A x \in Session : x # s => Undisturbed(x)
    BY <1>1, <1>3 DEF Undisturbed
  <2> QED BY <1>1, <1>2, <2>1, TurnRemains DEF TidyPanes, SameModes
<1>8. Turning(s)'
  BY <1>1, <1>4 DEF Inv, Turning, Active, SameDaemon, SameModes, Gone
<1> QED BY <1>1, <1>6, <1>7, <1>8, CalmStep

LEMMA StaleKillsStep ==
  ASSUME Inv, NEW s \in Session, StaleKills(s)
  PROVE  Inv'
<1>1. /\ stale[s].pc = "kill" /\ stale'[s].pc = "forget" /\ stale'[s].pane = stale[s].pane
      /\ \A x \in Session \ {s} : stale'[x] = stale[x]
      /\ SameDaemon /\ sessions' = sessions /\ turns' = turns /\ op' = op /\ SameModes /\ TypeOK'
  BY StaleKillsDoes
<1>2. TidyPanes /\ TidyHomes /\ KeepsHomes
  BY <1>1, SamePanes, SameSessions, TypedNow DEF Inv
<1>3. Calm
  BY <1>1, <1>2 DEF Calm, SameDaemon, Active, Has
<1>4. \A x \in Session : Turning(x)'
  BY <1>1 DEF Inv, Turning, Active, SameDaemon, SameModes, Gone, Up
<1> QED BY <1>1, <1>3, <1>4, CalmStep

LEMMA StaleForgetsPaneStep ==
  ASSUME Inv, NEW s \in Session, StaleForgetsPane(s)
  PROVE  Inv'
<1>1. /\ stale[s].pc = "forget" /\ stale'[s].pc = "again"
      /\ \A x \in Session \ {s} : stale'[x] = stale[x]
      /\ Captures(s, stale[s].pane) /\ ~Up(stale[s].pane)
      /\ SameDaemon /\ turns' = turns /\ op' = op /\ SameModes /\ TypeOK'
  BY StaleForgetsPaneDoes
<1>2. TidyPanes /\ TidyHomes /\ KeepsHomes
  BY <1>1, SamePanes, CapturedHomes, TypedNow DEF Inv
<1>3. \A x \in Session : x # s => sessions'[x] = sessions[x]
  BY <1>1 DEF Captures, OnlySession
<1>4. \A x \in Session : /\ sessions'[x].turn = sessions[x].turn /\ (Has(x)' => Has(x))
                         /\ sessions'[x].pane \in {sessions[x].pane, None}
                         /\ Up(sessions[x].pane) => sessions'[x].pane = sessions[x].pane
  BY <1>1, <1>3 DEF Captures, Has
<1>5. Calm
  BY <1>1, <1>2, <1>4 DEF Calm, SameDaemon, Active
<1>6. \A x \in Session : Turning(x)'
  <2>1. \A x \in Session : x # s => Undisturbed(x)
    BY <1>1, <1>3 DEF Undisturbed
  <2>2. \A x \in Session : x # s => Turning(x)'
    BY <1>1, <1>2, <2>1, TurnRemains DEF TidyPanes, SameModes
  <2>3. Turning(s)'
    <3>1. Turning(s) /\ panes' = panes /\ mode' = mode
      BY <1>1 DEF Inv, SameDaemon, SameModes
    <3>2. mode # "recovering"
      BY <1>1, <3>1 DEF Turning
    <3> QED BY <1>1, <1>4, <3>1, <3>2 DEF Turning, Active, Gone, Up
  <2> QED BY <2>2, <2>3
<1> QED BY <1>1, <1>5, <1>6, CalmStep

-----------------------------------------------------------------------------
(* Requests, and steps of an operation that leave panes and sessions alone. *)

\* A tidy step that disturbs no turn keeps the invariant.
LEMMA WorkStep ==
  ASSUME Inv, TypeOK', TidyPanes, TidyHomes, KeepsHomes, Operation',
         \A s \in Session : Undisturbed(s),
         deleted' \ strayed' \subseteq Settled, mode' \in {mode, "serving"}, ~At({"rebuild"}),
         op.kind = "recover" =>
           \/ op'.pc = "rebuild"
           \/ \A p \in op.todo : panes'[p].st = "up" => op'.kind = "recover" /\ p \in op'.todo
  PROVE  Inv'
<1>1. Firm
  BY DEF TidyPanes
<1>2. \A s \in Session : Turning(s)'
  BY <1>1, TurnRemains
<1>3. CASE op'.pc = "rebuild"
  <2>1. At({"rebuild"})'
    BY <1>3 DEF At
  <2> QED BY <1>2, <2>1, AssembleInv
<1>4. CASE op'.pc # "rebuild"
  <2>1. TidyPast
    BY <1>1, <1>4, HomesPast
  <2> QED BY <1>2, <2>1, AssembleInv
<1> QED BY <1>3, <1>4

\* What a handler is about to write is still bound when it writes.
LEMMA StillStep ==
  ASSUME Inv, TypeOK', SameDaemon, sessions' = sessions, Operation',
         \A s \in Session : /\ turns'[s].pc = turns[s].pc /\ turns'[s].pane = turns[s].pane
                            /\ stale'[s] = stale[s],
         deleted' = deleted, strayed' = strayed, mode' \in {mode, "serving"}, ~At({"rebuild"}),
         op.kind = "recover" =>
           \/ op'.pc = "rebuild"
           \/ \A p \in op.todo : Up(p) => op'.kind = "recover" /\ p \in op'.todo
  PROVE  Inv'
<1>1. TidyPanes /\ TidyHomes /\ KeepsHomes
  BY SamePanes, SameSessions, TypedNow DEF Inv
<1>2. \A s \in Session : Undisturbed(s)
  BY DEF Undisturbed
<1>3. deleted' \ strayed' \subseteq Settled
  BY DEF Settled
<1>4. op.todo \subseteq Pane /\ panes' = panes
  BY OpTypes DEF Inv, SameDaemon
<1>5. \A p \in op.todo : panes'[p].st = "up" => Up(p)
  BY <1>4, Constants DEF Up
<1>6. op.kind = "recover" =>
           \/ op'.pc = "rebuild"
           \/ \A p \in op.todo : panes'[p].st = "up" => op'.kind = "recover" /\ p \in op'.todo
  BY <1>5
<1> QED BY <1>1, <1>2, <1>3, <1>6, WorkStep

\* Nothing goes on when the adapter is free.
LEMMA FreeIs ==
  ASSUME Inv, Free
  PROVE  /\ op.pc = "idle" /\ op.kind = "none" /\ mode = "serving" /\ op.todo = {}
         /\ ~At({"rebuild"})
BY DEF Inv, Free, OpKinds, OpTodo, At

\* An operation that was not there begins with a session that is known.
LEMMA RequestBegins ==
  ASSUME Inv, Free, SameDaemon, sessions' = sessions, SameModes, NEW s \in Session, Has(s),
         NEW a, NEW k \in {"resume", "prompt", "delete"},
         OpIs(k, s, "resident", None, None, None, None, FALSE, {}, a),
         k = "delete" /\ Active(s)' => turns'[s].cancelled
  PROVE  Operation'
<1>1. mode' = "serving"
  BY FreeIs DEF SameModes
<1>2. op'.kind = k /\ op'.s = s /\ op'.pc = "resident" /\ op'.grave = None /\ op'.todo = {}
  BY DEF OpIs
<1>3. OpKinds' /\ OpTodo' /\ OpPane'
  BY <1>1, <1>2 DEF OpKinds, OpTodo, OpPane, At, Started, Starting
<1>4. OpSession'
  <2>1. sessions'[s].st = "known"
    BY DEF Has
  <2>2. k = "delete" /\ turns'[s].pc \in {"sending", "accepted", "running"} => turns'[s].cancelled
    BY DEF Active
  <2> QED BY <1>2, <2>1, <2>2 DEF OpSession, At, Starting, Has, Active
<1> QED BY <1>3, <1>4 DEF Operation

LEMMA NewStep ==
  ASSUME Inv, NEW s \in Session, New(s)
  PROVE  Inv'
<1>1. /\ Free /\ s \in FreshIds
      /\ OpIs("new", s, "room", None, None, None, None, FALSE, {}, FALSE)
      /\ SameDaemon /\ sessions' = sessions /\ SameTurns /\ SameModes /\ TypeOK'
  BY NewDoes
<1>2. mode' = "serving" /\ deleted' = deleted /\ turns' = turns
  BY <1>1, FreeIs DEF SameModes, SameTurns
<1>3. op'.kind = "new" /\ op'.s = s /\ op'.pc = "room" /\ op'.grave = None /\ op'.native = None
      /\ ~op'.resumed /\ op'.todo = {}
  BY <1>1 DEF OpIs
<1>4. OpKinds' /\ OpTodo' /\ OpPane'
  BY <1>2, <1>3 DEF OpKinds, OpTodo, OpPane, At, Started
<1>5. s \notin deleted /\ sessions'[s].st # "known" /\ turns'[s].pc = "none"
  BY <1>1, <1>2 DEF FreshIds, Absent, NoTurn
<1>6. OpSession'
  BY <1>2, <1>3, <1>5 DEF OpSession, At, Starting, Has, Active
<1>7. Operation'
  BY <1>4, <1>6 DEF Operation
<1> QED BY <1>1, <1>7, FreeIs, StillStep DEF SameTurns, SameModes

LEMMA ResumeStep ==
  ASSUME Inv, NEW s \in Session, Resume(s)
  PROVE  Inv'
<1>1. /\ Free /\ Has(s)
      /\ OpIs("resume", s, "resident", None, None, None, None, FALSE, {}, FALSE)
      /\ SameDaemon /\ sessions' = sessions /\ SameTurns /\ SameModes /\ TypeOK'
  BY ResumeDoes
<1>2. Operation'
  BY <1>1, RequestBegins
<1> QED BY <1>1, <1>2, FreeIs, StillStep DEF SameTurns, SameModes

LEMMA PromptStep ==
  ASSUME Inv, NEW s \in Session, Prompt(s)
  PROVE  Inv'
<1>1. /\ Free /\ Has(s)
      /\ OpIs("prompt", s, "resident", None, None, None, None, FALSE, {}, FALSE)
      /\ SameDaemon /\ sessions' = sessions /\ SameTurns /\ SameModes /\ TypeOK'
  BY PromptDoes
<1>2. Operation'
  BY <1>1, RequestBegins
<1> QED BY <1>1, <1>2, FreeIs, StillStep DEF SameTurns, SameModes

LEMMA PromptAgainStep ==
  ASSUME Inv, NEW s \in Session, PromptAgain(s)
  PROVE  Inv'
<1>1. /\ Free
      /\ \/ op' = op
         \/ Has(s) /\ OpIs("prompt", s, "resident", None, None, None, None, FALSE, {}, TRUE)
      /\ stale'[s].pc = "none" /\ \A x \in Session \ {s} : stale'[x] = stale[x]
      /\ SameDaemon /\ sessions' = sessions /\ turns' = turns /\ SameModes /\ TypeOK'
  BY PromptAgainDoes
<1>2. ASSUME op' = op PROVE Operation'
  BY <1>1, <1>2
     DEF Inv, OpKinds, OpSession, OpPane, OpTodo, Operation, SameDaemon, SameModes,
     At, Has, Active, Homeless, Gone
<1>3. Operation'
  BY <1>1, <1>2, RequestBegins
<1>4. TidyPanes /\ TidyHomes /\ KeepsHomes
  BY <1>1, SamePanes, SameSessions, TypedNow DEF Inv
<1>5. \A x \in Session : Turning(x)'
  BY <1>1 DEF Inv, Turning, Active, SameDaemon, SameModes, Gone, Up
<1>6. TidyPast
  BY <1>1, <1>4, FreeIs, HomesPast DEF TidyPanes
<1>7. deleted' \ strayed' \subseteq Settled /\ ~At({"rebuild"})
  BY <1>1, FreeIs DEF Settled, SameModes
<1> QED BY <1>1, <1>3, <1>4, <1>5, <1>6, <1>7, AssembleInv

LEMMA DeleteStep ==
  ASSUME Inv, NEW s \in Session, Delete(s)
  PROVE  Inv'
<1>1. /\ Free /\ Has(s) /\ Cancels(s)
      /\ OpIs("delete", s, "resident", None, None, None, None, FALSE, {}, FALSE)
      /\ SameDaemon /\ sessions' = sessions /\ stale' = stale /\ SameModes /\ TypeOK'
  BY DeleteDoes
<1>2. Active(s)' => turns'[s].cancelled
  BY <1>1 DEF Cancels, Active
<1>3. Operation'
  BY <1>1, <1>2, RequestBegins
<1>4. \A x \in Session : turns'[x].pc = turns[x].pc /\ turns'[x].pane = turns[x].pane
  BY <1>1 DEF Cancels, OnlyTurn
<1> QED BY <1>1, <1>3, <1>4, FreeIs, StillStep DEF SameModes

LEMMA CloseStep ==
  ASSUME Inv, NEW s \in Session, Close(s)
  PROVE  Inv'
<1>1. /\ Free /\ Has(s) /\ Cancels(s) /\ sessions[s].pane \in Pane
      /\ OpIs("close", s, "close", sessions[s].pane, None, None, None, FALSE, {}, FALSE)
      /\ SameDaemon /\ sessions' = sessions /\ stale' = stale /\ SameModes /\ TypeOK'
  BY CloseDoes
<1>2. /\ op'.kind = "close" /\ op'.s = s /\ op'.pc = "close" /\ op'.pane = sessions[s].pane
      /\ op'.grave = None /\ op'.todo = {} /\ mode' = "serving" /\ panes' = panes
  BY <1>1, FreeIs DEF OpIs, SameModes, SameDaemon
<1>3. OpKinds' /\ OpTodo'
  BY <1>2 DEF OpKinds, OpTodo, At
<1>4. OpSession'
  <2>1. sessions'[s].st = "known"
    BY <1>1 DEF Has
  <2>2. turns'[s].pc \in {"sending", "accepted", "running"} => turns'[s].cancelled
    BY <1>1 DEF Cancels
  <2> QED BY <1>2, <2>1, <2>2 DEF OpSession, At, Has, Active
<1>5. OpPane'
  <2>1. sessions[s].pane # None
    BY <1>1, Constants
  <2>2. panes[sessions[s].pane].session = s /\ "acp" \in panes[sessions[s].pane].tags
        /\ panes[sessions[s].pane].st # "new"
    BY <2>1 DEF Inv, Owned
  <2> QED BY <1>1, <1>2, <2>2 DEF OpPane, At, Started
<1>6. Operation'
  BY <1>3, <1>4, <1>5 DEF Operation
<1>7. \A x \in Session : turns'[x].pc = turns[x].pc /\ turns'[x].pane = turns[x].pane
  BY <1>1 DEF Cancels, OnlyTurn
<1> QED BY <1>1, <1>6, <1>7, FreeIs, StillStep DEF SameModes

LEMMA SweepStep ==
  ASSUME Inv, Sweep
  PROVE  Inv'
<1>1. /\ Free /\ OpIs("sweep", None, "list", None, None, None, None, FALSE, {}, FALSE)
      /\ SameDaemon /\ sessions' = sessions /\ SameTurns /\ SameModes /\ TypeOK'
  BY SweepDoes
<1>2. /\ op'.kind = "sweep" /\ op'.pc = "list" /\ op'.grave = None /\ op'.todo = {}
      /\ mode' = "serving"
  BY <1>1, FreeIs DEF OpIs, SameModes
<1>3. Operation'
  BY <1>2 DEF Operation, OpKinds, OpSession, OpPane, OpTodo, At, Started, Starting
<1> QED BY <1>1, <1>3, FreeIs, StillStep DEF SameTurns, SameModes

LEMMA ReviveFailsStep ==
  ASSUME Inv, ReviveFails
  PROVE  Inv'
<1>1. /\ op.pc = "start" /\ op.grave # None
      /\ OpIs(op.kind, op.s, op.pc, op.pane, op.victim, op.native, None, op.resumed, op.todo,
              op.again)
      /\ SameDaemon /\ sessions' = sessions /\ SameTurns /\ SameModes /\ TypeOK'
  BY ReviveFailsDoes
<1>2. op.kind \in {"new", "resume", "prompt", "delete"} /\ ~At({"rebuild"})
  BY <1>1, OpTypes DEF Inv, OpKinds, At, OpKind
<1>3. Operation'
  BY <1>1
     DEF OpIs, Inv, Operation, OpKinds, OpSession, OpPane, OpTodo, At, Has, Active,
         Homeless,
     Gone, SameDaemon, SameTurns, SameModes
<1> QED BY <1>1, <1>2, <1>3, StillStep DEF SameTurns, SameModes

LEMMA RunFailsStep ==
  ASSUME Inv, RunFails
  PROVE  Inv'
<1>1. /\ op.pc = "start" /\ Answered
      /\ SameDaemon /\ sessions' = sessions /\ SameTurns /\ SameModes /\ TypeOK'
  BY RunFailsDoes
<1>2. op.kind # "recover" /\ ~At({"rebuild"})
  BY <1>1 DEF Inv, OpKinds, At
<1>3. Operation'
  BY <1>1, AnsweredIsFine DEF Inv, SameModes
<1> QED BY <1>1, <1>2, <1>3, StillStep DEF SameTurns, SameModes

LEMMA UseDeletedStep ==
  ASSUME Inv, UseDeleted
  PROVE  Inv'
<1>1. /\ op.pc = "use" /\ op.kind = "delete" /\ op.s \in Session
      /\ \/ Answered
         \/ /\ sessions[op.s].pane \in Pane
            /\ OpIs(op.kind, op.s, "tombstone", sessions[op.s].pane, op.victim, op.native,
                    op.grave, op.resumed, op.todo, op.again)
      /\ SameDaemon /\ sessions' = sessions /\ SameTurns /\ SameModes /\ TypeOK'
  BY UseDeletedDoes
<1>2. ASSUME Answered PROVE Operation'
  BY <1>1, <1>2, AnsweredIsFine DEF Inv, SameModes
<1>3. ASSUME /\ sessions[op.s].pane \in Pane
           /\ OpIs(op.kind, op.s, "tombstone", sessions[op.s].pane, op.victim, op.native,
                   op.grave, op.resumed, op.todo, op.again)
      PROVE  Operation'
  <2>1. panes[sessions[op.s].pane].session = op.s /\ "acp" \in panes[sessions[op.s].pane].tags
        /\ panes[sessions[op.s].pane].st # "new"
    BY <1>1, <1>3, Constants DEF Inv, Owned
  <2>2. /\ op'.kind = "delete" /\ op'.s = op.s /\ op'.pc = "tombstone"
        /\ op'.pane = sessions[op.s].pane /\ op'.grave = op.grave /\ op'.todo = op.todo
        /\ mode' = mode /\ panes' = panes /\ turns' = turns
    BY <1>1, <1>3 DEF OpIs, SameModes, SameDaemon, SameTurns
  <2>3. OpKinds' /\ OpTodo'
    BY <1>1, <2>2 DEF Inv, OpKinds, OpTodo, At
  <2>4. OpSession'
    BY <1>1, <2>2 DEF Inv, OpSession, At, Has, Active, Gone, Starting
  <2>5. OpPane'
    BY <1>1, <1>3, <2>1, <2>2 DEF OpPane, At, Started, Starting
  <2> QED BY <2>3, <2>4, <2>5 DEF Operation
<1>4. op.kind # "recover" /\ ~At({"rebuild"})
  BY <1>1 DEF At
<1> QED BY <1>1, <1>2, <1>3, <1>4, StillStep DEF SameTurns, SameModes

LEMMA LeaseAdoptedStep ==
  ASSUME Inv, LeaseAdopted
  PROVE  Inv'
<1>1. /\ op.pc = "lease"
      /\ \/ Answered
         \/ OpIs(op.kind, op.s, "adopt", None, op.victim, op.native, op.grave, op.resumed,
                 op.todo \ {op.pane}, op.again)
      /\ SameDaemon /\ sessions' = sessions /\ SameTurns /\ SameModes /\ TypeOK'
  BY LeaseAdoptedDoes
<1>2. op.kind = "sweep" /\ ~At({"rebuild"})
  BY <1>1 DEF Inv, OpKinds, At
<1>3. ASSUME Answered PROVE Operation'
  BY <1>1, <1>3, AnsweredIsFine DEF Inv, SameModes
<1>4. ASSUME OpIs(op.kind, op.s, "adopt", None, op.victim, op.native, op.grave, op.resumed,
                op.todo \ {op.pane}, op.again)
      PROVE  Operation'
  <2>1. /\ op'.kind = "sweep" /\ op'.pc = "adopt" /\ op'.grave = op.grave /\ op'.s = op.s
        /\ op'.todo = op.todo \ {op.pane} /\ mode' = mode /\ panes' = panes /\ deleted' = deleted
        /\ strayed' = strayed
    BY <1>1, <1>2, <1>4 DEF OpIs, SameModes, SameDaemon
  <2>2. OpKinds' /\ OpSession' /\ OpPane'
    BY <1>2, <2>1 DEF Inv, OpKinds, OpSession, OpPane, At, Started, Starting, Gone
  <2>3. OpTodo'
    BY <1>1, <1>2, <2>1 DEF Inv, OpTodo, At, Homeless
  <2> QED BY <2>2, <2>3 DEF Operation
<1> QED BY <1>1, <1>2, <1>3, <1>4, StillStep DEF SameTurns, SameModes

\* The choice of a session to evict.
LEMMA ChosenIsFine ==
  ASSUME Inv, Trimming, SameDaemon, sessions' = sessions, SameTurns, mode' = mode,
         deleted' = deleted, NEW v \in Session, Has(v), Chooses(v)
  PROVE  Operation'
<1>1. /\ op'.kind = op.kind /\ op'.pc = "take" /\ op'.grave = op.grave /\ op'.s = op.s
      /\ op'.victim = v /\ op'.todo = op.todo /\ op.todo = {} /\ op.pc \in {"adopt", "clear"}
  BY DEF Chooses, OpIs, Trimming
<1>2. op.kind \in {"sweep", "recover"}
  BY <1>1 DEF Inv, OpKinds, At
<1>3. OpKinds' /\ OpPane' /\ OpTodo'
  BY <1>1, <1>2 DEF Inv, OpKinds, OpPane, OpTodo, At, Started, Starting
<1>4. OpSession'
  BY <1>1, <1>2 DEF Inv, OpSession, At, Starting, Gone, Has, SameDaemon
<1> QED BY <1>3, <1>4 DEF Operation

LEMMA TrimStep ==
  ASSUME Inv, Trim
  PROVE  Inv'
<1>1. /\ Trimming
      /\ \/ mode' = mode /\ (Answered \/ \E v \in Session : Has(v) /\ Chooses(v))
         \/ mode' = "serving" /\ OpIs("none", None, "idle", None, None, None, None, FALSE, {}, FALSE)
      /\ SameDaemon /\ sessions' = sessions /\ SameTurns /\ deleted' = deleted
      /\ strayed' = strayed /\ TypeOK'
  BY TrimDoes
<1>2. Operation'
  BY <1>1, ChosenIsFine, AnsweredIsFine, Ended DEF Inv
<1>3. op.todo = {} /\ ~At({"rebuild"}) /\ mode' \in {mode, "serving"}
  BY <1>1 DEF Trimming, At
<1> QED BY <1>1, <1>2, <1>3, StillStep DEF SameTurns

LEMMA IdleTimeoutStep ==
  ASSUME Inv, IdleTimeout
  PROVE  Inv'
<1>1. /\ Trimming /\ (Answered \/ \E v \in Session : Has(v) /\ Chooses(v))
      /\ SameDaemon /\ sessions' = sessions /\ SameTurns /\ SameModes /\ TypeOK'
  BY IdleTimeoutDoes
<1>2. Operation'
  BY <1>1, ChosenIsFine, AnsweredIsFine DEF Inv, SameModes
<1>3. op.todo = {} /\ ~At({"rebuild"})
  BY <1>1 DEF Trimming, At
<1> QED BY <1>1, <1>2, <1>3, StillStep DEF SameTurns, SameModes

-----------------------------------------------------------------------------
(* Steps of an operation that reconcile, evict or kill.                    *)

LEMMA ReconcileStep ==
  ASSUME Inv, TypeOK', SameDaemon, Reconciles, stale' = stale, SameModes, Operation',
         op.kind # "recover" \/ op.todo = {}, ~At({"rebuild"})
  PROVE  Inv'
<1>1. TidyPanes /\ TidyHomes /\ KeepsHomes /\ \A s \in Session : Undisturbed(s)
  BY SamePanes, ReconciledHomes, TypedNow DEF Inv
<1> QED BY <1>1, WorkStep DEF SameModes, Settled

\* What reconciling leaves as it was.
LEMMA ReconciledIs ==
  ASSUME Reconciles
  PROVE  \A s \in Session : /\ sessions'[s].st = sessions[s].st
                            /\ sessions'[s].pane \in {sessions[s].pane, None}
                            /\ turns'[s].pc = turns[s].pc
                            /\ turns[s].cancelled => turns'[s].cancelled
BY DEF Reconciles

LEMMA EnsureResidentStep ==
  ASSUME Inv, EnsureResident
  PROVE  Inv'
<1>1. /\ op.pc = "resident"
      /\ \/ OpIs("none", None, "idle", None, None, None, None, FALSE, {}, FALSE)
         \/ Goes("use") /\ op.kind # "resume"
         \/ \E n \in PaneIds :
              /\ OpIs(op.kind, op.s, "room", op.pane, op.victim, n, sessions[op.s].grave,
                      op.resumed, op.todo, op.again)
              /\ sessions'[op.s].pane = None
      /\ Reconciles /\ SameDaemon /\ stale' = stale /\ SameModes /\ TypeOK'
  BY EnsureResidentDoes
<1>2. op.kind \in {"resume", "prompt", "delete"} /\ op.s \in Session /\ Has(op.s) /\ op.todo = {}
      /\ ~At({"rebuild"}) /\ mode = "serving" /\ mode' = mode /\ panes' = panes
  BY <1>1, TypedNow DEF Inv, OpKinds, OpSession, OpTodo, At, SameModes, SameDaemon
<1>3. sessions'[op.s].st = "known" /\ turns'[op.s].pc = turns[op.s].pc
      /\ (turns[op.s].cancelled => turns'[op.s].cancelled)
  BY <1>1, <1>2, ReconciledIs DEF Has
<1>4. op.kind = "delete" /\ turns'[op.s].pc \in {"sending", "accepted", "running"} =>
        turns'[op.s].cancelled
  BY <1>3 DEF Inv, OpSession, Active
<1>5. ASSUME OpIs("none", None, "idle", None, None, None, None, FALSE, {}, FALSE)
      PROVE  Operation'
  BY <1>2, <1>5, Ended
<1>6. ASSUME Goes("use"), op.kind # "resume"
      PROVE  Operation'
  <2>1. op'.kind = op.kind /\ op'.s = op.s /\ op'.pc = "use" /\ op'.grave = op.grave /\ op'.todo = {}
    BY <1>2, <1>6 DEF Goes, OpIs
  <2>2. OpKinds' /\ OpPane' /\ OpTodo'
    BY <1>2, <1>6, <2>1 DEF OpKinds, OpPane, OpTodo, At, Started
  <2>3. OpSession'
    BY <1>2, <1>3, <1>4, <2>1 DEF Inv, OpSession, At, Starting, Has, Active, Gone
  <2> QED BY <2>2, <2>3 DEF Operation
<1>7. ASSUME NEW n, OpIs(op.kind, op.s, "room", op.pane, op.victim, n, sessions[op.s].grave,
                         op.resumed, op.todo, op.again),
             sessions'[op.s].pane = None
      PROVE  Operation'
  <2>1. op'.kind = op.kind /\ op'.s = op.s /\ op'.pc = "room" /\ op'.grave = sessions[op.s].grave
        /\ op'.todo = {}
    BY <1>2, <1>7 DEF OpIs
  <2>2. OpKinds' /\ OpPane' /\ OpTodo'
    BY <1>2, <2>1 DEF OpKinds, OpPane, OpTodo, At, Started
  <2>3. sessions[op.s].grave # None => /\ sessions[op.s].grave \in Pane /\ Gone(sessions[op.s].grave)
                                       /\ panes[sessions[op.s].grave].session = op.s
    BY <1>2, TypedNow DEF Inv, Owned, Entries, PaneIds
  <2>4. OpSession'
    BY <1>2, <1>3, <1>4, <1>7, <2>1, <2>3 DEF OpSession, At, Starting, Has, Active, Gone
  <2> QED BY <2>2, <2>4 DEF Operation
<1>8. Operation'
  BY <1>1, <1>5, <1>6, <1>7
<1> QED BY <1>1, <1>2, <1>8, ReconcileStep

LEMMA MakeRoomStep ==
  ASSUME Inv, MakeRoom
  PROVE  Inv'
<1>1. /\ op.pc = "room"
      /\ Goes("start") \/ Answered \/ \E v \in Session : Has(v) /\ Chooses(v)
      /\ Reconciles /\ SameDaemon /\ stale' = stale /\ SameModes /\ TypeOK'
  BY MakeRoomDoes
<1>2. op.todo = {} /\ ~At({"rebuild"}) /\ mode' = mode /\ panes' = panes /\ deleted' = deleted
      /\ op.kind \in {"new", "resume", "prompt", "delete"}
  BY <1>1, OpTypes DEF Inv, OpKinds, OpTodo, At, SameModes, SameDaemon, OpKind
<1>3. op.s \in Session /\ sessions'[op.s].st = sessions[op.s].st
      /\ sessions'[op.s].pane \in {sessions[op.s].pane, None}
      /\ turns'[op.s].pc = turns[op.s].pc /\ (turns[op.s].cancelled => turns'[op.s].cancelled)
  BY <1>1, <1>2, ReconciledIs DEF Inv, OpSession
<1>4. ASSUME NEW pc \in {"start", "take"}, op'.kind = op.kind, op'.s = op.s, op'.pc = pc,
             op'.grave = op.grave, op'.native = op.native, op'.resumed = op.resumed,
             op'.todo = op.todo, pc = "take" => op'.victim \in Session /\ sessions'[op'.victim].st = "known"
      PROVE  Operation'
  <2>1. OpKinds' /\ OpPane' /\ OpTodo'
    BY <1>2, <1>4 DEF Inv, OpKinds, OpPane, OpTodo, At, Started
  <2>2. OpSession'
    BY <1>1, <1>2, <1>3, <1>4 DEF Inv, OpSession, At, Starting, Has, Active, Gone
  <2> QED BY <2>1, <2>2 DEF Operation
<1>5. Answered => Operation'
  BY <1>1, AnsweredIsFine DEF Inv, SameModes
<1>6. Goes("start") => Operation'
  BY <1>4 DEF Goes, OpIs
<1>7. ASSUME NEW v \in Session, Has(v), Chooses(v) PROVE Operation'
  <2>1. sessions'[v].st = "known"
    BY <1>1, <1>7, ReconciledIs DEF Has
  <2> QED BY <1>4, <1>7, <2>1 DEF Chooses, OpIs
<1>8. Operation'
  BY <1>1, <1>5, <1>6, <1>7
<1> QED BY <1>1, <1>2, <1>8, ReconcileStep

LEMMA SweepListsStep ==
  ASSUME Inv, SweepLists
  PROVE  Inv'
<1> DEFINE todo == InScope \ {sessions[s].pane : s \in Resident \ Dead}
<1>1. /\ op.pc = "list" /\ Reconciles
      /\ OpIs(op.kind, op.s, "adopt", op.pane, op.victim, op.native, op.grave, op.resumed, todo,
              op.again)
      /\ SameDaemon /\ stale' = stale /\ SameModes /\ TypeOK'
  BY SweepListsDoes
<1>2. op.kind = "sweep" /\ ~At({"rebuild"}) /\ mode' = mode /\ panes' = panes /\ deleted' = deleted
      /\ strayed' = strayed
  BY <1>1 DEF Inv, OpKinds, At, SameModes, SameDaemon
<1>3. ASSUME NEW p \in todo
      PROVE  /\ Up(p) /\ panes[p].st # "new" /\ "acp" \in panes[p].tags
             /\ panes[p].session \notin deleted \ strayed
             /\ \A s \in Session : sessions'[s].pane # p
  <2>1. p \in Pane /\ Up(p) /\ panes[p].st # "new" /\ "acp" \in panes[p].tags
    BY DEF InScope, Up
  <2>2. panes[p].session \notin deleted \ strayed
    BY <2>1, TypedNow DEF Inv, Deleted
  <2>3. \A s \in Session : sessions[s].pane # p
    BY <2>1, Constants DEF Resident, Dead
  <2>4. \A s \in Session : sessions'[s].pane # p
    BY <1>1, <2>1, <2>3, ReconciledIs, Constants
  <2> QED BY <2>1, <2>2, <2>4
<1> HIDE DEF todo
<1>4. op'.kind = "sweep" /\ op'.pc = "adopt" /\ op'.grave = op.grave /\ op'.s = op.s /\ op'.todo = todo
  BY <1>1, <1>2 DEF OpIs
<1>5. OpKinds' /\ OpSession' /\ OpPane'
  BY <1>2, <1>4 DEF Inv, OpKinds, OpSession, OpPane, At, Started, Starting, Gone
<1>6. OpTodo'
  BY <1>2, <1>3, <1>4 DEF OpTodo, At, Homeless
<1>7. Operation'
  BY <1>5, <1>6 DEF Operation
<1> QED BY <1>1, <1>2, <1>7, ReconcileStep

LEMMA TakeVictimStep ==
  ASSUME Inv, TakeVictim
  PROVE  Inv'
<1> DEFINE v == op.victim
           p == sessions[v].pane
<1>1. /\ op.pc = "take" /\ v \in Session /\ Has(v)
      /\ \/ Answered /\ sessions' = sessions
         \/ /\ Frees(v) /\ p \in Pane
            /\ OpIs(op.kind, op.s, "evict", p, v, op.native, op.grave, op.resumed, op.todo, op.again)
      /\ SameDaemon /\ SameTurns /\ SameModes /\ TypeOK'
  BY TakeVictimDoes
<1>2. op.todo = {} /\ ~At({"rebuild"}) /\ mode' = mode /\ panes' = panes /\ deleted' = deleted
      /\ turns' = turns
  BY <1>1 DEF Inv, OpTodo, At, SameModes, SameDaemon, SameTurns
<1>3. CASE Answered /\ sessions' = sessions
  BY <1>1, <1>2, <1>3, AnsweredIsFine, StillStep DEF Inv, SameModes, SameTurns
<1>4. CASE /\ Frees(v) /\ p \in Pane
           /\ OpIs(op.kind, op.s, "evict", p, v, op.native, op.grave, op.resumed, op.todo, op.again)
  <2>1. /\ op'.kind = op.kind /\ op'.s = op.s /\ op'.pc = "evict" /\ op'.pane = p /\ op'.victim = v
        /\ op'.grave = op.grave /\ op'.native = op.native /\ op'.resumed = op.resumed /\ op'.todo = {}
    BY <1>2, <1>4 DEF OpIs
  <2>2. panes[p].session = v /\ "acp" \in panes[p].tags /\ panes[p].st # "new"
    BY <1>1, <1>4, Constants DEF Inv, Owned
  <2>3. \A x \in Session : sessions'[x].pane # p
    <3>1. \A x \in Session : x # v => sessions[x].pane # p
      BY <1>4, <2>2, Constants DEF Inv, Owned
    <3>2. sessions'[v].pane = None /\ \A x \in Session : x # v => sessions'[x] = sessions[x]
      BY <1>4 DEF Frees, OnlySession
    <3> HIDE DEF v, p
    <3> QED BY <1>4, <3>1, <3>2, Constants
  <2>4. \A x \in Session : sessions'[x].st = sessions[x].st /\ sessions'[x].turn = sessions[x].turn
                           /\ sessions'[x].grave = sessions[x].grave
                           /\ sessions'[x].pane \in {sessions[x].pane, None}
    BY <1>4 DEF Frees, OnlySession
  <2> HIDE DEF v, p
  <2>5. OpKinds' /\ OpTodo'
    BY <1>1, <1>2, <2>1 DEF Inv, OpKinds, OpTodo, At
  <2>6. OpSession'
    BY <1>1, <1>2, <2>1, <2>4, OpTypes
       DEF Inv, OpSession, At, Starting, Has, Active, Gone, SessionIds
  <2>7. OpPane'
    BY <1>2, <1>4, <2>1, <2>2, <2>3 DEF OpPane, At, Started, Homeless
  <2>8. Operation'
    BY <2>5, <2>6, <2>7 DEF Operation
  <2>9. \A x \in Session : sessions'[x] = sessions[x] \/ (Has(x) /\ sessions'[x].st = "known")
    BY <1>1, <1>4, <2>4 DEF Frees, OnlySession, Has
  <2>10. TidyHomes /\ KeepsHomes
    BY <2>4, <2>9 DEF TidyHomes, KeepsHomes, Has, Inv, Blank
  <2>11. \A x \in Session : Undisturbed(x)
    BY <1>1, <1>4 DEF Undisturbed, Frees, OnlySession, SameTurns
  <2>12. TidyPanes
    BY <1>1, SamePanes, TypedNow DEF Inv
  <2> QED BY <1>1, <1>2, <2>8, <2>10, <2>11, <2>12, WorkStep DEF SameModes, Settled
<1> QED BY <1>1, <1>3, <1>4

LEMMA EvictFailsStep ==
  ASSUME Inv, EvictFails
  PROVE  Inv'
<1> DEFINE v == op.victim
           p == op.pane
<1>1. /\ op.pc = "evict" /\ v \in Session /\ p \in Pane /\ Answered
      /\ OnlySession(v) /\ sessions'[v].st = sessions[v].st
      /\ sessions'[v].grave = sessions[v].grave /\ sessions'[v].turn = sessions[v].turn
      /\ \/ sessions' = sessions
         \/ sessions[v].pane = None /\ sessions'[v].pane = p
      /\ SameDaemon /\ SameTurns /\ SameModes /\ TypeOK'
  BY EvictFailsDoes
<1>2. op.todo = {} /\ ~At({"rebuild"}) /\ panes' = panes /\ Has(v)
  BY <1>1 DEF Inv, OpTodo, OpSession, At, SameDaemon
<1>3. panes[p].session = v /\ "acp" \in panes[p].tags /\ panes[p].st # "new"
  BY <1>1 DEF Inv, OpPane, At
<1>4. Operation'
  BY <1>1, AnsweredIsFine DEF Inv, SameModes
<1>5. TidyPanes
  BY <1>1, SamePanes, TypedNow DEF Inv
<1> HIDE DEF v, p
<1>6. \A x \in Session : x # v => sessions'[x] = sessions[x]
  BY <1>1 DEF OnlySession
<1>7. sessions'[v].pane = sessions[v].pane \/ Lodges(v, sessions'[v].pane)
  BY <1>1, <1>2, <1>3 DEF Lodges
<1>8. \A x \in Session : Undisturbed(x)
  BY <1>1, <1>6 DEF Undisturbed, SameTurns, Up
<1>9. TidyHomes /\ KeepsHomes
  BY <1>1, <1>2, <1>6, <1>7 DEF TidyHomes, KeepsHomes, Has, Inv, Blank
<1> QED BY <1>1, <1>2, <1>4, <1>5, <1>8, <1>9, WorkStep DEF SameModes, Settled

LEMMA BuryVictimStep ==
  ASSUME Inv, BuryVictim
  PROVE  Inv'
<1>1. /\ op.pc = "bury" /\ op.victim \in Session /\ Captures(op.victim, None)
      /\ OpIs(op.kind, op.s, BuryStep, None, None, op.native, op.grave, op.resumed, op.todo,
              op.again)
      /\ SameDaemon /\ SameTurns /\ SameModes /\ TypeOK'
  BY BuryVictimDoes
<1>2. op.todo = {} /\ ~At({"rebuild"}) /\ mode' = mode /\ panes' = panes /\ deleted' = deleted
      /\ turns' = turns /\ op.kind \notin {"none", "close"}
  BY <1>1 DEF Inv, OpKinds, OpTodo, At, SameModes, SameDaemon, SameTurns
<1>3. \A x \in Session : sessions'[x].st = sessions[x].st /\ sessions'[x].pane = sessions[x].pane
  BY <1>1 DEF Captures, OnlySession
<1>4. /\ op'.kind = op.kind /\ op'.s = op.s /\ op'.pc = BuryStep
      /\ op'.grave = op.grave /\ op'.native = op.native /\ op'.resumed = op.resumed /\ op'.todo = {}
  BY <1>1, <1>2 DEF OpIs
<1>5. BuryStep \in {"start", "adopt", "clear"}
      /\ (BuryStep = "adopt" <=> op.kind = "sweep") /\ (BuryStep = "clear" <=> op.kind = "recover")
  BY DEF BuryStep
<1>6. OpKinds' /\ OpTodo' /\ OpPane'
  BY <1>1, <1>2, <1>4, <1>5 DEF Inv, OpKinds, OpTodo, OpPane, At, Started
<1>7. OpSession'
  BY <1>1, <1>2, <1>3, <1>4, <1>5 DEF Inv, OpSession, At, Starting, Has, Active, Gone
<1>8. Operation'
  BY <1>6, <1>7 DEF Operation
<1>9. TidyPanes /\ TidyHomes /\ KeepsHomes /\ \A x \in Session : Undisturbed(x)
  BY <1>1, SamePanes, CapturedHomes, TypedNow DEF Inv, Up
<1> QED BY <1>1, <1>2, <1>8, <1>9, WorkStep DEF SameModes, Settled

LEMMA CloseForgetsPaneStep ==
  ASSUME Inv, CloseForgetsPane
  PROVE  Inv'
<1>1. /\ op.pc = "gone" /\ op.s \in Session /\ Gone(op.pane) /\ Captures(op.s, op.pane) /\ Answered
      /\ SameDaemon /\ SameTurns /\ SameModes /\ TypeOK'
  BY CloseForgetsPaneDoes
<1>2. op.kind = "close" /\ ~At({"rebuild"}) /\ ~Up(op.pane)
  BY <1>1 DEF Inv, OpKinds, At, Gone, Up
<1>3. Operation'
  BY <1>1, AnsweredIsFine DEF Inv, SameModes
<1>4. TidyPanes /\ TidyHomes /\ KeepsHomes /\ \A x \in Session : Undisturbed(x)
  BY <1>1, <1>2, SamePanes, CapturedHomes, TypedNow DEF Inv
<1> QED BY <1>1, <1>2, <1>3, <1>4, WorkStep DEF SameModes, Settled

\* An operation kills a pane.
LEMMA KillStep ==
  ASSUME Inv, TypeOK', NEW p, Killed(p), SameHomes,
         \A x \in Session : sessions'[x].turn = sessions[x].turn,
         SameTurns, SameModes, Operation', ~At({"rebuild"}), op.kind # "recover" \/ op.todo = {}
  PROVE  Inv'
<1>1. TidyPanes /\ TidyHomes /\ KeepsHomes
  BY KilledPanes, SameHomesTidy, TypedNow DEF Inv
<1>2. \A x \in Session : Undisturbed(x)
  BY DEF SameHomes, Undisturbed, SameTurns
<1> QED BY <1>1, <1>2, WorkStep DEF SameModes, Settled

\* What a kill leaves as it was.
LEMMA KilledIs ==
  ASSUME TypeOK, NEW p, Killed(p)
  PROVE  /\ p \in Pane
         /\ \A q \in Pane : /\ panes'[q].session = panes[q].session /\ panes'[q].tags = panes[q].tags
                            /\ panes[q].st # "new" => panes'[q].st # "new"
                            /\ panes[q].st = "gone" => panes'[q].st = "gone"
<1>1. panes \in [Pane -> Panes] /\ p \in Pane
  BY DEF TypeOK, Killed
<1> QED BY <1>1, Constants DEF Killed, OnlyPane, SameDaemon, Up, Panes

LEMMA EvictPaneStep ==
  ASSUME Inv, EvictPane
  PROVE  Inv'
<1>1. /\ op.pc = "evict" /\ op.pane \in Pane /\ Killed(op.pane) /\ Goes("bury")
      /\ sessions' = sessions /\ SameTurns /\ SameModes /\ TypeOK'
  BY EvictPaneDoes
<1>2. op.todo = {} /\ ~At({"rebuild"}) /\ mode' = mode /\ deleted' = deleted /\ turns' = turns
  BY <1>1 DEF Inv, OpTodo, At, SameModes, SameTurns
<1>3. \A q \in Pane : /\ panes'[q].session = panes[q].session /\ panes'[q].tags = panes[q].tags
                      /\ panes[q].st = "gone" => panes'[q].st = "gone"
  BY <1>1, KilledIs DEF Inv
<1>4. /\ op'.kind = op.kind /\ op'.s = op.s /\ op'.pc = "bury" /\ op'.victim = op.victim
      /\ op'.grave = op.grave /\ op'.native = op.native /\ op'.resumed = op.resumed /\ op'.todo = {}
  BY <1>1, <1>2 DEF Goes, OpIs
<1>5. OpKinds' /\ OpTodo' /\ OpPane'
  BY <1>1, <1>2, <1>4 DEF Inv, OpKinds, OpTodo, OpPane, At, Started
<1>6. OpSession'
  BY <1>1, <1>2, <1>3, <1>4 DEF Inv, OpSession, At, Starting, Has, Active, Gone
<1>7. Operation'
  BY <1>5, <1>6 DEF Operation
<1> QED BY <1>1, <1>2, <1>7, KillStep, SameSessions

LEMMA ClosePaneStep ==
  ASSUME Inv, ClosePane
  PROVE  Inv'
<1>1. /\ op.pc = "close" /\ op.pane \in Pane /\ Killed(op.pane)
      /\ \/ Up(op.pane) /\ Goes("gone")
         \/ ~Up(op.pane) /\ Answered
      /\ SameHomes /\ \A x \in Session : sessions'[x].turn = sessions[x].turn
      /\ SameTurns /\ SameModes /\ TypeOK'
  BY ClosePaneDoes
<1>2. /\ op.kind = "close" /\ op.todo = {} /\ ~At({"rebuild"}) /\ mode' = mode /\ turns' = turns
      /\ op.s \in Session /\ Has(op.s)
  BY <1>1 DEF Inv, OpKinds, OpSession, OpTodo, At, SameModes, SameTurns
<1>3. \A q \in Pane : /\ panes'[q].session = panes[q].session /\ panes'[q].tags = panes[q].tags
                      /\ panes[q].st = "gone" => panes'[q].st = "gone"
  BY <1>1, KilledIs DEF Inv
<1>4. ASSUME Up(op.pane), Goes("gone") PROVE Operation'
  <2>1. /\ op'.kind = "close" /\ op'.s = op.s /\ op'.pc = "gone" /\ op'.pane = op.pane
        /\ op'.grave = op.grave /\ op'.todo = {}
    BY <1>2, <1>4 DEF Goes, OpIs
  <2>2. panes'[op.pane].st = "gone" /\ panes[op.pane].session = op.s /\ "acp" \in panes[op.pane].tags
    BY <1>1, <1>4 DEF Killed, Inv, OpPane, At
  <2>3. sessions'[op.s].st = "known"
    BY <1>1, <1>2 DEF SameHomes, Has
  <2>4. OpKinds' /\ OpTodo'
    BY <1>2, <2>1 DEF Inv, OpKinds, OpTodo, At
  <2>5. OpPane'
    BY <1>1, <1>3, <2>1, <2>2 DEF OpPane, At, Started, Gone
  <2>6. OpSession'
    BY <1>2, <1>3, <2>1, <2>3 DEF Inv, OpSession, At, Has, Active, Gone
  <2> QED BY <2>4, <2>5, <2>6 DEF Operation
<1>5. Operation'
  BY <1>1, <1>4, AnsweredIsFine DEF Inv, SameModes
<1> QED BY <1>1, <1>2, <1>5, KillStep

LEMMA SweepDiscardsStep ==
  ASSUME Inv, NEW p \in Pane, SweepDiscards(p)
  PROVE  Inv'
<1>1. /\ op.pc = "adopt" /\ p \in op.todo /\ Killed(p)
      /\ OpIs(op.kind, op.s, op.pc, op.pane, op.victim, op.native, op.grave, op.resumed,
              op.todo \ {p}, op.again)
      /\ sessions' = sessions /\ SameTurns /\ SameModes /\ TypeOK'
  BY SweepDiscardsDoes
<1>2. op.kind = "sweep" /\ ~At({"rebuild"}) /\ mode' = mode /\ deleted' = deleted /\ strayed' = strayed
  BY <1>1 DEF Inv, OpKinds, At, SameModes
<1>3. \A q \in Pane : /\ panes'[q].session = panes[q].session /\ panes'[q].tags = panes[q].tags
                      /\ panes[q].st # "new" => panes'[q].st # "new"
                      /\ panes[q].st = "gone" => panes'[q].st = "gone"
  BY <1>1, KilledIs DEF Inv
<1>4. /\ op'.kind = "sweep" /\ op'.s = op.s /\ op'.pc = "adopt" /\ op'.grave = op.grave
      /\ op'.todo = op.todo \ {p}
  BY <1>1, <1>2 DEF OpIs
<1>5. OpKinds' /\ OpPane' /\ OpSession'
  BY <1>2, <1>3, <1>4 DEF Inv, OpKinds, OpPane, OpSession, At, Started, Starting, Gone
<1>6. OpTodo'
  BY <1>1, <1>2, <1>3, <1>4, OpTypes DEF Inv, OpTodo, At, Homeless
<1>7. Operation'
  BY <1>5, <1>6 DEF Operation
<1> QED BY <1>1, <1>2, <1>7, KillStep, SameSessions

LEMMA KillStrippedStep ==
  ASSUME Inv, KillStripped
  PROVE  Inv'
<1>1. /\ op.pc = "strip" /\ op.pane \in Pane /\ Killed(op.pane)
      /\ OpIs(op.kind, op.s, "adopt", None, op.victim, op.native, op.grave, op.resumed,
              op.todo \ {op.pane}, op.again)
      /\ sessions' = sessions /\ SameTurns /\ SameModes /\ TypeOK'
  BY KillStrippedDoes
<1>2. op.kind = "sweep" /\ ~At({"rebuild"}) /\ mode' = mode /\ deleted' = deleted /\ strayed' = strayed
  BY <1>1 DEF Inv, OpKinds, At, SameModes
<1>3. \A q \in Pane : /\ panes'[q].session = panes[q].session /\ panes'[q].tags = panes[q].tags
                      /\ panes[q].st # "new" => panes'[q].st # "new"
                      /\ panes[q].st = "gone" => panes'[q].st = "gone"
  BY <1>1, KilledIs DEF Inv
<1>4. /\ op'.kind = "sweep" /\ op'.s = op.s /\ op'.pc = "adopt" /\ op'.grave = op.grave
      /\ op'.todo = op.todo \ {op.pane}
  BY <1>1, <1>2 DEF OpIs
<1>5. OpKinds' /\ OpPane' /\ OpSession'
  BY <1>2, <1>3, <1>4 DEF Inv, OpKinds, OpPane, OpSession, At, Started, Starting, Gone
<1>6. OpTodo'
  BY <1>1, <1>2, <1>3, <1>4, OpTypes DEF Inv, OpTodo, At, Homeless
<1>7. Operation'
  BY <1>5, <1>6 DEF Operation
<1> QED BY <1>1, <1>2, <1>7, KillStep, SameSessions

LEMMA TagFailsStep ==
  ASSUME Inv, TagFails
  PROVE  Inv'
<1>1. /\ op.pc \in {"live", "tag", "mark"} /\ op.pane \in Pane /\ Killed(op.pane) /\ Answered
      /\ sessions' = sessions /\ SameTurns /\ SameModes /\ TypeOK'
  BY TagFailsDoes
<1>2. op.kind # "recover" /\ ~At({"rebuild"})
  BY <1>1 DEF Inv, OpKinds, At
<1>3. Operation'
  BY <1>1, AnsweredIsFine DEF Inv, SameModes
<1> QED BY <1>1, <1>2, <1>3, KillStep, SameSessions

-----------------------------------------------------------------------------
(* Steps of an operation that start, tag and install a pane, or delete.    *)

\* Only the panes change.
LEMMA PanesStep ==
  ASSUME Inv, TypeOK', TidyPanes, sessions' = sessions, SameTurns, mode' = mode,
         deleted' \ strayed' \subseteq Settled, Operation', ~At({"rebuild"}),
         op.kind # "recover"
  PROVE  Inv'
<1>1. TidyHomes /\ KeepsHomes
  BY SameSessions
<1>2. \A x \in Session : Undisturbed(x)
  BY DEF Undisturbed, SameTurns
<1> QED BY <1>1, <1>2, WorkStep

LEMMA RevivePaneStep ==
  ASSUME Inv, NEW q \in Pane, RevivePane(q)
  PROVE  Inv'
<1>1. /\ op.pc = "start" /\ op.grave \in Pane /\ Revives(op.grave, q)
      /\ \/ OpIs(op.kind, op.s, "tag", q, op.victim, op.native, op.grave, TRUE, op.todo, op.again)
         \/ OpIs(op.kind, op.s, op.pc, op.pane, op.victim, op.native, None, op.resumed, op.todo,
                 op.again)
      /\ sessions' = sessions /\ SameTurns /\ SameModes /\ TypeOK'
  BY RevivePaneDoes
<1>2. /\ op.todo = {} /\ ~At({"rebuild"}) /\ mode' = mode /\ deleted' = deleted /\ turns' = turns
      /\ op.kind \in {"resume", "prompt", "delete"} /\ op.s \in Session /\ Has(op.s)
      /\ panes[op.grave].session = op.s
  BY <1>1, OpTypes, Constants
     DEF Inv, OpKinds, OpSession, OpTodo, At, SameModes, SameTurns, OpKind
<1>3. \A p \in Pane : panes[p].st # "new" => panes'[p] = panes[p]
  BY <1>1 DEF Revives, OnlyPane
<1>4. TidyPanes
  BY <1>1, <1>2, RevivedPanes, TypedNow DEF Inv
<1>5. ASSUME OpIs(op.kind, op.s, "tag", q, op.victim, op.native, op.grave, TRUE, op.todo, op.again)
      PROVE  Operation'
  <2>1. /\ op'.kind = op.kind /\ op'.s = op.s /\ op'.pc = "tag" /\ op'.pane = q
        /\ op'.grave = op.grave /\ op'.todo = {}
    BY <1>2, <1>5 DEF OpIs
  <2>2. OpKinds' /\ OpTodo'
    BY <1>2, <2>1 DEF Inv, OpKinds, OpTodo, At
  <2>3. OpSession'
    BY <1>1, <1>2, <1>3, <2>1 DEF Inv, OpSession, At, Starting, Has, Active, Gone
  <2>4. panes'[q].st = "up" /\ panes'[q].session = op.s /\ panes[q].st = "new"
    BY <1>1, <1>2 DEF Revives
  <2>5. \A x \in Session : sessions[x].pane # q
    BY <2>4, Constants DEF Inv, Owned
  <2>6. OpPane'
    BY <1>1, <1>2, <2>1, <2>4, <2>5 DEF OpPane, At, Started, Homeless
  <2> QED BY <2>2, <2>3, <2>6 DEF Operation
<1>6. ASSUME OpIs(op.kind, op.s, op.pc, op.pane, op.victim, op.native, None, op.resumed, op.todo,
                  op.again)
      PROVE  Operation'
  <2>1. /\ op'.kind = op.kind /\ op'.s = op.s /\ op'.pc = "start" /\ op'.grave = None /\ op'.todo = {}
    BY <1>1, <1>2, <1>6 DEF OpIs
  <2>2. OpKinds' /\ OpTodo' /\ OpPane'
    BY <1>2, <2>1 DEF Inv, OpKinds, OpTodo, OpPane, At, Started
  <2>3. OpSession'
    BY <1>1, <1>2, <2>1 DEF Inv, OpSession, At, Starting, Has, Active
  <2> QED BY <2>2, <2>3 DEF Operation
<1> QED BY <1>1, <1>2, <1>4, <1>5, <1>6, PanesStep DEF SameModes, Settled

LEMMA RunPaneStep ==
  ASSUME Inv, NEW q \in Pane, RunPane(q)
  PROVE  Inv'
<1>1. /\ op.pc = "start" /\ op.grave = None /\ Runs(q)
      /\ OpIs(op.kind, op.s, "live", q, op.victim, op.native, op.grave, op.native # None,
              op.todo, op.again)
      /\ sessions' = sessions /\ SameTurns /\ SameModes /\ TypeOK'
  BY RunPaneDoes
<1>2. /\ op.todo = {} /\ ~At({"rebuild"}) /\ mode' = mode /\ deleted' = deleted /\ turns' = turns
      /\ op.kind \in {"new", "resume", "prompt", "delete"}
  BY <1>1, OpTypes DEF Inv, OpKinds, OpTodo, At, SameModes, SameTurns, OpKind
<1>3. /\ \A p \in Pane : p # q => panes'[p] = panes[p]
      /\ panes'[q].st = "up" /\ panes'[q].tags = {} /\ panes'[q].session = None
      /\ panes[q].st = "new" /\ graves' = graves
  BY <1>1 DEF Runs, OnlyPane
<1>4. TidyPanes
  <2>1. Firm
    BY <1>3 DEF Firm, Gone
  <2>2. Digs
    BY <1>3, <2>1, SameDigs, TypedNow DEF Inv
  <2>3. \A p \in Pane : p # q => Stays(p)
    BY <1>3 DEF Stays, Tagged
  <2> QED BY <1>3, <2>1, <2>2, <2>3 DEF TidyPanes, Begins
<1>5. /\ op'.kind = op.kind /\ op'.s = op.s /\ op'.pc = "live" /\ op'.pane = q /\ op'.grave = None
      /\ op'.native = op.native /\ op'.resumed = (op.native # None) /\ op'.todo = {}
  BY <1>1, <1>2 DEF OpIs
<1>6. OpKinds' /\ OpTodo'
  BY <1>2, <1>5 DEF Inv, OpKinds, OpTodo, At
<1>7. OpSession'
  BY <1>1, <1>2, <1>5 DEF Inv, OpSession, At, Starting, Has, Active
<1>8. \A x \in Session : sessions[x].pane # q
  BY <1>3, Constants DEF Inv, Owned
<1>9. OpPane'
  BY <1>1, <1>3, <1>5, <1>8 DEF OpPane, At, Started, Homeless
<1>10. Operation'
  BY <1>6, <1>7, <1>9 DEF Operation
<1> QED BY <1>1, <1>2, <1>4, <1>10, PanesStep DEF SameModes, Settled

\* Of the pane that an operation starts.
LEMMA StartedIs ==
  ASSUME Inv, At(Started)
  PROVE  /\ op.kind \in {"new", "resume", "prompt", "delete"} /\ op.s \in Session /\ op.todo = {}
         /\ op.s \notin Settled
         /\ Has(op.s) \/ (op.kind = "new" /\ op.s \notin deleted)
         /\ op.pane \in Pane /\ panes[op.pane].st # "new" /\ Homeless(op.pane)
         /\ ~At({"rebuild"})
<1>1. op.kind \in {"new", "resume", "prompt", "delete"} /\ op.todo = {} /\ ~At({"rebuild"})
  BY OpTypes DEF Inv, OpKinds, OpTodo, At, OpKind, Started
<1>2. op.s \in Session /\ (Has(op.s) \/ (op.kind = "new" /\ op.s \notin deleted))
  BY <1>1 DEF Inv, OpSession
<1>3. op.s \notin Settled
  BY <1>2 DEF Inv, Deleted, Settled
<1>4. op.pane \in Pane /\ panes[op.pane].st # "new" /\ Homeless(op.pane)
  BY DEF Inv, OpPane, At, Started
<1> QED BY <1>1, <1>2, <1>3, <1>4

\* The pane is tagged, and the operation goes on to pc.
LEMMA TaggedStep ==
  ASSUME Inv, TypeOK', At(Started), NEW pc \in {"tag", "mark", "install"}, Goes(pc),
         Retags(op.pane), Stays(op.pane) \/ Changes(op.pane),
         panes'[op.pane].session \in {None, op.s},
         pc \in {"mark", "install"} =>
           panes'[op.pane].session = op.s /\ "acp" \in panes'[op.pane].tags,
         op.kind = "new" => "resumable" \notin panes'[op.pane].tags,
         sessions' = sessions, SameTurns, SameModes
  PROVE  Inv'
<1>1. /\ op.kind \in {"new", "resume", "prompt", "delete"} /\ op.s \in Session /\ op.todo = {}
      /\ op.pane \in Pane /\ Homeless(op.pane) /\ ~At({"rebuild"})
  BY StartedIs
<1>2. /\ op'.kind = op.kind /\ op'.s = op.s /\ op'.pc = pc /\ op'.pane = op.pane
      /\ op'.grave = op.grave /\ op'.native = op.native /\ op'.resumed = op.resumed /\ op'.todo = {}
      /\ mode' = mode /\ deleted' = deleted /\ turns' = turns
  BY <1>1 DEF Goes, OpIs, SameModes, SameTurns
<1>3. /\ \A p \in Pane : p # op.pane => panes'[p] = panes[p]
      /\ panes[op.pane].st = "up" /\ panes'[op.pane].st = "up"
  BY DEF Retags, OnlyPane, Up
<1>4. OpKinds' /\ OpTodo'
  BY <1>1, <1>2 DEF Inv, OpKinds, OpTodo, At, Started
<1>5. At(Starting)
  BY DEF At, Started, Starting
<1>6. OpSession'
  BY <1>1, <1>2, <1>3, <1>5 DEF Inv, OpSession, At, Has, Active, Gone
<1>7. OpPane'
  BY <1>1, <1>2, <1>3 DEF OpPane, At, Started, Homeless
<1>8. Operation'
  BY <1>4, <1>6, <1>7 DEF Operation
<1>9. TidyPanes
  BY RetaggedPanes, TypedNow DEF Inv
<1> QED BY <1>1, <1>2, <1>8, <1>9, PanesStep DEF SameModes, Settled

\* The pane is gone: the operation fails.
LEMMA UntaggedStep ==
  ASSUME Inv, TypeOK', At(Started), Answered, SameDaemon, sessions' = sessions, SameTurns, SameModes
  PROVE  Inv'
<1>1. TidyPanes
  BY SamePanes, TypedNow DEF Inv
<1>2. Operation'
  BY AnsweredIsFine DEF Inv, SameModes
<1>3. op.kind # "recover" /\ ~At({"rebuild"})
  BY StartedIs
<1> QED BY <1>1, <1>2, <1>3, PanesStep DEF SameModes, Settled

LEMMA PaneLiveStep ==
  ASSUME Inv, PaneLive
  PROVE  Inv'
<1>1. /\ op.pc = "live"
      /\ \/ Answered /\ SameDaemon
         \/ /\ Goes("tag") /\ Retags(op.pane)
            /\ panes'[op.pane].tags = panes[op.pane].tags \cup {"acp"}
            /\ panes'[op.pane].session = panes[op.pane].session
      /\ sessions' = sessions /\ SameTurns /\ SameModes /\ TypeOK'
  BY PaneLiveDoes
<1>2. At(Started) /\ panes[op.pane].session = None /\ panes[op.pane].tags = {}
  BY <1>1 DEF Inv, OpPane, At, Started
<1>4. ASSUME Goes("tag"), panes'[op.pane].tags = panes[op.pane].tags \cup {"acp"},
             panes'[op.pane].session = panes[op.pane].session
      PROVE  Stays(op.pane) /\ op'.pane = op.pane
  <2>1. op'.pane = op.pane
    BY <1>4 DEF Goes, OpIs
  <2> QED BY <1>2, <1>4, <2>1 DEF Stays, Tagged
<1> QED BY <1>1, <1>2, <1>4, TaggedStep, UntaggedStep

LEMMA TagSessionStep ==
  ASSUME Inv, TagSession
  PROVE  Inv'
<1>1. /\ op.pc = "tag"
      /\ \/ Answered /\ SameDaemon
         \/ /\ Goes("mark") /\ Retags(op.pane) /\ op.s \in Session
            /\ panes'[op.pane].tags = panes[op.pane].tags \cup {"acp"}
            /\ panes'[op.pane].session = op.s
      /\ sessions' = sessions /\ SameTurns /\ SameModes /\ TypeOK'
  BY TagSessionDoes
<1>2. At(Started) /\ (op.kind = "new" => "resumable" \notin panes[op.pane].tags)
  BY <1>1 DEF Inv, OpPane, At, Started
<1>3. /\ Homeless(op.pane) /\ op.s \notin Settled
      /\ Has(op.s) \/ op.kind = "new"
  BY <1>2, StartedIs
<1>4. ASSUME Goes("mark"), panes'[op.pane].tags = panes[op.pane].tags \cup {"acp"},
             panes'[op.pane].session = op.s
      PROVE  Changes(op.pane)
  <2>1. op'.pane = op.pane
    BY <1>4 DEF Goes, OpIs
  <2>2. Tagged(op.pane)' => Has(op.s)
    BY <1>2, <1>3, <1>4, <2>1 DEF Tagged
  <2> QED BY <1>3, <1>4, <2>1, <2>2 DEF Changes, Tagged
<1> QED BY <1>1, <1>2, <1>4, TaggedStep, UntaggedStep

LEMMA TagResumableStep ==
  ASSUME Inv, TagResumable
  PROVE  Inv'
<1>1. /\ op.pc = "mark"
      /\ \/ Answered /\ SameDaemon
         \/ /\ Goes("install") /\ Retags(op.pane)
            /\ panes'[op.pane].tags = IF op.resumed THEN panes[op.pane].tags \cup {"resumable"}
                                      ELSE panes[op.pane].tags \ {"resumable"}
            /\ panes'[op.pane].session = panes[op.pane].session
      /\ sessions' = sessions /\ SameTurns /\ SameModes /\ TypeOK'
  BY TagResumableDoes
<1>2. At(Started) /\ (op.kind = "new" => ~op.resumed)
      /\ panes[op.pane].session = op.s /\ "acp" \in panes[op.pane].tags
  BY <1>1 DEF Inv, OpPane, OpSession, At, Started
<1>3. /\ Homeless(op.pane) /\ op.s \notin Settled
      /\ Has(op.s) \/ op.kind = "new"
  BY <1>2, StartedIs
<1>4. ASSUME Goes("install"),
             panes'[op.pane].tags = IF op.resumed THEN panes[op.pane].tags \cup {"resumable"}
                                    ELSE panes[op.pane].tags \ {"resumable"},
             panes'[op.pane].session = panes[op.pane].session
      PROVE  Changes(op.pane) /\ (op.kind = "new" => "resumable" \notin panes'[op.pane].tags)
             /\ "acp" \in panes'[op.pane].tags
  <2>1. op'.pane = op.pane
    BY <1>4 DEF Goes, OpIs
  <2>2. op.kind = "new" => "resumable" \notin panes'[op.pane].tags
    BY <1>2, <1>4
  <2>3. Tagged(op.pane)' => Has(op.s)
    BY <1>3, <2>1, <2>2 DEF Tagged
  <2>4. "acp" \in panes'[op.pane].tags
    BY <1>2, <1>4
  <2> QED BY <1>2, <1>3, <1>4, <2>1, <2>2, <2>3, <2>4 DEF Changes, Tagged
<1> QED BY <1>1, <1>2, <1>4, TaggedStep, UntaggedStep

LEMMA InstallStep ==
  ASSUME Inv, Install
  PROVE  Inv'
<1> DEFINE s == op.s
           p == op.pane
<1>1. /\ op.pc = "install" /\ op.kind \in {"new", "resume", "prompt", "delete"}
      /\ p \in Pane /\ Installs(s, p)
      /\ \/ Answered
         \/ /\ op.kind \in {"prompt", "delete"}
            /\ OpIs(op.kind, s, "use", None, None, None, None, FALSE, {}, op.again)
      /\ SameDaemon /\ SameTurns /\ SameModes /\ TypeOK'
  BY InstallDoes
<1>2. At(Started) /\ At(Starting)
  BY <1>1 DEF At, Started, Starting
<1>3. /\ s \in Session /\ s \notin Settled /\ panes[p].st # "new" /\ op.todo = {} /\ ~At({"rebuild"})
  BY <1>2, StartedIs
<1>4. panes[p].session = s /\ "acp" \in panes[p].tags
  BY <1>1 DEF Inv, OpPane, At
<1>5. Lodges(s, p)
  BY <1>1, <1>3, <1>4 DEF Lodges, SameDaemon
<1>6. sessions[s].pane = None
  BY <1>1, <1>2, <1>3 DEF Inv, OpSession, Blank, Absent
<1>7. mode' = mode /\ turns' = turns /\ deleted' = deleted
  BY <1>1 DEF SameModes, SameTurns
<1>8. ASSUME op.kind \in {"prompt", "delete"},
             OpIs(op.kind, s, "use", None, None, None, None, FALSE, {}, op.again)
      PROVE  Operation'
  <2>1. op'.kind = op.kind /\ op'.s = s /\ op'.pc = "use" /\ op'.grave = None /\ op'.todo = {}
    BY <1>8 DEF OpIs
  <2>2. sessions'[s].st = "known"
    BY <1>1 DEF Installs
  <2>3. OpKinds' /\ OpTodo' /\ OpPane'
    BY <1>7, <1>8, <2>1 DEF Inv, OpKinds, OpTodo, OpPane, At, Started
  <2>4. OpSession'
    BY <1>3, <1>7, <1>8, <2>1, <2>2 DEF Inv, OpSession, At, Starting, Has, Active
  <2> QED BY <2>3, <2>4 DEF Operation
<1>9. Operation'
  BY <1>1, <1>8, AnsweredIsFine DEF Inv, SameModes
<1>10. TidyPanes
  BY <1>1, SamePanes, TypedNow DEF Inv
<1> HIDE DEF s, p
<1>11. TidyHomes /\ KeepsHomes
  BY <1>1, <1>3, <1>5, LodgedHomes
<1>12. \A x \in Session : Undisturbed(x)
  BY <1>1, <1>6 DEF Undisturbed, SameTurns, Installs, OnlySession, Up
<1> QED BY <1>1, <1>3, <1>7, <1>9, <1>10, <1>11, <1>12, WorkStep DEF SameModes, Settled

LEMMA BeginTurnStep ==
  ASSUME Inv, BeginTurn
  PROVE  Inv'
<1> DEFINE s == op.s
<1>1. /\ op.pc = "use" /\ op.kind = "prompt" /\ s \in Session /\ Answered
      /\ \/ sessions' = sessions /\ turns' = turns
         \/ /\ OnlyTurn(s) /\ turns'[s].pc = "sending"
            /\ turns'[s].pane = sessions[s].pane /\ ~turns'[s].cancelled
            /\ sessions[s].pane \in Pane
            /\ SameHomes /\ sessions'[s].turn
            /\ \A x \in Session \ {s} : sessions'[x] = sessions[x]
      /\ SameDaemon /\ stale' = stale /\ SameModes /\ TypeOK'
  BY BeginTurnDoes
<1>2. ~At({"rebuild"}) /\ op.kind # "recover"
  BY <1>1 DEF At
<1>3. Operation'
  BY <1>1, AnsweredIsFine DEF Inv, SameModes
<1>4. TidyPanes
  BY <1>1, SamePanes, TypedNow DEF Inv
<1>5. TidyHomes /\ KeepsHomes
  BY <1>1, SameSessions, SameHomesTidy
<1>6. CASE sessions' = sessions /\ turns' = turns
  <2>1. \A x \in Session : Undisturbed(x)
    BY <1>1, <1>6 DEF Undisturbed
  <2> QED BY <1>1, <1>2, <1>3, <1>4, <1>5, <2>1, WorkStep DEF SameModes, Settled
<1>7. CASE /\ OnlyTurn(s) /\ turns'[s].pc = "sending"
           /\ turns'[s].pane = sessions[s].pane /\ ~turns'[s].cancelled
           /\ sessions[s].pane \in Pane
           /\ SameHomes /\ sessions'[s].turn
           /\ \A x \in Session \ {s} : sessions'[x] = sessions[x]
  <2>1. Firm /\ mode' = mode
    BY <1>1, <1>4 DEF TidyPanes, SameModes
  <2>2. mode # "recovering"
    BY <1>1 DEF Inv, OpKinds
  <2>3. panes[sessions[s].pane].st # "new"
    BY <1>1, <1>7, Constants DEF Inv, Owned
  <2> HIDE DEF s
  <2>4. \A x \in Session : x # s => Undisturbed(x)
    BY <1>1, <1>7 DEF Undisturbed, OnlyTurn
  <2>5. \A x \in Session : x # s => Turning(x)'
    BY <2>1, <2>4, TurnRemains
  <2>6. /\ turns'[s].pc = "sending" /\ turns'[s].pane = sessions[s].pane /\ sessions'[s].turn
        /\ sessions'[s].pane = sessions[s].pane /\ sessions[s].pane \in Pane
        /\ panes' = panes /\ stale' = stale
    BY <1>1, <1>7 DEF SameHomes, SameDaemon
  <2>7. /\ panes'[turns'[s].pane].st # "new"
        /\ stale'[s].pc \in {"kill", "forget"} =>
             stale'[s].pane \in Pane /\ panes'[stale'[s].pane].st = "gone"
    BY <1>1, <2>3, <2>6 DEF Inv, Turning, Gone
  <2>8. \A x \in Session : x = s => Turning(x)'
    BY <2>1, <2>2, <2>6, <2>7 DEF Turning, Active, Gone
  <2>9. \A x \in Session : Turning(x)'
    BY <2>5, <2>8
  <2>10. TidyPast
    BY <1>2, <1>5, <2>1, HomesPast
  <2> QED BY <1>1, <1>2, <1>3, <1>4, <1>5, <2>9, <2>10, AssembleInv DEF SameModes, Settled
<1> QED BY <1>1, <1>6, <1>7

-----------------------------------------------------------------------------
(* Steps that delete a session, sweep a pane, or start over.               *)

LEMMA TombstoneStep ==
  ASSUME Inv, Tombstone
  PROVE  Inv'
<1>1. /\ op.pc = "tombstone" /\ op.s \in Session /\ op.pane \in Pane
      /\ \/ Answered /\ SameDaemon
         \/ /\ Goes("erase") /\ Retags(op.pane)
            /\ panes'[op.pane].tags = panes[op.pane].tags \cup {"deleted"}
            /\ panes'[op.pane].session = panes[op.pane].session
      /\ sessions' = sessions /\ SameTurns /\ mode' = mode /\ deleted' = deleted /\ Strayed
      /\ TypeOK'
  BY TombstoneDoes
<1>2. /\ op.kind = "delete" /\ op.todo = {} /\ ~At({"rebuild"}) /\ turns' = turns
      /\ panes[op.pane].session = op.s /\ "acp" \in panes[op.pane].tags
      /\ sessions[op.s].pane \in {None, op.pane} /\ Has(op.s)
  BY <1>1 DEF Inv, OpKinds, OpSession, OpPane, OpTodo, At, SameTurns
<1>3. deleted' \ strayed' \subseteq Settled
  BY <1>1 DEF Strayed, Settled
<1>4. CASE Answered /\ SameDaemon
  <2>1. TidyPanes /\ Operation'
    BY <1>1, <1>4, SamePanes, AnsweredIsFine, TypedNow DEF Inv
  <2> QED BY <1>1, <1>2, <1>3, <2>1, PanesStep
<1>5. CASE /\ Goes("erase") /\ Retags(op.pane)
           /\ panes'[op.pane].tags = panes[op.pane].tags \cup {"deleted"}
           /\ panes'[op.pane].session = panes[op.pane].session
  <2>1. /\ op'.kind = "delete" /\ op'.s = op.s /\ op'.pc = "erase" /\ op'.pane = op.pane
        /\ op'.grave = op.grave /\ op'.todo = {}
    BY <1>2, <1>5 DEF Goes, OpIs
  <2>2. Stays(op.pane)
    BY <1>5, <2>1 DEF Stays, Tagged
  <2>3. TidyPanes
    BY <1>5, <2>2, RetaggedPanes, TypedNow DEF Inv
  <2>4. \A q \in Pane : q # op.pane => panes'[q] = panes[q]
    BY <1>5 DEF Retags, OnlyPane
  <2>5. panes'[op.pane].st = "up" /\ panes[op.pane].st = "up"
    BY <1>5 DEF Retags, Up
  <2>6. OpKinds' /\ OpTodo'
    BY <1>1, <1>2, <2>1 DEF Inv, OpKinds, OpTodo, At
  <2>7. OpSession'
    BY <1>1, <1>2, <2>1, <2>4, <2>5 DEF Inv, OpSession, At, Starting, Has, Active, Gone
  <2>8. OpPane'
    BY <1>1, <1>2, <1>5, <2>1, <2>5 DEF OpPane, At, Started
  <2>9. Operation'
    BY <2>6, <2>7, <2>8 DEF Operation
  <2> QED BY <1>1, <1>2, <1>3, <2>3, <2>9, PanesStep
<1> QED BY <1>1, <1>4, <1>5

LEMMA SweepStripsStep ==
  ASSUME Inv, NEW p \in Pane, SweepStrips(p)
  PROVE  Inv'
<1>1. /\ op.pc = "adopt" /\ p \in op.todo
      /\ OpIs(op.kind, op.s, "strip", p, op.victim, op.native, op.grave, op.resumed, op.todo,
              op.again)
      /\ \/ SameDaemon /\ ~Up(p)
         \/ /\ Retags(p) /\ panes'[p].tags = panes[p].tags \ {"acp", "resumable"}
            /\ panes'[p].session = None
      /\ sessions' = sessions /\ SameTurns /\ SameModes /\ TypeOK'
  BY SweepStripsDoes
<1>2. op.kind = "sweep" /\ ~At({"rebuild"}) /\ mode' = mode /\ deleted' = deleted
      /\ strayed' = strayed /\ deleted \subseteq Session
  BY <1>1, TypedNow DEF Inv, OpKinds, At, SameModes
<1>3. \A q \in op.todo : /\ q \in Pane /\ panes[q].st # "new" /\ "acp" \in panes[q].tags
                         /\ \A s \in Session : sessions[s].pane # q
                         /\ panes[q].session \notin deleted \ strayed
  BY <1>1, <1>2, OpTypes DEF Inv, OpTodo, At, Homeless
<1>4. TidyPanes
  <2>1. CASE SameDaemon
    BY <2>1, SamePanes, TypedNow DEF Inv
  <2>2. CASE Retags(p) /\ panes'[p].session = None
    <3>1. Changes(p)
      BY <1>1, <1>2, <1>3, <2>2, Constants DEF Changes, Homeless, Settled, Tagged
    <3> QED BY <2>2, <3>1, RetaggedPanes, TypedNow DEF Inv
  <2> QED BY <1>1, <2>1, <2>2
<1>5. \A q \in Pane : /\ q # p => panes'[q] = panes[q]
                      /\ panes[q].st # "new" => panes'[q].st # "new"
                      /\ panes[q].st = "gone" => panes'[q] = panes[q]
                      /\ panes'[q].session \in {None, panes[q].session}
  BY <1>1, Constants DEF SameDaemon, Retags, OnlyPane, Up
<1>6. /\ op'.kind = "sweep" /\ op'.s = op.s /\ op'.pc = "strip" /\ op'.grave = op.grave
      /\ op'.pane = p /\ op'.todo = op.todo
  BY <1>1, <1>2 DEF OpIs
<1>7. OpKinds'
  BY <1>2, <1>6 DEF Inv, OpKinds, At
<1>8. OpSession'
  BY <1>2, <1>5, <1>6 DEF Inv, OpSession, At, Starting, Gone
<1>9. OpPane'
  BY <1>1, <1>3, <1>5, <1>6 DEF OpPane, At, Started, Homeless
<1>10. OpTodo'
  BY <1>1, <1>2, <1>3, <1>5, <1>6, Constants DEF OpTodo, At, Homeless
<1>11. Operation'
  BY <1>7, <1>8, <1>9, <1>10 DEF Operation
<1> QED BY <1>1, <1>2, <1>4, <1>11, PanesStep DEF Settled

LEMMA SweepAdoptsStep ==
  ASSUME Inv, NEW p \in Pane, SweepAdopts(p)
  PROVE  Inv'
<1> DEFINE s == panes[p].session
<1>1. /\ op.pc = "adopt" /\ p \in op.todo /\ s \in Session
      /\ sessions[s].pane = None /\ Installs(s, p)
      /\ OpIs(op.kind, op.s, "lease", p, op.victim, op.native, op.grave, op.resumed, op.todo,
              op.again)
      /\ SameDaemon /\ SameTurns /\ SameModes /\ TypeOK'
  BY SweepAdoptsDoes
<1>2. op.kind = "sweep" /\ ~At({"rebuild"}) /\ mode' = mode /\ deleted' = deleted
      /\ strayed' = strayed /\ panes' = panes
  BY <1>1 DEF Inv, OpKinds, At, SameModes, SameDaemon
<1>3. \A q \in op.todo : /\ q \in Pane /\ panes[q].st # "new" /\ "acp" \in panes[q].tags
                         /\ \A x \in Session : sessions[x].pane # q
                         /\ panes[q].session \notin deleted \ strayed
  BY <1>1, <1>2, OpTypes DEF Inv, OpTodo, At, Homeless
<1>4. Lodges(s, p) /\ s \notin Settled
  BY <1>1, <1>2, <1>3 DEF Lodges, Settled
<1>5. TidyPanes
  BY <1>1, SamePanes, TypedNow DEF Inv
<1> HIDE DEF s
<1>6. TidyHomes /\ KeepsHomes
  BY <1>1, <1>4, LodgedHomes
<1>7. \A x \in Session : x # s => sessions'[x] = sessions[x]
  BY <1>1 DEF Installs, OnlySession
<1>8. sessions'[s].pane = p
  BY <1>1 DEF Installs
<1>9. \A x \in Session : Undisturbed(x)
  BY <1>1, <1>7 DEF Undisturbed, SameTurns, Up
<1>10. /\ op'.kind = "sweep" /\ op'.s = op.s /\ op'.pc = "lease" /\ op'.grave = op.grave
       /\ op'.pane = p /\ op'.todo = op.todo
  BY <1>1, <1>2 DEF OpIs
<1>11. OpKinds' /\ OpSession' /\ OpPane'
  BY <1>2, <1>10 DEF Inv, OpKinds, OpSession, OpPane, At, Started, Starting, Gone
<1>12. \A q \in op.todo : q # p => \A x \in Session : sessions'[x].pane # q
  BY <1>3, <1>7, <1>8
<1>13. OpTodo'
  BY <1>2, <1>3, <1>10, <1>12 DEF OpTodo, At, Homeless
<1>14. Operation'
  BY <1>11, <1>13 DEF Operation
<1> QED BY <1>1, <1>2, <1>5, <1>6, <1>9, <1>14, WorkStep DEF Settled

LEMMA ClearIncompleteStep ==
  ASSUME Inv, NEW p \in Pane, ClearIncomplete(p)
  PROVE  Inv'
<1>1. /\ op.pc = "clear" /\ p \in op.todo
      /\ OpIs(op.kind, op.s, op.pc, op.pane, op.victim, op.native, op.grave, op.resumed,
              op.todo \ {p}, op.again)
      /\ \/ SameDaemon /\ ~Up(p)
         \/ /\ Up(p) /\ OnlyPane(p) /\ panes'[p].st = "gone" /\ graves' = Append(graves, p)
            /\ \/ "deleted" \in panes[p].tags /\ panes'[p].tags = panes[p].tags
                  /\ panes'[p].session = panes[p].session
               \/ panes'[p].session = None
      /\ sessions' = sessions /\ SameTurns /\ SameModes /\ TypeOK'
  BY ClearIncompleteDoes
<1>2. op.kind = "recover" /\ ~At({"rebuild"}) /\ mode' = mode /\ deleted' = deleted
      /\ strayed' = strayed /\ deleted \subseteq Session
  BY <1>1, TypedNow DEF Inv, OpKinds, At, SameModes
<1>3. \A q \in op.todo : /\ q \in Pane /\ panes[q].st # "new" /\ "acp" \in panes[q].tags
                         /\ \A s \in Session : sessions[s].pane # q
  BY <1>1, <1>2, OpTypes DEF Inv, OpTodo, At, Homeless
<1>4. \A q \in Pane : q # p => panes'[q] = panes[q]
  BY <1>1 DEF SameDaemon, OnlyPane
<1>5. TidyPanes
  <2>1. CASE SameDaemon
    BY <2>1, SamePanes, TypedNow DEF Inv
  <2>2. CASE /\ Up(p) /\ OnlyPane(p) /\ panes'[p].st = "gone" /\ graves' = Append(graves, p)
             /\ \/ "deleted" \in panes[p].tags /\ panes'[p].tags = panes[p].tags
                   /\ panes'[p].session = panes[p].session
                \/ panes'[p].session = None
    <3>1. panes[p].st = "up"
      BY <2>2 DEF Up
    <3>2. Firm
      BY <1>4, <2>2, <3>1 DEF Firm, Gone
    <3>3. Digs
      BY <2>2, <3>2, BuryDigs, TypedNow DEF Inv
    <3>4. Stays(p) \/ Changes(p)
      BY <1>1, <1>2, <1>3, <2>2, Constants DEF Stays, Changes, Homeless, Settled, Tagged
    <3>5. \A q \in Pane : q # p => Stays(q)
      BY <1>4 DEF Stays, Tagged
    <3> QED BY <1>4, <3>1, <3>2, <3>3, <3>4, <3>5 DEF TidyPanes
  <2> QED BY <1>1, <2>1, <2>2
<1>6. /\ op'.kind = "recover" /\ op'.s = op.s /\ op'.pc = "clear" /\ op'.grave = op.grave
      /\ op'.pane = op.pane /\ op'.todo = op.todo \ {p}
  BY <1>1, <1>2 DEF OpIs
<1>7. panes'[p].st # "up"
  BY <1>1, Constants DEF SameDaemon, Up
<1>8. OpKinds' /\ OpPane'
  BY <1>2, <1>6 DEF Inv, OpKinds, OpPane, At, Started
<1>9. OpSession'
  BY <1>2, <1>5, <1>6 DEF Inv, OpSession, At, Starting, Gone, TidyPanes, Firm
<1>10. OpTodo'
  BY <1>1, <1>2, <1>3, <1>4, <1>6 DEF OpTodo, At, Homeless
<1>11. Operation'
  BY <1>8, <1>9, <1>10 DEF Operation
<1>12. TidyHomes /\ KeepsHomes
  BY <1>1, SameSessions
<1>13. \A x \in Session : Undisturbed(x)
  BY <1>1 DEF Undisturbed, SameTurns
<1>14. \A q \in op.todo : panes'[q].st = "up" => op'.kind = "recover" /\ q \in op'.todo
  BY <1>6, <1>7
<1> QED BY <1>1, <1>2, <1>5, <1>11, <1>12, <1>13, <1>14, WorkStep DEF Settled

\* A session may be forgotten, as far as its entry goes.
LEMMA FewerHomes ==
  ASSUME Inv, \A s \in Session : sessions'[s] \in {sessions[s], Absent}
  PROVE  TidyHomes
<1> SUFFICES ASSUME NEW s \in Session
             PROVE  /\ Has(s)' \/ sessions'[s] = Absent
                    /\ Has(s)' => Has(s) \/ s \notin Settled
                    /\ sessions'[s].pane \in {sessions[s].pane, None} \/ Lodges(s, sessions'[s].pane)
                    /\ sessions'[s].grave \in {sessions[s].grave, None}
                       \/ Latest(s, sessions'[s].grave)
  BY DEF TidyHomes
<1>1. CASE sessions'[s] = sessions[s]
  BY <1>1 DEF Inv, Blank, Has
<1>2. CASE sessions'[s] = Absent
  <2>1. Absent.st = "absent" /\ Absent.pane = None /\ Absent.grave = None
    BY DEF Absent
  <2> QED BY <1>2, <2>1 DEF Has
<1> QED BY <1>1, <1>2

\* The pane of the session that is deleted becomes its latest grave.
LEMMA ErasedIs ==
  ASSUME Inv, NEW p \in Pane, NEW s \in Session, Killed(p), Up(p), TypeOK',
         panes[p].session = s, {"acp", "deleted"} \subseteq panes[p].tags,
         sessions'[s] = Absent, sessions[s].pane \in {None, p},
         s \in strayed' \/ Strays(s) = {}
  PROVE  Deleted(s)' /\ Entombed(s)'
<1>1. /\ panes'[p].st = "gone" /\ panes'[p].session = s /\ {"acp", "deleted"} \subseteq panes'[p].tags
      /\ graves' = Append(graves, p) /\ graves \in Seq(PaneIds)
      /\ \A q \in Pane : q # p => panes'[q] = panes[q]
  BY TypedNow DEF Inv, Killed, OnlyPane, DaemonOK
<1>2. Entombed(s)'
  BY <1>1 DEF Entombed, Gone
<1>3. sessions'[s].st # "known"
  BY DEF Absent
<1>4. ASSUME s \notin strayed', NEW q \in Pane, panes'[q].st = "up"
      PROVE  panes'[q].session # s
  <2>1. q # p /\ panes'[q] = panes[q]
    BY <1>1, <1>4
  <2>2. Strays(s) = {} /\ Up(q) /\ q # sessions[s].pane
    BY <1>4, <2>1, Constants DEF Up
  <2> QED BY <2>1, <2>2 DEF Strays
<1>5. ASSUME NEW g \in Pane, Latest(s, g)' PROVE "deleted" \in panes'[g].tags
  <2>1. /\ Len(graves) \in Nat /\ DOMAIN graves' = 1..(Len(graves) + 1)
        /\ graves'[Len(graves) + 1] = p
    BY <1>1 DEF PaneIds
  <2>2. PICK i \in GravesOf(s)' : graves'[i] = g /\ \A j \in GravesOf(s)' : j <= i
    BY <1>5 DEF Latest
  <2>3. Len(graves) + 1 \in GravesOf(s)'
    BY <1>1, <2>1, Constants DEF GravesOf
  <2>4. i \in 1..(Len(graves) + 1) /\ Len(graves) + 1 <= i
    BY <2>1, <2>2, <2>3 DEF GravesOf
  <2>5. i = Len(graves) + 1
    BY <2>1, <2>4
  <2> QED BY <1>1, <2>1, <2>2, <2>5
<1>6. Deleted(s)'
  BY <1>3, <1>4, <1>5 DEF Deleted, Has, Up
<1> QED BY <1>2, <1>6

LEMMA ErasePaneStep ==
  ASSUME Inv, ErasePane
  PROVE  Inv'
<1>1. PICK p \in Pane : p = op.pane
  BY ErasePaneDoes
<1>2. PICK s \in Session : s = op.s
  BY ErasePaneDoes
<1>3. /\ op.pc = "erase" /\ Killed(p) /\ Answered
      /\ \/ /\ Up(p) /\ OnlySession(s) /\ sessions'[s] = Absent /\ deleted' = deleted \cup {s}
         \/ ~Up(p) /\ sessions' = sessions /\ deleted' = deleted
      /\ SameTurns /\ mode' = mode /\ Strayed /\ TypeOK'
  BY <1>1, <1>2, ErasePaneDoes
<1>4. /\ op.kind = "delete" /\ op.todo = {} /\ ~At({"rebuild"})
      /\ panes[p].session = s /\ {"acp", "deleted"} \subseteq panes[p].tags
      /\ sessions[s].pane \in {None, p} /\ Has(s)
  BY <1>1, <1>2, <1>3 DEF Inv, OpKinds, OpSession, OpPane, OpTodo, At
<1>5. s \in strayed' \/ Strays(s) = {}
  BY <1>2 DEF ErasePane
<1>6. Operation'
  BY <1>3, AnsweredIsFine DEF Inv
<1>7. TidyPanes
  BY <1>3, KilledPanes, TypedNow DEF Inv
<1>8. CASE ~Up(p) /\ sessions' = sessions /\ deleted' = deleted
  <2>1. deleted' \ strayed' \subseteq Settled
    BY <1>3, <1>8 DEF Strayed, Settled
  <2> QED BY <1>3, <1>4, <1>6, <1>7, <1>8, <2>1, PanesStep
<1>9. CASE Up(p) /\ OnlySession(s) /\ sessions'[s] = Absent /\ deleted' = deleted \cup {s}
  <2>1. Deleted(s)' /\ Entombed(s)'
    BY <1>3, <1>4, <1>5, <1>9, ErasedIs
  <2>2. \A x \in Session : x # s => sessions'[x] = sessions[x]
    BY <1>9 DEF OnlySession
  <2>3. TidyHomes
    BY <1>9, <2>2, FewerHomes
  <2>4. Blank' /\ \A x \in Session : Owned(x)' /\ (x \in Settled => Deleted(x)')
    BY <1>3, <1>7, <2>3, TidyGives
  <2>5. \A x \in Session : Deleted(x)'
    <3> SUFFICES ASSUME NEW x \in Session, x \in deleted' \ strayed' PROVE Deleted(x)'
      BY DEF Deleted
    <3>1. x = s \/ x \in Settled
      BY <1>3, <1>9 DEF Strayed, Settled
    <3> QED BY <2>1, <2>4, <3>1
  <2>6. panes'[p].st = "gone"
    BY <1>3, <1>9 DEF Killed
  <2>7. \A x \in Session : Undisturbed(x)
    BY <1>3, <1>4, <2>2, <2>6, Constants DEF Undisturbed, SameTurns, Up
  <2>8. \A x \in Session : Turning(x)'
    BY <1>3, <1>7, <2>7, TurnRemains DEF TidyPanes
  <2>9. \A x \in Session : Has(x) => Covered(x)'
    BY <2>1, <2>2 DEF Covered, Has
  <2>10. TidyPast
    BY <1>4, <2>9 DEF TidyPast
  <2>11. \A q \in Pane : Kept(q)'
    BY <1>3, <1>4, <1>7, <2>10, TidyKeeps
  <2> QED BY <1>3, <1>6, <2>4, <2>5, <2>8, <2>11 DEF Inv, Operation
<1> QED BY <1>3, <1>8, <1>9

\* The adapter ends: nothing is left but the panes and the graves.
LEMMA EndsStep ==
  ASSUME Inv, TypeOK', TidyPanes, Ends
  PROVE  Inv'
<1>1. \A s \in Session : sessions'[s] = Absent /\ turns'[s] = NoTurn /\ stale'[s] = NoStale
  BY DEF Ends
<1>2. TidyHomes
  BY <1>1, FewerHomes
<1>3. Operation' /\ At({"rebuild"})' /\ deleted' \ strayed' \subseteq Settled
  BY Ended DEF Ends, OpIs, At, Settled
<1>4. \A s \in Session : Turning(s)'
  BY <1>1 DEF Turning, NoTurn, NoStale, Active
<1> QED BY <1>2, <1>3, <1>4, AssembleInv

LEMMA CrashStep ==
  ASSUME Inv, Crash
  PROVE  Inv'
BY CrashDoes, SamePanes, EndsStep, TypedNow DEF Inv

LEMMA ShutdownClosesStep ==
  ASSUME Inv, ShutdownCloses
  PROVE  Inv'
<1>1. PICK closed \in SUBSET Pane : Closes(closed) /\ Ends /\ TypeOK'
  BY ShutdownClosesDoes
<1>2. \A p \in Pane : /\ panes'[p].tags = panes[p].tags /\ panes'[p].session = panes[p].session
                      /\ p \notin closed => panes'[p] = panes[p]
                      /\ p \in closed => panes'[p].st = "gone" /\ panes[p].st = "up"
  BY <1>1 DEF Closes, Up
<1>3. Firm
  BY <1>2 DEF Firm, Gone
<1>4. PICK t \in Seq(closed) : graves' = graves \o t
  BY <1>1 DEF Closes
<1>5. \A p \in closed : Up(p) /\ panes'[p].st = "gone"
  BY <1>1 DEF Closes
<1>6. DaemonOK /\ graves \in Seq(PaneIds)
  BY TypedNow DEF Inv, DaemonOK
<1>7. Digs
  BY <1>3, <1>4, <1>5, <1>6, AppendGrows
<1>8. \A p \in Pane : Stays(p) /\ (panes[p].st = "new" => panes'[p].st = "new")
  BY <1>2 DEF Stays, Tagged
<1>9. TidyPanes
  BY <1>3, <1>7, <1>8 DEF TidyPanes
<1> QED BY <1>1, <1>9, EndsStep

LEMMA RebuildStep ==
  ASSUME Inv, Rebuild
  PROVE  Inv'
<1>1. PICK whole \in SUBSET InScope :
        /\ op.pc = "rebuild" /\ Adopts(whole)
        /\ \A p \in InScope : p \in whole <=> Complete(p)
        /\ OpIs(op.kind, op.s, "clear", op.pane, op.victim, op.native, op.grave, op.resumed,
                InScope \ whole, op.again)
        /\ SameTurns /\ SameModes /\ TypeOK'
  BY RebuildDoes
<1>2. /\ op.kind = "recover" /\ At({"rebuild"}) /\ mode = "recovering" /\ mode' = mode
      /\ deleted' = deleted /\ strayed' = strayed /\ turns' = turns /\ stale' = stale
  BY <1>1 DEF Inv, OpKinds, At, SameModes, SameTurns
<1>3. \A p \in Pane : /\ panes'[p] = panes[p] \/ (p \in whole /\ Names(p))
                      /\ panes'[p].st = panes[p].st
                      /\ p \notin whole => panes'[p] = panes[p]
                      /\ p \in whole => panes[p].st = "up" /\ "acp" \in panes'[p].tags
  <2>1. \A p \in Pane : panes'[p] = panes[p] \/ (p \in whole /\ Names(p))
    BY <1>1 DEF Adopts
  <2>2. \A p \in whole : panes[p].st = "up" /\ "acp" \in panes[p].tags
    BY DEF InScope, Up
  <2> QED BY <2>1, <2>2 DEF Names
<1>4. Firm
  BY <1>3 DEF Firm, Gone
<1>5. graves' = graves /\ DaemonOK /\ TypeOK
  BY <1>1, TypedNow DEF Adopts, Inv
<1>6. Digs
  BY <1>4, <1>5, SameDigs
<1>7. \A p \in Pane : Names(p) => Changes(p)
  <2> SUFFICES ASSUME NEW p \in Pane, Names(p) PROVE Changes(p)
    OBVIOUS
  <2>1. Homeless(p)
    BY Constants DEF Names, Homeless, Inv, Owned
  <2>2. panes'[p].session \notin Settled
    BY DEF Names, FreshIds, Settled
  <2> QED BY <1>2, <2>1, <2>2 DEF Changes
<1>8. TidyPanes
  <2>1. \A p \in Pane : panes'[p] = panes[p] => Stays(p)
    BY DEF Stays, Tagged
  <2>2. \A p \in Pane : Stays(p) \/ Changes(p)
    BY <1>3, <1>7, <2>1
  <2> QED BY <1>3, <1>4, <1>6, <2>2 DEF TidyPanes
<1>9. \A p \in whole : /\ p \in Pane
                       /\ Recovered(p).st = "known" /\ Recovered(p).pane = p
                       /\ Recovered(p).grave = None
  BY <1>5, RecoveredIs DEF InScope
<1>10. ASSUME NEW s \in Session
       PROVE  \/ sessions'[s] = FromGrave(s)
              \/ \E p \in whole : sessions'[s] = Recovered(p) /\ panes'[p].session = s
  BY <1>1 DEF Adopts
<1>11. ASSUME NEW s \in Session, NEW p \in whole, panes'[p].session = s
       PROVE  s \notin Settled
  <2>1. p \in Pane
    BY <1>9
  <2>2. CASE Names(p)
    BY <1>7, <1>11, <2>1, <2>2 DEF Changes
  <2>3. CASE panes'[p] = panes[p]
    <3>1. Up(p)
      BY DEF InScope
    <3> QED BY <1>11, <2>1, <2>3, <3>1 DEF Inv, Deleted, Settled
  <2> QED BY <1>3, <2>1, <2>2, <2>3
<1>12. TidyHomes
  <2> SUFFICES ASSUME NEW s \in Session
               PROVE  /\ Has(s)' \/ sessions'[s] = Absent
                      /\ Has(s)' => Has(s) \/ s \notin Settled
                      /\ sessions'[s].pane \in {sessions[s].pane, None}
                         \/ Lodges(s, sessions'[s].pane)
                      /\ sessions'[s].grave \in {sessions[s].grave, None}
                         \/ Latest(s, sessions'[s].grave)
    BY DEF TidyHomes
  <2>1. CASE sessions'[s] = FromGrave(s)
    <3>1. FromGrave(s) \in Entries /\ FromGrave(s).pane = None
      BY <1>5, FromGraveIs
    <3>2. CASE FromGrave(s) = Absent
      <4>1. Absent.st = "absent" /\ Absent.pane = None /\ Absent.grave = None
        BY DEF Absent
      <4> QED BY <2>1, <3>2, <4>1 DEF Has
    <3>3. CASE /\ FromGrave(s).st = "known" /\ Latest(s, FromGrave(s).grave)
               /\ "deleted" \notin panes[FromGrave(s).grave].tags
      <4>1. FromGrave(s).grave \in Pane
        BY <1>5, <3>3, LatestIs
      <4>2. s \notin Settled
        BY <3>3, <4>1 DEF Inv, Deleted, Settled
      <4> QED BY <2>1, <3>1, <3>3, <4>2 DEF Has
    <3> QED BY <1>5, <3>2, <3>3, FromGraveIs
  <2>2. CASE \E p \in whole : sessions'[s] = Recovered(p) /\ panes'[p].session = s
    <3>1. PICK p \in whole : sessions'[s] = Recovered(p) /\ panes'[p].session = s
      BY <2>2
    <3>2. s \notin Settled
      BY <1>11, <3>1
    <3>3. p \in Pane /\ Recovered(p).st = "known" /\ Recovered(p).pane = p /\ Recovered(p).grave = None
      BY <1>9
    <3>4. Lodges(s, p)
      BY <1>3, <3>1, <3>3 DEF Lodges
    <3> QED BY <3>1, <3>2, <3>3, <3>4 DEF Has
  <2> QED BY <1>10, <2>1, <2>2
<1>13. \A s \in Session : Turning(s)'
  <2>1. \A s \in Session : ~Active(s)
    BY <1>2 DEF Inv, Turning, Active
  <2>2. \A s \in Session : Undisturbed(s)
    BY <1>2, <2>1 DEF Undisturbed
  <2> QED BY <1>2, <1>4, <2>2, TurnRemains
<1>14. /\ op'.kind = "recover" /\ op'.s = op.s /\ op'.pc = "clear" /\ op'.grave = op.grave
       /\ op'.todo = InScope \ whole
  BY <1>1, <1>2 DEF OpIs
<1>15. Operation'
  <2>1. OpKinds' /\ OpPane'
    BY <1>2, <1>14 DEF Inv, OpKinds, OpPane, At, Started
  <2>2. OpSession'
    BY <1>2, <1>4, <1>14 DEF Inv, OpSession, At, Starting, Gone, Firm
  <2>3. ASSUME NEW p \in InScope, p \notin whole
        PROVE  /\ p \in Pane /\ panes'[p].st # "new" /\ "acp" \in panes'[p].tags
               /\ \A s \in Session : sessions'[s].pane # p
    <3>1. p \in Pane /\ panes'[p] = panes[p] /\ panes[p].st = "up" /\ "acp" \in panes[p].tags
      BY <1>3, <2>3 DEF InScope, Up
    <3>2. ASSUME NEW s \in Session PROVE sessions'[s].pane # p
      <4>1. sessions'[s] = FromGrave(s) => sessions'[s].pane = None
        BY <1>5, FromGraveIs
      <4>2. \A q \in whole : sessions'[s] = Recovered(q) => sessions'[s].pane = q
        BY <1>9
      <4> QED BY <1>10, <2>3, <3>1, <4>1, <4>2, Constants
    <3> QED BY <3>1, <3>2
  <2>4. OpTodo'
    BY <1>14, <2>3 DEF OpTodo, At, Homeless
  <2> QED BY <2>1, <2>2, <2>4 DEF Operation
<1>16. \A s \in Session : /\ sessions'[s].st = "known" => Covered(s)'
                          /\ Entombed(s) => Covered(s)'
  BY <1>4 DEF Covered, Has, Entombed, Firm, Gone
<1>17. ASSUME NEW p \in Pane, Tagged(p)'
       PROVE  Kept(p)'
  <2>1. PICK s \in Session : s = panes'[p].session
    BY <1>1, <1>17, TypedNow DEF Tagged, TypeOK, Panes, SessionIds
  <2>2. ASSUME panes'[p].st = "up"
        PROVE  \/ Covered(s)'
               \/ op'.kind = "recover" /\ "deleted" \in panes'[p].tags /\ p \in op'.todo
    <3>1. CASE p \in whole
      BY <1>1, <1>16, <2>1, <3>1 DEF Adopts
    <3>2. CASE p \notin whole
      <4>1. panes'[p] = panes[p] /\ Up(p)
        BY <1>3, <2>2, <3>2, Constants DEF Up
      <4>2. Tagged(p)
        BY <1>17, <4>1 DEF Tagged
      <4>3. p \in InScope
        BY <4>1, <4>2 DEF InScope, Tagged
      <4>4. "deleted" \in panes[p].tags
        BY <1>1, <3>2, <4>2, <4>3 DEF Complete, Tagged
      <4> QED BY <1>14, <3>2, <4>1, <4>3, <4>4
    <3> QED BY <3>1, <3>2
  <2>3. ASSUME panes'[p].bound, Latest(s, p)'
        PROVE  Covered(s)'
    <3>1. \A i \in DOMAIN graves : graves[i] # None => /\ graves[i] \in Pane /\ Gone(graves[i])
                                                       /\ panes'[graves[i]] = panes[graves[i]]
      BY <1>4, <1>5 DEF DaemonOK, PaneIds, Range, Firm, Gone
    <3>2. GravesOf(s)' = GravesOf(s)
      BY <1>5, <3>1 DEF GravesOf
    <3>3. Latest(s, p)
      BY <1>5, <2>3, <3>2 DEF Latest
    <3>4. Gone(p) /\ panes[p].session = s /\ panes'[p] = panes[p]
      BY <1>4, <1>5, <3>3, LatestIs DEF Firm
    <3>5. Whole(p)
      BY <1>17, <2>3, <3>4 DEF Whole, Tagged
    <3>6. CASE "deleted" \in panes[p].tags
      BY <1>16, <3>4, <3>6 DEF Entombed
    <3>7. CASE "deleted" \notin panes[p].tags
      <4>1. FromGrave(s).st = "known"
        BY <1>5, <3>3, <3>5, <3>7, FromGraveIs
      <4>2. sessions'[s].st = "known"
        BY <1>9, <1>10, <4>1
      <4> QED BY <1>16, <4>2
    <3> QED BY <3>6, <3>7
  <2> QED BY <2>1, <2>2, <2>3 DEF Kept, Up
<1>18. \A p \in Pane : Kept(p)'
  <2>1. \A p \in Pane : ~Tagged(p)' => Kept(p)'
    BY DEF Tagged, Kept
  <2> QED BY <1>17, <2>1
<1>19. Blank' /\ \A s \in Session : Owned(s)' /\ Deleted(s)'
  <2>1. Blank' /\ \A s \in Session : Owned(s)' /\ (s \in Settled => Deleted(s)')
    BY <1>1, <1>8, <1>12, TidyGives
  <2>2. \A s \in Session : s \notin Settled => Deleted(s)'
    BY <1>2 DEF Settled, Deleted
  <2> QED BY <2>1, <2>2
<1> QED BY <1>1, <1>13, <1>15, <1>18, <1>19 DEF Inv, Operation

-----------------------------------------------------------------------------
(* The invariant holds of every behaviour.                                 *)

\* Initially there is nothing.
LEMMA InitInv == Init => Inv
<1> SUFFICES ASSUME Init PROVE Inv
  OBVIOUS
<1>1. /\ \A p \in Pane : panes[p] = NoPane
      /\ graves = <<>> /\ deleted = {} /\ strayed = {} /\ mode = "serving"
      /\ \A s \in Session : sessions[s] = Absent /\ turns[s] = NoTurn /\ stale[s] = NoStale
      /\ OpKinds /\ op.grave = None /\ op.pc = "idle" /\ op.kind = "none" /\ op.todo = {}
  BY DEF Init, Idle, OpKinds, At
<1>2. TypeOK
  <2>1. NoPane \in Panes /\ Absent \in Entries /\ NoTurn \in Turns /\ NoStale \in Stales
    BY
       DEF NoPane, Panes, Absent, Entries, NoTurn, Turns, NoStale, Stales, PaneIds,
           SessionIds
  <2>2. Idle \in Ops
    BY DEF Idle, Ops, OpKind, OpStep, PaneIds, SessionIds
  <2>3. <<>> \in Seq(PaneIds) /\ Range(<<>>) = {}
    BY DEF Range
  <2> QED BY <2>1, <2>2, <2>3 DEF Init, TypeOK
<1>3. Blank
  BY <1>1 DEF Blank
<1>4. OpSession /\ OpPane /\ OpTodo
  BY <1>1 DEF OpSession, OpPane, OpTodo, At, Starting, Started
<1>5. \A s \in Session : Owned(s) /\ Deleted(s) /\ Turning(s)
  BY <1>1 DEF Owned, Deleted, Turning, Absent, NoTurn, NoStale, Active
<1>6. \A p \in Pane : Kept(p)
  BY <1>1 DEF Kept, NoPane
<1> QED BY <1>1, <1>2, <1>3, <1>4, <1>5, <1>6 DEF Inv

\* Each step of the operation that holds session_creation keeps the invariant.
LEMMA WorkKeeps == Inv /\ Work => Inv'
<1> SUFFICES ASSUME Inv, Work PROVE Inv'
  OBVIOUS
<1>1. CASE EnsureResident \/ MakeRoom \/ TakeVictim \/ EvictPane \/ EvictFails \/ BuryVictim
  BY <1>1, EnsureResidentStep, MakeRoomStep, TakeVictimStep, EvictPaneStep, EvictFailsStep,
     BuryVictimStep
<1>2. CASE ReviveFails \/ RunFails \/ PaneLive \/ TagSession \/ TagResumable \/ TagFails \/ Install
  BY <1>2, ReviveFailsStep, RunFailsStep, PaneLiveStep, TagSessionStep, TagResumableStep,
     TagFailsStep, InstallStep
<1>3. CASE BeginTurn \/ UseDeleted \/ Tombstone \/ ErasePane \/ ClosePane \/ CloseForgetsPane
  BY <1>3, BeginTurnStep, UseDeletedStep, TombstoneStep, ErasePaneStep, ClosePaneStep,
     CloseForgetsPaneStep
<1>4. CASE SweepLists \/ KillStripped \/ LeaseAdopted \/ Trim \/ IdleTimeout \/ Rebuild
  BY <1>4, SweepListsStep, KillStrippedStep, LeaseAdoptedStep, TrimStep, IdleTimeoutStep,
     RebuildStep
<1>5. ASSUME NEW p \in Pane, RevivePane(p) \/ RunPane(p) \/ SweepDiscards(p)
      PROVE  Inv'
  BY <1>5, RevivePaneStep, RunPaneStep, SweepDiscardsStep
<1>6. ASSUME NEW p \in Pane, SweepStrips(p) \/ SweepAdopts(p) \/ ClearIncomplete(p)
      PROVE  Inv'
  BY <1>6, SweepStripsStep, SweepAdoptsStep, ClearIncompleteStep
<1> QED BY <1>1, <1>2, <1>3, <1>4, <1>5, <1>6 DEF Work

\* So does everything else.
LEMMA NextInv == Inv /\ [Next]_vars => Inv'
<1> SUFFICES ASSUME Inv, [Next]_vars PROVE Inv'
  OBVIOUS
<1>1. CASE Work
  BY <1>1, WorkKeeps
<1>2. CASE Sweep \/ Crash \/ ShutdownCloses
  BY <1>2, SweepStep, CrashStep, ShutdownClosesStep
<1>3. ASSUME NEW s \in Session, Request(s) \/ PromptAgain(s) \/ Clearing(s)
      PROVE  Inv'
  BY <1>3, NewStep, ResumeStep, PromptStep, DeleteStep, CloseStep, PromptAgainStep,
     StaleKillsStep, StaleForgetsPaneStep DEF Request, Clearing
<1>4. ASSUME NEW s \in Session, Turn(s)
      PROVE  Inv'
  BY <1>4, ActiveTurnSteps, TurnMarksStep, TurnLosesPaneStep, ReleaseSteps DEF Turn
<1>5. ASSUME NEW p \in Pane, PaneDies(p) \/ Bind(p)
      PROVE  Inv'
  BY <1>5, PaneDiesStep, BindStep
<1>6. ASSUME NEW g \in Pane, NEW q \in Pane, SomebodyRevives(g, q)
      PROVE  Inv'
  BY <1>6, SomebodyRevivesStep
<1>7. CASE UNCHANGED vars
  <2>1. SameDaemon /\ sessions' = sessions /\ op' = op /\ SameTurns /\ SameModes /\ maint' = maint
    BY <1>7 DEF vars, daemonVars, turnVars, ghostVars, SameDaemon, SameTurns, SameModes
  <2>2. TypeOK' /\ TidyPanes
    BY <2>1, TypedNow, TypedNext, SameTyped, SamePanes DEF Inv, SameTurns, SameModes
  <2>3. \A p \in Pane : panes'[p].session = panes[p].session /\ panes'[p].tags = panes[p].tags
    BY <2>1 DEF SameDaemon
  <2> QED BY <2>1, <2>2, <2>3, OutsideStep
<1> QED BY <1>1, <1>2, <1>3, <1>4, <1>5, <1>6, <1>7 DEF Next

\* The inductive invariant.
LEMMA Invariant == Spec => []Inv
<1> QED BY InitInv, NextInv, PTL DEF Spec

-----------------------------------------------------------------------------
(* What follows from it.                                                   *)

\* Panes, graves, sessions, turns and the operation keep their types, and a
\* grave is always of a pane that is gone.
\* The state of panes, launches and hook handlers has its type, and a launch has
\* a pane exactly from its spawn on.
THEOREM TypeCorrect == Spec => []TypeOK
<1>1. Inv => TypeOK
  BY DEF Inv
<1> QED BY <1>1, Invariant, PTL

\* A session that session/delete removed does not come back, through crashes
\* and restarts of the adapter, its older graves, sweeps and panes that somebody
\* revives, unless another pane of it was up as it was deleted (readme.md:1568).
THEOREM DeletedStays == Spec => []DeletedStaysDeleted
<1>1. Inv => DeletedStaysDeleted
  BY DEF Inv, Blank, Deleted, DeletedStaysDeleted, TypeOK
<1> QED BY <1>1, Invariant, PTL

\* Whenever the adapter is free to serve, each session that a live pane or the
\* latest of its graves can bring back is one it knows, or one that was deleted
\* (readme.md:1583).
THEOREM NothingIsLost == Spec => []NothingLost
<1>1. ASSUME Inv, Free, NEW p \in Pane, Recoverable(p)
      PROVE  panes[p].session \in Known \cup Tombstones
  <2>1. TypeOK /\ op.kind = "none" /\ Kept(p)
    BY <1>1 DEF Inv, Free, OpKinds, At
  <2>2. PICK s \in Session : s = panes[p].session
    BY <1>1, <2>1 DEF Recoverable, TypeOK, Panes, SessionIds
  <2>3. {"acp", "resumable"} \subseteq panes[p].tags /\ panes[p].bound /\ s # None
    BY <1>1, <2>2 DEF Recoverable, Whole
  <2>4. Covered(s)
    <3>1. Up(p) \/ (p \in Range(graves) /\ p = LatestGrave(s))
      BY <1>1, <2>2 DEF Recoverable
    <3>2. Up(p) => Covered(s)
      BY <2>1, <2>2, <2>3 DEF Kept
    <3>3. p \in Range(graves) /\ p = LatestGrave(s) => Covered(s)
      <4> SUFFICES ASSUME p \in Range(graves), p = LatestGrave(s) PROVE Covered(s)
        OBVIOUS
      <4>1. PICK i \in DOMAIN graves : graves[i] = p
        BY DEF Range
      <4>2. i \in GravesOf(s)
        BY <2>2, <2>3, <4>1, Constants DEF GravesOf
      <4>3. Latest(s, p)
        BY <2>1, <4>2, LatestIs
      <4> QED BY <2>1, <2>2, <2>3, <4>3 DEF Kept
    <3> QED BY <3>1, <3>2, <3>3
  <2>5. Has(s) => s \in Known
    BY DEF Has, Known, Absent
  <2>6. Entombed(s) => s \in Tombstones
    BY DEF Entombed, Tombstones
  <2> QED BY <2>2, <2>4, <2>5, <2>6 DEF Covered
<1>2. Inv => NothingLost
  BY <1>1 DEF NothingLost
<1> QED BY <1>2, Invariant, PTL

\* A turn that goes on has its pane to itself.
InTurn(s) == Active(s) /\ ~turns[s].cancelled /\ Up(turns[s].pane)

\* Such a turn is of no operation that deletes or closes.
LEMMA TurnHas ==
  ASSUME Inv, NEW s \in Session, InTurn(s)
  PROVE  /\ turns[s].pane \in Pane /\ ~Homeless(turns[s].pane)
         /\ panes[turns[s].pane].session = s /\ mode # "recovering"
         /\ ~(op.kind \in {"delete", "close"} /\ op.s = s)
<1>1. turns[s].pane \in Pane /\ sessions[s].pane = turns[s].pane /\ mode # "recovering"
  BY DEF Inv, Turning, InTurn, Active
<1>2. panes[turns[s].pane].session = s
  BY <1>1, Constants DEF Inv, Owned
<1>3. ~(op.kind \in {"delete", "close"} /\ op.s = s)
  BY DEF Inv, OpSession, InTurn
<1> QED BY <1>1, <1>2, <1>3 DEF Homeless

\* The panes that are up stay up, but for those that Spared excepts.
Spared(S) == \A p \in Pane \ S : panes[p].st = "up" => panes'[p].st # "gone"

\* A step kills no pane but the one it names.
LEMMA WhoSpares ==
  /\ SameDaemon => Spared({})
  /\ \A p \in Pane : Killed(p) => Spared({p})
  /\ \A g, q \in Pane : Revives(g, q) => Spared({})
  /\ \A p \in Pane : Runs(p) \/ Retags(p) => Spared({})
<1>1. SameDaemon => Spared({})
  BY DEF SameDaemon, Spared
<1>2. \A p \in Pane : Killed(p) => Spared({p})
  BY DEF Killed, OnlyPane, Spared
<1>3. \A g, q \in Pane : Revives(g, q) => Spared({})
  BY DEF Revives, OnlyPane, Spared
<1>4. \A p \in Pane : Runs(p) \/ Retags(p) => Spared({})
  BY DEF Runs, Retags, OnlyPane, Spared
<1> QED BY <1>1, <1>2, <1>3, <1>4

\* The operation that holds session_creation kills no pane of such a turn.
LEMMA WorkSpares ==
  ASSUME Inv, Work, NEW s \in Session, InTurn(s)
  PROVE  panes'[turns[s].pane].st # "gone"
<1>0. PICK p \in Pane : p = turns[s].pane
  BY TurnHas
<1> SUFFICES panes'[p].st # "gone"
  BY <1>0
<1>1. /\ p \in Pane /\ ~Homeless(p) /\ panes[p].session = s /\ mode # "recovering"
      /\ ~(op.kind \in {"delete", "close"} /\ op.s = s) /\ panes[p].st = "up"
  BY <1>0, TurnHas DEF InTurn, Up
<1>2. Spared({}) => panes'[p].st # "gone"
  BY <1>1 DEF Spared
<1>3. ASSUME NEW q \in Pane, Spared({q}), Homeless(q) \/ panes[q].session # s
      PROVE  panes'[p].st # "gone"
  BY <1>1, <1>3 DEF Spared
<1>4. CASE \/ EnsureResident \/ MakeRoom \/ TakeVictim \/ EvictFails \/ BuryVictim \/ ReviveFails
           \/ RunFails
  BY <1>2, <1>4, EnsureResidentDoes, MakeRoomDoes, TakeVictimDoes, EvictFailsDoes,
     BuryVictimDoes,
     ReviveFailsDoes, RunFailsDoes, WhoSpares
<1>5. CASE BeginTurn \/ UseDeleted \/ CloseForgetsPane \/ SweepLists \/ LeaseAdopted \/ Trim \/ IdleTimeout
  BY <1>2, <1>5, BeginTurnDoes, UseDeletedDoes, CloseForgetsPaneDoes, SweepListsDoes,
     LeaseAdoptedDoes, TrimDoes, IdleTimeoutDoes, WhoSpares
<1>6. CASE PaneLive \/ TagSession \/ TagResumable \/ Install
  <2>1. SameDaemon \/ Retags(op.pane)
    BY <1>6, PaneLiveDoes, TagSessionDoes, TagResumableDoes, InstallDoes
  <2> QED BY <1>2, <2>1, WhoSpares DEF Retags
<1>7. CASE Tombstone
  <2>1. SameDaemon \/ Retags(op.pane)
    BY <1>7, TombstoneDoes
  <2> QED BY <1>2, <2>1, WhoSpares DEF Retags
<1>8. CASE EvictPane \/ TagFails \/ KillStripped
  <2>1. op.pane \in Pane /\ Killed(op.pane) /\ op.pc \in {"evict", "live", "tag", "mark", "strip"}
    BY <1>8, EvictPaneDoes, TagFailsDoes, KillStrippedDoes
  <2>2. Homeless(op.pane)
    BY <2>1 DEF Inv, OpPane, At, Started
  <2> QED BY <1>3, <2>1, <2>2, WhoSpares
<1>9. CASE ErasePane \/ ClosePane
  <2>1. op.pane \in Pane /\ Killed(op.pane) /\ op.pc \in {"erase", "close"}
    BY <1>9, ErasePaneDoes, ClosePaneDoes
  <2>2. op.kind \in {"delete", "close"} /\ panes[op.pane].session = op.s
    BY <2>1 DEF Inv, OpKinds, OpPane, At
  <2> QED BY <1>1, <1>3, <2>1, <2>2, WhoSpares
<1>10. CASE Rebuild
  BY <1>1, <1>10, RebuildDoes DEF Inv, OpKinds, At
<1>11. ASSUME NEW q \in Pane, RevivePane(q) \/ RunPane(q) \/ SweepStrips(q) \/ SweepAdopts(q)
       PROVE  panes'[p].st # "gone"
  BY <1>2, <1>11, RevivePaneDoes, RunPaneDoes, SweepStripsDoes, SweepAdoptsDoes, WhoSpares
<1>12. ASSUME NEW q \in Pane, SweepDiscards(q)
       PROVE  panes'[p].st # "gone"
  <2>1. op.pc = "adopt" /\ q \in op.todo /\ Killed(q)
    BY <1>12, SweepDiscardsDoes
  <2>2. Homeless(q)
    BY <2>1 DEF Inv, OpTodo, At
  <2> QED BY <1>3, <2>1, <2>2, WhoSpares
<1>13. ASSUME NEW q \in Pane, ClearIncomplete(q)
       PROVE  FALSE
  BY <1>1, <1>13, ClearIncompleteDoes DEF Inv, OpKinds, At
<1> QED
  BY <1>4, <1>5, <1>6, <1>7, <1>8, <1>9, <1>10, <1>11, <1>12, <1>13 DEF Work

\* Nor does anything else, but the pane itself and an orderly shutdown.
LEMMA OthersSpare ==
  ASSUME Inv, Next, ~Work, ~ShutdownCloses, NEW s \in Session, InTurn(s),
         ~PaneDies(turns[s].pane)
  PROVE  panes'[turns[s].pane].st # "gone"
<1>0. PICK p \in Pane : p = turns[s].pane
  BY TurnHas
<1> SUFFICES panes'[p].st # "gone"
  BY <1>0
<1>1. p \in Pane /\ panes[p].st = "up"
  BY <1>0, TurnHas DEF InTurn, Up
<1>2. Spared({}) => panes'[p].st # "gone"
  BY <1>1 DEF Spared
<1>3. CASE Sweep \/ Crash
  BY <1>2, <1>3, SweepDoes, CrashDoes, WhoSpares
<1>4. ASSUME NEW x \in Session, Request(x) \/ PromptAgain(x)
      PROVE  panes'[p].st # "gone"
  BY <1>2, <1>4, NewDoes, ResumeDoes, PromptDoes, PromptAgainDoes, DeleteDoes, CloseDoes,
     WhoSpares
     DEF Request
<1>5. ASSUME NEW x \in Session, Clearing(x)
      PROVE  panes'[p].st # "gone"
  BY <1>2, <1>5, StaleKillsDoes, StaleForgetsPaneDoes, WhoSpares DEF Clearing
<1>6. ASSUME NEW x \in Session, Turn(x)
      PROVE  panes'[p].st # "gone"
  <2>1. CASE TurnMarks(x)
    <3>1. SameDaemon \/ Retags(turns[x].pane)
      BY <2>1, TurnMarksDoes
    <3> QED BY <1>2, <3>1, WhoSpares DEF Retags
  <2>2. CASE TurnSends(x) \/ TurnLosesPane(x) \/ TurnEnds(x) \/ TurnFails(x) \/ TurnFindsStale(x)
    BY <1>2, <2>2, TurnSendsDoes, TurnLosesPaneDoes, TurnEndsDoes, TurnFailsDoes,
       TurnFindsStaleDoes,
       WhoSpares
  <2>3. CASE TurnReleases(x) \/ TurnReleasesStale(x)
    BY <1>2, <2>3, TurnReleasesDoes, TurnReleasesStaleDoes, WhoSpares
  <2> QED BY <1>6, <2>1, <2>2, <2>3 DEF Turn
<1>7. ASSUME NEW q \in Pane, PaneDies(q)
      PROVE  panes'[p].st # "gone"
  <2>1. q # p
    BY <1>0, <1>7
  <2>2. Spared({q})
    BY <1>7, PaneDiesDoes, WhoSpares
  <2> QED BY <1>1, <2>1, <2>2 DEF Spared
<1>8. ASSUME NEW q \in Pane, Bind(q)
      PROVE  panes'[p].st # "gone"
  BY <1>1, <1>8, BindDoes DEF OnlyPane
<1>9. ASSUME NEW g \in Pane, NEW q \in Pane, SomebodyRevives(g, q)
      PROVE  panes'[p].st # "gone"
  BY <1>2, <1>9, SomebodyRevivesDoes, WhoSpares
<1> QED
  BY <1>3, <1>4, <1>5, <1>6, <1>7, <1>8, <1>9 DEF Next

\* The pane of a turn that nobody cancelled is killed by no eviction, sweep,
\* deletion, failed start or stale prompt of the adapter (readme.md:1604): it
\* goes by itself, or with the adapter.
THEOREM TurnsGoOn == Spec => TurnsUndisturbed
<1>1. ASSUME Inv, [Next]_vars
      PROVE  [\A s \in Session :
                /\ turns[s].pc \in {"sending", "accepted", "running"} /\ ~turns[s].cancelled
                /\ Up(turns[s].pane) /\ panes'[turns[s].pane].st = "gone"
                => PaneDies(turns[s].pane) \/ ShutdownCloses]_vars
  <2> SUFFICES ASSUME Next, NEW s \in Session,
                      turns[s].pc \in {"sending", "accepted", "running"}, ~turns[s].cancelled,
                      Up(turns[s].pane), panes'[turns[s].pane].st = "gone"
               PROVE  PaneDies(turns[s].pane) \/ ShutdownCloses
    BY <1>1
  <2>1. InTurn(s)
    BY DEF InTurn, Active
  <2> QED BY <1>1, <2>1, WorkSpares, OthersSpare
<1> QED BY <1>1, Invariant, PTL DEF Spec, TurnsUndisturbed
=============================================================================
