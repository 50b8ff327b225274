----------------------------- MODULE EventStream -----------------------------
(***************************************************************************)
(* How what happens in a pane reaches clients: transcript tailers and the  *)
(* publication of states put events on a bounded broadcast channel; a      *)
(* transcript subscription replays the end of the file and goes on live,   *)
(* without the records already replayed; a wait subscribes, then looks at  *)
(* the present state, then listens.                                        *)
(*                                                                         *)
(* Offsets are counted in halves of a record, so that a file may end in    *)
(* the middle of one: record k starts at 2 * k.                            *)
(***************************************************************************)
EXTENDS Naturals, Sequences, FiniteSetsExt

CONSTANTS
  Client,       \* runs of slopctl: each subscribes to the transcript or waits
  Capacity,     \* events the channel keeps (256 in the code)
  LastN,        \* records a subscription asks to replay
  MaxRecords,   \* bound on records, of all files together
  MaxFiles,     \* bound on transcripts
  Bounds,       \* on transcripts bound, and on changes of the state
  Torn          \* whether a record may be read half written

ASSUME StreamAssumption ==
  /\ {Capacity, MaxFiles} \subseteq Nat \ {0}
  /\ {LastN, MaxRecords} \subseteq Nat
  /\ Bounds \subseteq [files : Nat, changes : Nat]
  /\ Torn \in BOOLEAN

File == 1..MaxFiles
NoFile == 0
Start == {2 * k : k \in 0..MaxRecords}      \* where records may start
States == {"busy", "ready"}
Awaited == "ready"

VARIABLES
  size,      \* the length of each file
  current,   \* transcript_path
  tailers,   \* the tailers, oldest first: file, place, cancelled
  state,     \* detailed_state
  owed,      \* a state is set and not yet announced
  left,     \* what is left of the bounds
  sent,      \* everything ever put on the channel
  sub,       \* each transcript subscription
  got,       \* the records each of them was given
  wait,      \* each wait
  held,      \* waits since whose subscription the awaited state was reached
  torn       \* records of which a reader saw one half

paneVars == <<size, current, tailers, torn>>
stateVars == <<state, owed, left>>
vars == <<paneVars, stateVars, sent, sub, got, wait, held>>

-----------------------------------------------------------------------------
(* tokio::sync::broadcast: a receiver that is more than Capacity behind is *)
(* moved to the oldest event kept and told that it lagged.                 *)

Fresh == Len(sent) + 1
Behind(at) == Len(sent) + 1 - at
Oldest == Len(sent) - Capacity + 1

RecordEvent(f, o) == [kind |-> "transcript", file |-> f, at |-> o, state |-> "none"]
StateEvent(s) == [kind |-> "state", file |-> NoFile, at |-> 0, state |-> s]

Take(what) == left[what] > 0 /\ left' = [left EXCEPT ![what] = @ - 1]

Init ==
  /\ size = [f \in File |-> 0]
  /\ current = NoFile
  /\ tailers = <<>>
  /\ state = "busy" /\ owed = FALSE /\ left \in Bounds
  /\ sent = <<>>
  /\ sub = [s \in Client |-> [pc |-> "off", at |-> 0, file |-> NoFile, end |-> 0,
                                  replayed |-> 0, lagged |-> FALSE]]
  /\ got = [s \in Client |-> <<>>]
  /\ wait = [w \in Client |-> [pc |-> "off", at |-> 0, lagged |-> FALSE]]
  /\ held = {}
  /\ torn = {}

-----------------------------------------------------------------------------
(* The agent writes its transcript, and goes from one to the next.         *)

WriteRecord(f) ==
  /\ size[f] % 2 = 0 /\ MapThenSumSet(LAMBDA g : size[g], File) < 2 * MaxRecords
  /\ \A g \in File : g > f => size[g] = 0
  /\ \/ size' = [size EXCEPT ![f] = @ + 2]
     \/ Torn /\ size' = [size EXCEPT ![f] = @ + 1]
  /\ UNCHANGED <<current, tailers, torn, stateVars, sent, sub, got, wait, held>>

FinishRecord(f) ==
  /\ size[f] % 2 = 1
  /\ size' = [size EXCEPT ![f] = @ + 1]
  /\ UNCHANGED <<current, tailers, torn, stateVars, sent, sub, got, wait, held>>

-----------------------------------------------------------------------------
(* Tailers.                                                                *)

HasLine(t) == t.file # NoFile /\ t.pos < size[t.file]

\* A cancelled tailer looks at its token at the end of the file only.
Settled(t) == IF t.off /\ ~HasLine(t) THEN [t EXCEPT !.file = NoFile] ELSE t

(* A hook names another transcript: the tailer of the old one is cancelled *)
(* and the new one reads its file from the beginning.                      *)
Bind(f) ==
  /\ f > current /\ Take("files")
  /\ current' = f
  /\ tailers' = Append([i \in 1..Len(tailers) |-> Settled([tailers[i] EXCEPT !.off = TRUE])],
                       [file |-> f, pos |-> 0, off |-> FALSE])
  /\ UNCHANGED <<size, torn, state, owed, sent, sub, got, wait, held>>

Advance(i, o) == tailers' = [tailers EXCEPT ![i] = Settled([@ EXCEPT !.pos = o])]

(* One read_line.  A whole record is broadcast.                            *)
TailRecord(i) ==
  LET f == tailers[i].file
      o == tailers[i].pos
  IN
  /\ HasLine(tailers[i]) /\ o % 2 = 0 /\ o + 2 <= size[f]
  /\ Advance(i, o + 2)
  /\ sent' = Append(sent, RecordEvent(f, o))
  /\ UNCHANGED <<size, current, torn, stateVars, sub, got, wait, held>>

\* At the end of the file half a record is a line; neither half parses.
TailHalf(i) ==
  LET f == tailers[i].file
      o == tailers[i].pos
  IN
  /\ HasLine(tailers[i]) /\ (o % 2 = 1 \/ o + 1 = size[f])
  /\ Advance(i, o + 1)
  /\ torn' = torn \cup {<<f, 2 * (o \div 2)>>}
  /\ UNCHANGED <<size, current, stateVars, sent, sub, got, wait, held>>

-----------------------------------------------------------------------------
(* The state of the pane: set, then announced by the holder of the lock.   *)

Listening(w) == wait[w].pc \in {"look", "listen"}

SetState ==
  /\ ~owed /\ Take("changes")
  /\ \E s \in States \ {state} :
       /\ state' = s
       /\ held' = IF s = Awaited THEN held \cup {w \in Client : Listening(w)} ELSE held
  /\ owed' = TRUE
  /\ UNCHANGED <<paneVars, sent, sub, got, wait>>

AnnounceState ==
  /\ owed
  /\ owed' = FALSE
  /\ sent' = Append(sent, StateEvent(state))
  /\ UNCHANGED <<paneVars, state, left, sub, got, wait, held>>

-----------------------------------------------------------------------------
(* A transcript subscription.                                              *)

otherThanSub == <<paneVars, stateVars, sent, wait, held>>

\* The receiver first, then the path.
Subscribe(s) ==
  /\ sub[s].pc = "off" /\ wait[s].pc = "off"
  /\ sub' = [sub EXCEPT ![s].pc = "open", ![s].at = Fresh, ![s].file = current]
  /\ UNCHANGED <<otherThanSub, got>>

\* The length of the file, before its lines are read.
Open(s) ==
  /\ sub[s].pc = "open"
  /\ sub' = [sub EXCEPT ![s].pc = "read",
                        ![s].end = IF sub[s].file = NoFile THEN 0 ELSE size[sub[s].file]]
  /\ torn' = IF sub[s].file # NoFile /\ size[sub[s].file] % 2 = 1
             THEN torn \cup {<<sub[s].file, size[sub[s].file] - 1>>} ELSE torn
  /\ UNCHANGED <<size, current, tailers, stateVars, sent, wait, held, got>>

\* The last LastN records that are whole.
Window(f) ==
  LET whole == IF f = NoFile THEN 0 ELSE size[f] \div 2
      n == IF whole < LastN THEN whole ELSE LastN
  IN  [k \in 1..n |-> [file |-> f, at |-> 2 * (whole - n + k - 1)]]

ReplayThenListen(s) ==
  /\ sub[s].pc = "read"
  /\ got' = [got EXCEPT ![s] = Window(sub[s].file)]
  /\ sub' = [sub EXCEPT ![s].pc = "live", ![s].at = Fresh,
                        ![s].replayed = Len(Window(sub[s].file))]
  /\ UNCHANGED otherThanSub

Replay(s) ==
  /\ sub[s].pc = "read"
  /\ got' = [got EXCEPT ![s] = Window(sub[s].file)]
  /\ sub' = [sub EXCEPT ![s].pc = "live", ![s].replayed = Len(Window(sub[s].file))]
  /\ UNCHANGED otherThanSub

ReplayedNext(s, e) == e.at <= sub[s].end

Replayed(s, e) == e.at < sub[s].end

Receive(s) ==
  /\ sub[s].pc = "live"
  /\ sub[s].at <= Len(sent) /\ Behind(sub[s].at) <= Capacity
  /\ LET e == sent[sub[s].at] IN
       got' = IF e.kind = "transcript" /\ ~Replayed(s, e)
              THEN [got EXCEPT ![s] = Append(@, [file |-> e.file, at |-> e.at])] ELSE got
  /\ sub' = [sub EXCEPT ![s].at = @ + 1]
  /\ UNCHANGED otherThanSub

Lag(s) ==
  /\ sub[s].pc = "live"
  /\ Behind(sub[s].at) > Capacity
  /\ sub' = [sub EXCEPT ![s].at = Oldest, ![s].lagged = TRUE]
  /\ UNCHANGED <<otherThanSub, got>>

\* Unsubscribe, or the end of the connection, cancels the stream.
Unsubscribe(s) ==
  /\ sub[s].pc = "live"
  /\ sub' = [sub EXCEPT ![s].pc = "done"]
  /\ UNCHANGED <<otherThanSub, got>>

-----------------------------------------------------------------------------
(* A wait for a state.                                                     *)

otherThanWait == <<paneVars, stateVars, sent, sub, got>>

SubscribeWait(w) ==
  /\ wait[w].pc = "off" /\ sub[w].pc = "off"
  /\ wait' = [wait EXCEPT ![w].pc = "look", ![w].at = Fresh]
  /\ UNCHANGED <<otherThanWait, held>>

LookThenListen(w) ==
  /\ wait[w].pc = "look"
  /\ wait' = [wait EXCEPT ![w].pc = IF state = Awaited THEN "matched" ELSE "listen",
                          ![w].at = Fresh]
  /\ UNCHANGED <<otherThanWait, held>>

\* ps shows detailed_state.
LookAtState(w) ==
  /\ wait[w].pc = "look"
  /\ wait' = [wait EXCEPT ![w].pc = IF state = Awaited THEN "matched" ELSE "listen"]
  /\ UNCHANGED <<otherThanWait, held>>

Hear(w) ==
  /\ wait[w].pc = "listen"
  /\ wait[w].at <= Len(sent) /\ Behind(wait[w].at) <= Capacity
  /\ LET e == sent[wait[w].at] IN
       wait' = [wait EXCEPT ![w].at = @ + 1,
                            ![w].pc = IF e.state = Awaited THEN "matched" ELSE @]
  /\ UNCHANGED <<otherThanWait, held>>

LagWait(w) ==
  /\ wait[w].pc = "listen"
  /\ Behind(wait[w].at) > Capacity
  /\ wait' = [wait EXCEPT ![w].at = Oldest, ![w].lagged = TRUE]
  /\ UNCHANGED <<otherThanWait, held>>

GiveUp(w) ==
  /\ wait[w].pc = "listen"
  /\ wait' = [wait EXCEPT ![w].pc = "timedout"]
  /\ UNCHANGED <<otherThanWait, held>>

-----------------------------------------------------------------------------
Read(i) == TailRecord(i) \/ TailHalf(i)
Stream(s) == Open(s) \/ Replay(s) \/ Receive(s) \/ Lag(s)
Listen(w) == LookAtState(w) \/ Hear(w) \/ LagWait(w)

Next ==
  \/ \E f \in File : WriteRecord(f) \/ FinishRecord(f) \/ Bind(f)
  \/ \E i \in DOMAIN tailers : Read(i)
  \/ SetState \/ AnnounceState
  \/ \E c \in Client : \/ Subscribe(c) \/ Stream(c) \/ Unsubscribe(c)
                       \/ SubscribeWait(c) \/ Listen(c) \/ GiveUp(c)

Spec == Init /\ [][Next]_vars

(* Tasks of the daemon that can go on do so; nothing is assumed of the     *)
(* agent, of clients that subscribe or unsubscribe, or of timeouts.        *)
FairSpec ==
  /\ Spec
  /\ \A i \in File : WF_vars(i \in DOMAIN tailers /\ Read(i))
  /\ WF_vars(AnnounceState)
  /\ \A c \in Client : WF_vars(Stream(c)) /\ WF_vars(Listen(c))

-----------------------------------------------------------------------------
(* Correctness.                                                            *)

TypeOK ==
  /\ size \in [File -> 0..(2 * MaxRecords)]
  /\ current \in File \cup {NoFile}
  /\ \A i \in DOMAIN tailers :
       tailers[i] \in [file : File \cup {NoFile}, pos : 0..(2 * MaxRecords), off : BOOLEAN]
  /\ state \in States /\ owed \in BOOLEAN
  /\ \A i \in DOMAIN sent : sent[i].at \in Start
  /\ sub \in [Client -> [pc : {"off", "open", "read", "live", "done"}, at : Nat,
                             file : File \cup {NoFile}, end : 0..(2 * MaxRecords),
                             replayed : 0..LastN, lagged : BOOLEAN]]
  /\ wait \in [Client -> [pc : {"off", "look", "listen", "matched", "timedout"}, at : Nat,
                          lagged : BOOLEAN]]
  /\ held \subseteq Client
  /\ torn \subseteq File \X Start

\* The pane has had one transcript only: a subscription compares offsets of
\* the file it replayed with those of whatever file is tailed.
OneTranscript == Len(tailers) <= 1

\* The first record a subscription is to give: the first it replayed, or the
\* first behind the end it found.
First(s) ==
  IF sub[s].replayed > 0 THEN got[s][1].at ELSE 2 * ((sub[s].end + 1) \div 2)

Given(s, o) == \E k \in DOMAIN got[s] : got[s][k].at = o

(* A subscription that has not lagged gives every record from the first    *)
(* one on before any later one: nothing falls between replay and live, in  *)
(* whatever order file and channel grow.  A record that a reader saw half  *)
(* written is the exception ("Subscribe to broadcast FIRST to avoid gaps", *)
(* 4083).                                                                  *)
GapFree ==
  \A s \in Client : OneTranscript /\ ~sub[s].lagged =>
    \A k \in DOMAIN got[s] : \A o \in Start :
      First(s) <= o /\ o < got[s][k].at =>
        \/ <<current, o>> \in torn
        \/ \E j \in 1..(k - 1) : got[s][j].at = o

(* Every whole record behind the first comes to the subscriber in the end, *)
(* unless it lagged, left, or the pane's transcript was replaced.          *)
RecordsArrive ==
  \A s \in Client : \A o \in Start :
    /\ sub[s].pc = "live" /\ current # NoFile /\ o >= First(s) /\ o + 2 <= size[current]
    ~> \/ Given(s, o) \/ <<current, o>> \in torn
       \/ sub[s].lagged \/ sub[s].pc = "done" \/ ~OneTranscript

(* A wait ends when the awaited state was reached at any moment since it   *)
(* subscribed, even if it was gone before the wait looked ("This closes    *)
(* the subscribe-then-snapshot race", libslopctl lib.rs:1797).             *)
WaitsEnd ==
  \A w \in Client :
    w \in held ~> wait[w].pc \in {"matched", "timedout"} \/ wait[w].lagged

=============================================================================
