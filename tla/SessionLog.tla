----------------------------- MODULE SessionLog -----------------------------
(***************************************************************************)
(* The log of one session: events.jsonl, appended line by line, meta.json, *)
(* the projection written after each line, and the messages read through   *)
(* truncation markers (session/store.ts, session/events.ts).  The runs, the*)
(* queue and retry (server/src/run.ts) appear as the writers of the log.   *)
(*                                                                         *)
(* Message ids are numbers in the order newId mints them: a queued message *)
(* is minted when it is submitted, long before it lands in the log.  A     *)
(* half-written last line is a flag: no reader can parse it and every      *)
(* append cuts it off first.  A last line that lacks nothing but its       *)
(* newline (storage/jsonl.ts keeps it when reading, cuts it when appending)*)
(* is left out.                                                            *)
(*                                                                         *)
(* compact() (session/compactor.ts) chooses its anchor, awaits the model,  *)
(* and only then appends.  The compactions of a run and of its chain hold  *)
(* off retry until they are over; the one that /compact makes on an idle   *)
(* session is registered nowhere.                                          *)
(***************************************************************************)
EXTENDS Integers, Sequences, FiniteSets

CONSTANTS
    Mode,       \* values of the session's permission mode
    MaxEvents,  \* bound on the lines of the log
    MaxIds,     \* bound on the messages ever minted
    MaxJobs,    \* bound on the compactions in flight at once
    Nothing

ASSUME BoundAssumption == MaxEvents \in Nat /\ MaxIds \in Nat /\ MaxJobs \in Nat

VARIABLES
    stream,   \* the complete lines of events.jsonl
    torn,     \* a half-written line follows them
    metaFile, \* meta.json, or Nothing when it is missing or unreadable
    minted,   \* the last id minted
    waiting,  \* ids of the queued and steering messages, oldest first
    running,  \* a run of the session is active
    compacting, \* the compact() calls that await the model
    overtaken   \* ghost: anchors a retry hid under an idle /compact in flight

logVars == <<stream, torn, metaFile, minted, waiting, running, compacting, overtaken>>

Message(id, role) == [type |-> "message", id |-> id, role |-> role]
Truncated(id) == [type |-> "message.truncated", fromMessageId |-> id]
Compacted(id) == [type |-> "compaction", upto |-> id]
Set(mode) == [type |-> "session.set", mode |-> mode]
RunEnded == [type |-> "run.ended"]

LogInit ==
    /\ stream = <<>> /\ torn = FALSE /\ metaFile = Nothing
    /\ minted = 0 /\ waiting = <<>> /\ running = FALSE
    /\ compacting = {} /\ overtaken = {}

-----------------------------------------------------------------------------
(* The projection. *)

Projection ==
    [proj : [compaction : Nat \cup {Nothing}, mode : Mode \cup {Nothing}], chainLength : Nat]

ASSUME NothingAssumption == Nothing \notin Nat /\ Nothing \notin Projection

Fresh == [compaction |-> Nothing, mode |-> Nothing]

(* A truncation that reaches the anchor drops the compaction with it. *)
ClearsNothing(anchor, from) == FALSE

Clears(anchor, from) == anchor # Nothing /\ from <= anchor

applyEvent(p, e) ==
    CASE e.type = "session.set" -> [p EXCEPT !.mode = e.mode]
      [] e.type = "compaction" -> [p EXCEPT !.compaction = e.upto]
      [] e.type = "message.truncated" /\ Clears(p.compaction, e.fromMessageId) ->
           [p EXCEPT !.compaction = Nothing]
      [] OTHER -> p

Fold(events) ==
    LET after[n \in 0 .. Len(events)] ==
          IF n = 0 THEN Fresh ELSE applyEvent(after[n - 1], events[n])
    IN  after[Len(events)]

Projected(p, length) == [proj |-> p, chainLength |-> length]

(* meta(): the file, or a rebuild from the log when it cannot be read. *)
Rebuilt == IF stream = <<>> THEN Nothing ELSE Projected(Fold(stream), Len(stream))

Meta == IF metaFile = Nothing THEN Rebuilt ELSE metaFile

(* The projection that updateMeta folds its event into: the file as it is. *)
BaseAsRead == IF Meta = Nothing THEN Fresh ELSE Meta.proj

(* What an append folds into: the file, unless it lags behind the log. *)
Base ==
    IF Meta = Nothing THEN Fresh
    ELSE IF Meta.chainLength # Len(stream) THEN Rebuilt.proj
    ELSE Meta.proj

-----------------------------------------------------------------------------
(* Reading. *)

CutoffLatest(i) ==
    LET later == {j \in i + 1 .. Len(stream) : stream[j].type = "message.truncated"}
    IN IF later = {} THEN Nothing
       ELSE stream[CHOOSE j \in later : \A k \in later : j >= k].fromMessageId

(* The first truncation after a line governs it. *)
Cutoff(i) ==
    LET later == {j \in i + 1 .. Len(stream) : stream[j].type = "message.truncated"}
    IN IF later = {} THEN Nothing
       ELSE stream[CHOOSE j \in later : \A k \in later : j <= k].fromMessageId

IsShown(i) ==
    /\ stream[i].type = "message"
    /\ Cutoff(i) = Nothing \/ stream[i].id < Cutoff(i)

Shown == {i \in 1 .. Len(stream) : IsShown(i)}

ShownIds == {stream[i].id : i \in Shown}

ShownUsers == {i \in Shown : stream[i].role = "user"}

LastUser == CHOOSE i \in ShownUsers : \A j \in ShownUsers : j <= i

-----------------------------------------------------------------------------
(* Appending: the line first, the projection second.  A crash leaves half  *)
(* a line, or a line without its projection.                               *)
Line(e) ==
    /\ Len(stream) < MaxEvents
    /\ stream' = Append(stream, e)
    /\ torn' = FALSE

AppendEvent(e) ==
    /\ Line(e)
    /\ metaFile' = Projected(applyEvent(Base, e), Len(stream) + 1)

CrashInLine ==
    /\ torn' = TRUE
    /\ running' = FALSE /\ compacting' = {}
    /\ UNCHANGED <<stream, metaFile, minted, waiting, overtaken>>

(* appendEvent read, and if need be rewrote, meta.json before the line.    *)
Healed ==
    IF Meta # Nothing /\ Meta.chainLength # Len(stream) THEN Rebuilt ELSE Meta

CrashAfterLine(e) ==
    /\ Line(e)
    /\ metaFile' = Healed
    /\ running' = FALSE /\ compacting' = {}

(* The event is appended, and the run and the compactions are as given; or *)
(* the daemon dies on the way.                                             *)
Writes(e, active, inFlight) ==
    \/ AppendEvent(e) /\ running' = active /\ compacting' = inFlight
    \/ CrashAfterLine(e)

-----------------------------------------------------------------------------
(* What the writers append, and what they have to check first. *)
Submit ==
    /\ minted < MaxIds
    /\ minted' = minted + 1
    /\ waiting' = Append(waiting, minted')
    /\ UNCHANGED <<stream, torn, metaFile, running, compacting, overtaken>>

LandTwice ==
    /\ waiting # <<>>
    /\ Writes(Message(Head(waiting), "user"), TRUE, compacting)
    /\ UNCHANGED <<minted, waiting, overtaken>>

(* A waiting message is withdrawn, or its run fails before it lands. *)
Withdraw ==
    /\ waiting # <<>>
    /\ waiting' = Tail(waiting)
    /\ UNCHANGED <<stream, torn, metaFile, minted, running, compacting, overtaken>>

(* A queued message lands: it starts a run, or steers the one active. *)
Land ==
    /\ waiting # <<>>
    /\ Writes(Message(Head(waiting), "user"), TRUE, compacting)
    /\ waiting' = Tail(waiting)
    /\ UNCHANGED <<minted, overtaken>>

(* A reply or a tool result of the run. *)
Reply ==
    /\ running
    /\ minted < MaxIds
    /\ minted' = minted + 1
    /\ Writes(Message(minted', "assistant"), TRUE, compacting)
    /\ UNCHANGED <<waiting, overtaken>>

EndRun ==
    /\ running
    /\ Writes(RunEnded, FALSE, compacting)
    /\ UNCHANGED <<minted, waiting, overtaken>>

(* A compaction stands for whole turns of what is shown past its anchor.   *)
(* idle: /compact on an idle session.  The others are a run's, started     *)
(* while it runs or by the chain behind it.                                *)
AnchorIsShown == Meta # Nothing /\ Meta.proj.compaction \in ShownIds

CompactBegins ==
    \E i \in Shown, u \in ShownUsers, idle \in BOOLEAN :
        /\ Cardinality(compacting) < MaxJobs
        /\ idle => ~running /\ waiting = <<>>
        /\ \A j \in Shown : i < j => u <= j
        /\ i < u
        /\ AnchorIsShown => \A j \in Shown : stream[j].id = Meta.proj.compaction => j < i
        /\ compacting' = compacting \cup {[upto |-> stream[i].id, idle |-> idle]}
        /\ UNCHANGED <<stream, torn, metaFile, minted, waiting, running, overtaken>>

(* The summary arrived and is appended, or nothing is: the model failed,   *)
(* the call was aborted, or the append threw and was logged.               *)
CompactEnds ==
    \E c \in compacting :
        /\ \/ Writes(Compacted(c.upto), running, compacting \ {c})
           \/ compacting' = compacting \ {c} /\ UNCHANGED <<stream, torn, metaFile, running>>
        /\ UNCHANGED <<minted, waiting, overtaken>>

(* updateMeta: after its events are appended it writes the projection once *)
(* more, folded from what it read first, under the new length of the log.  *)
UpdateMeta(mode) ==
    /\ Meta # Nothing
    /\ \/ /\ Line(Set(mode))
          /\ metaFile' = Projected(applyEvent(BaseAsRead, Set(mode)), Len(stream) + 1)
          /\ UNCHANGED <<running, compacting>>
       \/ AppendEvent(Set(mode)) /\ running' = FALSE /\ compacting' = {}
       \/ CrashAfterLine(Set(mode))
    /\ UNCHANGED <<minted, waiting, overtaken>>

(* retry: on an idle session with no registered compaction, from the last  *)
(* user message that is shown.  The new text is submitted after the marker.*)
RetryLast ==
    /\ ~running /\ waiting = <<>>
    /\ \A c \in compacting : c.idle
    /\ ShownUsers # {}
    /\ minted < MaxIds
    /\ LET from == stream[LastUser].id
       IN  \/ /\ AppendEvent(Truncated(from))
              /\ minted' = minted + 1
              /\ waiting' = Append(waiting, minted')
              /\ overtaken' = overtaken \cup {c.upto : c \in {d \in compacting : from <= d.upto}}
              /\ UNCHANGED <<running, compacting>>
           \/ CrashAfterLine(Truncated(from)) /\ UNCHANGED <<minted, waiting, overtaken>>

(* Something else damages meta.json; a reader writes it anew. *)
MetaIsLost ==
    /\ metaFile # Nothing
    /\ metaFile' = Nothing
    /\ UNCHANGED <<stream, torn, minted, waiting, running, compacting, overtaken>>

ReadMeta ==
    /\ metaFile = Nothing /\ stream # <<>>
    /\ metaFile' = Rebuilt
    /\ UNCHANGED <<stream, torn, minted, waiting, running, compacting, overtaken>>

LogNext ==
    \/ Submit \/ Withdraw \/ Land \/ Reply \/ EndRun \/ RetryLast
    \/ CompactBegins \/ CompactEnds
    \/ \E mode \in Mode : UpdateMeta(mode)
    \/ CrashInLine \/ MetaIsLost \/ ReadMeta

LogSpec == LogInit /\ [][LogNext]_logVars

-----------------------------------------------------------------------------
(* Type invariant; a message is minted before it lands and lands once. *)
LogTypeOK ==
    /\ \A i \in 1 .. Len(stream) : stream[i].type = "message" => stream[i].id \in 1 .. minted
    /\ \A i, j \in 1 .. Len(stream) :
         i # j /\ stream[i].type = "message" /\ stream[j].type = "message"
           => stream[i].id # stream[j].id
    /\ metaFile # Nothing => metaFile.chainLength \in 0 .. Len(stream)
    /\ minted \in 0 .. MaxIds /\ Len(waiting) <= minted
    /\ torn \in BOOLEAN /\ running \in BOOLEAN
    /\ \A c \in compacting : c.upto \in 1 .. minted /\ c.idle \in BOOLEAN
    /\ overtaken \subseteq 1 .. minted

(* A projection that says it is as long as the log is the fold of the log. *)
ProjectionIsFold ==
    metaFile # Nothing /\ metaFile.chainLength = Len(stream) => metaFile.proj = Fold(stream)

(* A line whose projection a crash swallowed is folded in by the next      *)
(* append, whatever it appends and whenever meta.json is lost; updateMeta  *)
(* is another matter.                                                      *)
AppendsHeal ==
    [][ProjectionIsFold /\ (stream' # stream => stream'[Len(stream')].type # "session.set")
         => ProjectionIsFold']_logVars

(* The anchor of the current summary is never a hidden message: a run      *)
(* would send the summary of what the user took back, and all the history  *)
(* besides.  The exception is what run.ts:467 does not look at: an idle    *)
(* /compact that awaited the model while a retry hid its anchor.           *)
AnchorIsVisible ==
    LET anchor == Fold(stream).compaction
    IN  anchor # Nothing => anchor \in ShownIds \cup overtaken

(* What a truncation hid stays hidden, however the log grows: messages     *)
(* only ever appear by landing.                                            *)
HiddenStaysHidden ==
    [][\A i \in 1 .. Len(stream) : i \notin Shown => i \notin Shown']_logVars

(* run.ts on retry: only at the tail, history that already happened is     *)
(* never rewritten.  What was shown before the last user message still is. *)
RetryKeepsEarlier ==
    [][\A i \in Shown : (ShownUsers # {} /\ i < LastUser) => i \in Shown']_logVars

=============================================================================
