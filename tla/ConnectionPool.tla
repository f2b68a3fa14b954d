---------------------------- MODULE ConnectionPool ----------------------------
(***************************************************************************)
(* The pool of MCP connections (core/src/mcp/connection.ts) under its      *)
(* manager (core/src/mcp/manager.ts): records that connect when a run wants*)
(* their tools, retry with a backoff timer, are reclaimed when idle and    *)
(* retired when their entry changes, while connects, closes and close      *)
(* callbacks of earlier times are still under way.                         *)
(*                                                                         *)
(* An entry is a (group, name) key.  Configurations are not modelled: every*)
(* change retires the record.  Records and attempts are never used twice.  *)
(***************************************************************************)
EXTENDS Naturals, FiniteSets

CONSTANTS
    Key,             \* entries of the configuration
    Rec,             \* connection records
    Att,             \* connect attempts, each with a transport of its own
    MaxConnections,  \* live connections allowed
    MaxReconnects,   \* attempts of the backoff loop before it gives up
    None

ASSUME BoundAssumption == MaxConnections \in Nat /\ MaxReconnects \in Nat
ASSUME NoneAssumption == None \notin Key \cup Rec \cup Att

VARIABLES
    enabled,  \* the entries that are configured and not disabled
    pool,     \* the record of each entry
    rec,      \* the records
    att,      \* the attempts and their transports
    raced     \* records on which an attempt began beside an earlier one

vars == <<enabled, pool, rec, att, raced>>

Live == {"connecting", "connected"}
Unborn == [key |-> None, state |-> "disconnected", client |-> None, attempts |-> 0,
           had |-> FALSE, timer |-> FALSE, stopped |-> FALSE]
Fresh(k) == [Unborn EXCEPT !.key = k]

InFlight(a) == att[a].stage \in {"connecting", "listing", "closing", "dropping"}

Init ==
    /\ enabled = {}
    /\ pool = [k \in Key |-> None]
    /\ rec = [r \in Rec |-> Unborn]
    /\ att = [a \in Att |-> [stage |-> "unborn", rec |-> None, retry |-> FALSE, open |-> FALSE]]
    /\ raced = {}

-----------------------------------------------------------------------------
(* What happens to a record x. *)

(* The backoff timer is set, once, unless the loop is used up. *)
Scheduled(x) ==
    IF x.stopped \/ x.timer THEN x
    ELSE IF x.attempts >= MaxReconnects THEN [x EXCEPT !.state = "failed"]
    ELSE [x EXCEPT !.attempts = @ + 1, !.timer = TRUE]

\* Faulty: the record waits for a timer that it does not set.
LostUnscheduled(x) ==
    IF x.stopped \/ ~x.had THEN x
    ELSE [x EXCEPT !.state = "connecting", !.client = None]

(* A transport closed by itself: of a server that once served. *)
Lost(x) ==
    IF x.stopped \/ ~x.had THEN x
    ELSE Scheduled([x EXCEPT !.state = "connecting", !.client = None])

Failed(x, retry) ==
    LET y == [x EXCEPT !.state = "failed", !.client = None]
    IN IF retry THEN Scheduled(y) ELSE y

Listed(x) == [x EXCEPT !.state = "connected", !.attempts = 0, !.had = TRUE]

Retired(x, next) ==
    [x EXCEPT !.stopped = TRUE, !.timer = FALSE, !.client = None, !.state = next]

(* Retiring closes the client of the record. *)
ClosedBy(r) ==
    [a \in Att |-> IF rec[r].client = a THEN [att[a] EXCEPT !.open = FALSE] ELSE att[a]]

-----------------------------------------------------------------------------
(* Connecting. *)

(* Another attempt of the record is under way or left its transport open.  *)
Beside(r) == \E a \in Att : att[a].rec = r /\ (InFlight(a) \/ att[a].open)

(* #connectServer up to its first await: x is the record r as it is then.  *)
Begin(recs, atts, r, retry) ==
    \E a \in Att :
      /\ att[a].stage = "unborn"
      /\ att' = [atts EXCEPT ![a] = [stage |-> "connecting", rec |-> r, retry |-> retry, open |-> TRUE]]
      /\ rec' = [recs EXCEPT ![r] = [@ EXCEPT !.state = "connecting"]]
      /\ raced' = IF Beside(r) THEN raced \cup {r} ELSE raced

Active(recs, p) ==
    Cardinality({k \in Key : p[k] # None /\ ~recs[p[k]].stopped /\ recs[p[k]].state \in Live})

(* kick(): a live record is left alone, at the cap it fails, otherwise it  *)
(* starts anew with a fresh budget of retries.                             *)
Kick(recs, atts, r, retry) ==
    /\ recs[r].state \notin Live
    /\ \/ /\ Active(recs, pool') >= MaxConnections
          /\ rec' = [recs EXCEPT ![r] = [@ EXCEPT !.state = "failed"]]
          /\ att' = atts /\ UNCHANGED raced
       \/ /\ Active(recs, pool') < MaxConnections
          /\ Begin([recs EXCEPT ![r] = [@ EXCEPT !.attempts = 0]], atts, r, retry)

(* record(): the record in the pool, or a fresh one in its place. *)
Obtained(k, r, recs) ==
    \/ /\ pool[k] # None /\ ~rec[pool[k]].stopped
       /\ r = pool[k] /\ recs = rec /\ UNCHANGED pool
    \/ /\ pool[k] # None => rec[pool[k]].stopped
       /\ rec[r].key = None
       /\ recs = [rec EXCEPT ![r] = Fresh(k)]
       /\ pool' = [pool EXCEPT ![k] = r]

Fresher(k, r) == IF rec[r].key = None THEN [rec EXCEPT ![r] = Fresh(k)] ELSE rec

(* toolsFor(): a run is assembled whose view has the entry. *)
Use(k) ==
    /\ k \in enabled
    /\ \E r \in Rec : Obtained(k, r, Fresher(k, r)) /\ Kick(Fresher(k, r), att, r, TRUE)
    /\ UNCHANGED enabled

(* connectNow(): by hand; the pending backoff attempt is cancelled first.  *)
Connect(k) ==
    /\ k \in enabled
    /\ \E r \in Rec :
         LET recs == Fresher(k, r)
             calm == [recs EXCEPT ![r] = [@ EXCEPT !.timer = FALSE]]
         IN /\ Obtained(k, r, recs)
            /\ recs[r].state \notin Live
            /\ \/ /\ Active(recs, pool') >= MaxConnections
                  /\ rec' = calm /\ UNCHANGED <<att, raced>>
               \/ /\ Active(recs, pool') < MaxConnections
                  /\ Begin([calm EXCEPT ![r] = [@ EXCEPT !.attempts = 0]], att, r, FALSE)
    /\ UNCHANGED enabled

(* The backoff timer fires. *)
Fires(r) ==
    /\ rec[r].timer
    /\ Begin([rec EXCEPT ![r] = [@ EXCEPT !.timer = FALSE]], att, r, TRUE)
    /\ UNCHANGED <<enabled, pool>>

\* Faulty: a record that was retired meanwhile keeps the client.
ConnectsAnyway(a) ==
    /\ att[a].stage = "connecting" /\ att[a].open
    /\ att' = [att EXCEPT ![a] = [@ EXCEPT !.stage = "listing"]]
    /\ rec' = [rec EXCEPT ![att[a].rec] = [@ EXCEPT !.client = a]]
    /\ UNCHANGED <<enabled, pool, raced>>

(* The transport is up; on a record retired meanwhile it is closed again.  *)
Connects(a) ==
    /\ att[a].stage = "connecting" /\ att[a].open
    /\ \/ /\ rec[att[a].rec].stopped
          /\ att' = [att EXCEPT ![a] = [@ EXCEPT !.stage = "dropping"]]
          /\ UNCHANGED rec
       \/ /\ ~rec[att[a].rec].stopped
          /\ att' = [att EXCEPT ![a] = [@ EXCEPT !.stage = "listing"]]
          /\ rec' = [rec EXCEPT ![att[a].rec] = [@ EXCEPT !.client = a]]
    /\ UNCHANGED <<enabled, pool, raced>>

(* The tools are listed.  An answer that comes while the client of a retired *)
(* record is being closed is left out: it changes that record alone, which a *)
(* use replaces because it is stopped.                                       *)
Lists(a) ==
    /\ att[a].stage = "listing" /\ att[a].open
    /\ att' = [att EXCEPT ![a] = [@ EXCEPT !.stage = "done"]]
    /\ rec' = [rec EXCEPT ![att[a].rec] = Listed(@)]
    /\ UNCHANGED <<enabled, pool, raced>>

(* An attempt times out or is refused: an open transport is detached and   *)
(* its close awaited, one that is gone needs no waiting.                   *)
Fails(a) ==
    /\ att[a].stage \in {"connecting", "listing"}
    /\ \/ /\ att[a].open
          /\ att' = [att EXCEPT ![a] = [@ EXCEPT !.stage = "closing"]]
          /\ UNCHANGED rec
       \/ /\ ~att[a].open
          /\ att' = [att EXCEPT ![a] = [@ EXCEPT !.stage = "done"]]
          /\ rec' = [rec EXCEPT ![att[a].rec] = Failed(@, att[a].retry)]
    /\ UNCHANGED <<enabled, pool, raced>>

Closes(a) ==
    /\ att[a].stage \in {"closing", "dropping"}
    /\ att' = [att EXCEPT ![a] = [@ EXCEPT !.stage = "done", !.open = FALSE]]
    /\ rec' = IF att[a].stage = "dropping" THEN rec
              ELSE [rec EXCEPT ![att[a].rec] = Failed(@, att[a].retry)]
    /\ UNCHANGED <<enabled, pool, raced>>

(* The server dies, or the transport breaks, and its callback runs. *)
TransportCloses(a) ==
    /\ att[a].stage \in {"connecting", "listing", "done"} /\ att[a].open
    /\ att' = [att EXCEPT ![a] = [@ EXCEPT !.open = FALSE]]
    /\ rec' = [rec EXCEPT ![att[a].rec] = Lost(@)]
    /\ UNCHANGED <<enabled, pool, raced>>

-----------------------------------------------------------------------------
(* Retiring. *)
Retire(r, next) ==
    /\ rec' = [rec EXCEPT ![r] = Retired(@, next)]
    /\ att' = ClosedBy(r)
    /\ UNCHANGED <<enabled, pool, raced>>

(* The idle sweep; the record stays in the pool. *)
Sweep(k) ==
    /\ pool[k] # None
    /\ ~rec[pool[k]].stopped /\ rec[pool[k]].state = "connected"
    /\ Retire(pool[k], "disconnected")

(* A tool call timed out: the record of today is retired, whichever        *)
(* connection the call was made on.                                        *)
ToolTimeout(k) ==
    /\ pool[k] # None
    /\ \E r \in Rec : rec[r].key = k /\ rec[r].had
    /\ Retire(pool[k], "failed")

(* #retireRecord: the record leaves the pool, retired. *)
Dropped(k) ==
    IF pool[k] = None \/ rec[pool[k]].stopped THEN rec
    ELSE [rec EXCEPT ![pool[k]] = Retired(@, "disconnected")]

ClosedWith(k) == IF pool[k] = None \/ rec[pool[k]].stopped THEN att ELSE ClosedBy(pool[k])

(* The entry is removed, disabled, or rewritten in its file. *)
Forget(k, on) ==
    /\ enabled' = IF on THEN enabled \cup {k} ELSE enabled \ {k}
    /\ rec' = Dropped(k) /\ att' = ClosedWith(k)
    /\ pool' = [pool EXCEPT ![k] = None]
    /\ UNCHANGED raced

(* The entry is added, updated or enabled: its new record connects once.   *)
Renew(k) ==
    /\ enabled' = enabled \cup {k}
    /\ \E r \in Rec :
         /\ rec[r].key = None
         /\ pool' = [pool EXCEPT ![k] = r]
         /\ Kick([Dropped(k) EXCEPT ![r] = Fresh(k)], ClosedWith(k), r, FALSE)

(* The daemon stops. *)
StopAll ==
    /\ rec' = [r \in Rec |-> IF \E k \in Key : pool[k] = r THEN Retired(rec[r], "disconnected") ELSE rec[r]]
    /\ att' = [a \in Att |-> IF \E k \in Key : pool[k] # None /\ rec[pool[k]].client = a
                             THEN [att[a] EXCEPT !.open = FALSE] ELSE att[a]]
    /\ UNCHANGED <<enabled, pool, raced>>

Next ==
    \/ \E k \in Key : Use(k) \/ Connect(k) \/ Sweep(k) \/ ToolTimeout(k) \/ Renew(k)
    \/ \E k \in Key, on \in BOOLEAN : Forget(k, on)
    \/ \E r \in Rec : Fires(r)
    \/ \E a \in Att : Connects(a) \/ Lists(a) \/ Fails(a) \/ Closes(a) \/ TransportCloses(a)
    \/ StopAll

Spec == Init /\ [][Next]_vars
-----------------------------------------------------------------------------
Record == [key : Key \cup {None}, state : Live \cup {"disconnected", "failed"},
           client : Att \cup {None}, attempts : 0 .. MaxReconnects,
           had : BOOLEAN, timer : BOOLEAN, stopped : BOOLEAN]

Attempt == [stage : {"unborn", "connecting", "listing", "closing", "dropping", "done"},
            rec : Rec \cup {None}, retry : BOOLEAN, open : BOOLEAN]

(* The types of the pool, its records and attempts. *)
TypeOK ==
    /\ enabled \subseteq Key
    /\ pool \in [Key -> Rec \cup {None}]
    /\ rec \in [Rec -> Record] /\ att \in [Att -> Attempt]
    /\ raced \subseteq Rec

(* Whatever is retired while connects, closes and timers are under way, no *)
(* transport is left open behind the back of its record: it is the client  *)
(* of a record in use, or the attempt that opened it is still there to     *)
(* close it.  Records on which two attempts raced are excepted.            *)
NothingLeaks ==
    \A a \in Att : att[a].open /\ att[a].rec \notin raced =>
      \/ InFlight(a)
      \/ rec[att[a].rec].client = a /\ ~rec[att[a].rec].stopped

(* A record in use never gets stuck: it says connected only with an open   *)
(* client, and connecting only while an attempt or a timer will decide; in *)
(* the other states the next use connects it.                              *)
NeverStuck ==
    \A r \in Rec \ raced : ~rec[r].stopped =>
      /\ rec[r].state = "connected" => \E a \in Att : rec[r].client = a /\ att[a].open
      /\ rec[r].state = "connecting" => rec[r].timer \/ \E a \in Att : att[a].rec = r /\ InFlight(a)

(* No two connects race on one record. *)
OneConnectAtATime == raced = {}
=============================================================================
