------------------------------ MODULE Watcher ------------------------------
(***************************************************************************)
(* The desk's watcher (watcher.py): what it decides to ping.  Two          *)
(* coroutines of one process share its memory and the redis key of the     *)
(* last day read: a clock that wakes every 30 s and a loop over the events *)
(* of the market state engine.  They interleave at every call they await.  *)
(*                                                                         *)
(* The time of day is a slot (PreOpen is 09:20, Close 16:30); what the     *)
(* market, the calendar and the open orders say is chosen at the read.     *)
(***************************************************************************)
EXTENDS Integers, Sequences, FiniteSets, SequencesExt, FiniteSetsExt

CONSTANTS
  None,
  Leans,          \* what a day read may lean to
  Days, Weekdays, \* the days of a behaviour, those that are Monday to Friday
  LastSlot, PreOpen, Close,     \* slots of a day: 0 .. LastSlot
  OfflineFrom, OfflineTo,       \* slots in which an offline engine is told
  Cooldown,       \* PER_TRIGGER_COOLDOWN_S, in slots
  SessionMax,     \* GLOBAL_SESSION_MAX
  RefusedMax      \* bound: refused pings that are counted in a life

Unlimited == {"pre_open_read", "close_summary", "engine_offline"}
Limited == {"event_warning", "governor", "bias_flip", "stop_proximity", "flow_at_watch"}
Triggers == Unlimited \cup Limited

ASSUME WatcherAssumption ==
  /\ IsFiniteSet(Days) /\ Days = 1 .. Cardinality(Days) /\ Weekdays \subseteq Days /\ LastSlot \in Nat
  /\ PreOpen \in 0 .. LastSlot /\ Close \in PreOpen .. LastSlot
  /\ Cooldown \in Nat \ {0} /\ SessionMax \in Nat \ {0}
  /\ None \notin Leans \cup Days /\ None \notin [day : Days, at : 0 .. LastSlot]

VARIABLES
  now,       \* [day, at]
  heart,     \* age of the engine's heartbeat: "never", "fresh", "behind" or "offline"
  muted,     \* whether desk:mute_until lies ahead
  watching,  \* whether table watches holds an active row
  entries,   \* table checklist_entries: day -> number of rows
  lastRead,  \* redis desk:watcher:last_day_read_lean
  mem,       \* the watcher's fields
  co,        \* its coroutines: what each still has to do
  pings,     \* table pings, oldest first
  outage,    \* history: how often the engine came back
  life,      \* history: lives of the process
  refused,   \* history: pings refused by the session's limit in this life
  posted,    \* history: of those, counts in the rows inserted
  gone       \* history: of those, counts forgotten at a new day or in a ping that failed

watcherVars == <<lastRead, mem, co, refused, posted, gone>>
world == <<now, heart, muted, watching, entries, outage>>

Fresh ==
  [fired |-> [t \in Triggers |-> None], count |-> 0, suppressed |-> 0, day |-> None,
   preopen |-> FALSE, close |-> FALSE, offline |-> FALSE]

Idle == [plan |-> <<>>, step |-> "idle", was |-> None, read |-> None, ping |-> None]

-----------------------------------------------------------------------------
(* The first tick of a day forgets the counts of the day before.           *)
(* Mutants: every tick does; what was posted yesterday is not forgotten.   *)
NewDayEveryTick(m) ==
  [Fresh EXCEPT !.day = now.day, !.offline = m.offline, !.preopen = m.preopen, !.close = m.close]
NewDayKeepsDone(m) ==
  IF m.day = now.day THEN m
  ELSE [Fresh EXCEPT !.day = now.day, !.offline = m.offline, !.preopen = m.preopen, !.close = m.close]

NewDay(m) ==
  IF m.day = now.day THEN m ELSE [Fresh EXCEPT !.day = now.day, !.offline = m.offline]

At(time) == time.day * (LastSlot + 1) + time.at

Cooling(m, trigger) ==
  m.fired[trigger] # None /\ At(now) - At(m.fired[trigger]) < Cooldown

(* _rate_ok: a refusal by the session's limit is counted, one by the       *)
(* trigger's own is not.                                                   *)
OverLimit(m, trigger) == trigger \in Limited /\ ~Cooling(m, trigger) /\ m.count >= SessionMax
RateOk(m, trigger) == trigger \in Unlimited \/ (~Cooling(m, trigger) /\ m.count < SessionMax)

Booked(m, trigger) ==
  [m EXCEPT !.fired[trigger] = now, !.suppressed = 0,
            !.count = IF trigger \in Limited THEN @ + 1 ELSE @]

-----------------------------------------------------------------------------
(* _on_clock: the day, and what is due at the moment it looked.            *)
Due ==
  LET m == NewDay(mem)
      if(due, task) == IF due THEN <<task>> ELSE <<>>
  IN if(now.day \in Weekdays /\ ~m.preopen /\ now.at >= PreOpen, "pre_open_read")
       \o if(now.day \in Weekdays /\ ~m.close /\ now.at >= Close, "close_summary")
       \o <<"heartbeat">>

Tick ==
  /\ co["clock"] = Idle
  /\ mem' = NewDay(mem)
  /\ gone' = gone + mem.suppressed - NewDay(mem).suppressed
  /\ co' = [co EXCEPT !["clock"].plan = Due]
  /\ UNCHANGED <<world, lastRead, pings, life, refused, posted>>

(* _on_event                                                               *)
Event(kind) ==
  /\ co["event"] = Idle
  /\ co' = [co EXCEPT !["event"].plan = IF kind = "bar_5m" THEN <<"bias_flip", "stop_proximity">>
                                       ELSE <<"flow_at_watch", "stop_proximity">>]
  /\ UNCHANGED <<world, lastRead, mem, pings, life, refused, posted, gone>>

Rest(c) == Tail(co[c].plan)
Drop(c) == [co EXCEPT ![c] = [Idle EXCEPT !.plan = Rest(c)]]

Pinging(c, trigger, was, lean) ==
  [co EXCEPT ![c].step = "ping",
             ![c].ping = [trigger |-> trigger, was |-> was, lean |-> lean, folded |-> 0,
                          sent |-> None, session |-> None, life |-> life, outage |-> outage]]

(* The next task of a plan.                                                *)
TellOffline(m) == ~m.offline /\ now.day \in Weekdays /\ now.at \in OfflineFrom .. OfflineTo

TakeRead(c) ==
  /\ Head(co[c].plan) = "pre_open_read"
  /\ mem' = [mem EXCEPT !.preopen = TRUE]
  /\ co' = [co EXCEPT ![c].step = "tool"]

TakeClose(c) ==
  /\ Head(co[c].plan) = "close_summary"
  /\ mem' = [mem EXCEPT !.close = TRUE]
  /\ co' = Pinging(c, "close_summary", None, None)

TakeHeartbeat(c) ==
  /\ Head(co[c].plan) = "heartbeat"
  /\ mem' = [mem EXCEPT !.offline = heart = "offline" /\ (@ \/ TellOffline(mem))]
  /\ co' = IF heart # "offline" THEN [co EXCEPT ![c].plan = <<"event_warning", "governor">>]
           ELSE IF TellOffline(mem) THEN Pinging(c, "engine_offline", None, None)
           ELSE Drop(c)

TakeFlip(c) ==
  /\ Head(co[c].plan) = "bias_flip" /\ UNCHANGED mem
  /\ co' = IF lastRead = None THEN Drop(c)
           ELSE [co EXCEPT ![c].step = "tool", ![c].was = lastRead]

TakeCheck(c, near) ==
  LET task == Head(co[c].plan)
  IN /\ task \in {"event_warning", "stop_proximity", "flow_at_watch"} /\ UNCHANGED mem
     /\ (task = "flow_at_watch" /\ near) => watching
     /\ co' = IF near THEN Pinging(c, task, None, None) ELSE Drop(c)

TakeGovernor(c) ==
  /\ Head(co[c].plan) = "governor" /\ UNCHANGED mem
  /\ co' = IF entries[mem.day] = 1 THEN Pinging(c, "governor", None, None) ELSE Drop(c)

Take(c, near) ==
  /\ co[c].step = "idle" /\ co[c].plan # <<>>
  /\ \/ TakeCheck(c, near)
     \/ ~near /\ (TakeRead(c) \/ TakeClose(c) \/ TakeHeartbeat(c) \/ TakeFlip(c) \/ TakeGovernor(c))
  /\ UNCHANGED <<world, lastRead, pings, life, refused, posted, gone>>

(* The day_read tool: a failure is an answer, not an exception.            *)
DayRead(c, lean) ==
  /\ co[c].step = "tool"
  /\ LET preopen == Head(co[c].plan) = "pre_open_read"
     IN co' = IF lean = None THEN IF preopen THEN Pinging(c, "pre_open_read", None, None) ELSE Drop(c)
              ELSE IF preopen \/ lean # co[c].was THEN [co EXCEPT ![c].step = "store", ![c].read = lean]
              ELSE Drop(c)
  /\ UNCHANGED <<world, lastRead, mem, pings, life, refused, posted, gone>>

Store(c) ==
  /\ co[c].step = "store"
  /\ lastRead' = co[c].read
  /\ co' = Pinging(c, Head(co[c].plan), co[c].was, co[c].read)
  /\ UNCHANGED <<world, mem, pings, life, refused, posted, gone>>

Counted(trigger) == OverLimit(mem, trigger) /\ refused < RefusedMax

(* ping: muted, limited, or booked before the row is inserted.             *)
Send(c) ==
  LET trigger == co[c].ping.trigger
  IN /\ co[c].step = "ping"
     /\ IF muted THEN co' = Drop(c) /\ UNCHANGED <<mem, refused>>
        ELSE IF RateOk(mem, trigger)
        THEN /\ mem' = Booked(mem, trigger) /\ UNCHANGED refused
             /\ co' = [co EXCEPT ![c].step = "insert", ![c].ping.folded = mem.suppressed,
                                 ![c].ping.sent = now, ![c].ping.session = mem.day]
        ELSE /\ mem' = [mem EXCEPT !.suppressed = IF Counted(trigger) THEN @ + 1 ELSE @]
             /\ refused' = IF Counted(trigger) THEN refused + 1 ELSE refused
             /\ co' = Drop(c)
     /\ UNCHANGED <<world, lastRead, pings, life, posted, gone>>

Insert(c) ==
  /\ co[c].step = "insert"
  /\ pings' = Append(pings, co[c].ping)
  /\ posted' = posted + co[c].ping.folded
  /\ co' = [co EXCEPT ![c].step = "publish", ![c].read = Len(pings) + 1]
  /\ UNCHANGED <<world, lastRead, mem, life, refused, gone>>

(* A call that raises ends the whole tick, or the whole event.             *)
Raise(c) ==
  /\ co[c].step # "idle"
  /\ gone' = IF co[c].step = "insert" THEN gone + co[c].ping.folded ELSE gone
  /\ co' = [co EXCEPT ![c] = Idle]
  /\ UNCHANGED <<world, lastRead, mem, pings, life, refused, posted>>

Restart ==
  /\ mem' = Fresh /\ co' = [c \in DOMAIN co |-> Idle] /\ life' = life + 1
  /\ refused' = 0 /\ posted' = 0 /\ gone' = 0
  /\ UNCHANGED <<world, lastRead, pings>>

WatcherInit ==
  /\ lastRead = None /\ mem = Fresh
  /\ co = [c \in {"clock", "event"} |-> Idle]
  /\ pings = <<>> /\ life = 1 /\ refused = 0 /\ posted = 0 /\ gone = 0

=============================================================================
