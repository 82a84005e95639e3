----------------------------- MODULE DeskProofs -----------------------------
(***************************************************************************)
(* The desk, for any days and slots, limits, turns, rounds, retries and    *)
(* bounds, and any interleaving of its coroutines, requests, failures and  *)
(* restarts: its types, what it tells and what it limits.                  *)
(***************************************************************************)
EXTENDS Desk, TLAPS, FiniteSetTheorems

(* The shapes of the records: a coroutine of the watcher, a ping, the      *)
(* watcher's memory, a turn of the chat.                                   *)
Coroutines == {"clock", "event"}
Moments == [day : Days, at : 0 .. LastSlot]
Tasks == Triggers \cup {"heartbeat"}
Reads == {"pre_open_read", "bias_flip"}
Lean == Leans \cup {None}

PingShape ==
  [trigger : Triggers, was : Lean, lean : Lean, folded : Nat, sent : Moments \cup {None},
   session : Days \cup {None}, life : Nat, outage : Nat]

CoShape ==
  [plan : Seq(Tasks), step : {"idle", "tool", "store", "ping", "insert", "publish"}, was : Lean,
   read : Lean \cup Nat, ping : PingShape \cup {None}]

MemShape ==
  [fired : [Triggers -> Moments \cup {None}], count : 0 .. SessionMax, suppressed : Nat,
   day : Days \cup {None}, preopen : BOOLEAN, close : BOOLEAN, offline : BOOLEAN]

TurnSteps == {"unasked", "open", "model", "check", "log", "user", "assistant", "sum", "final", "error"}

TurnShape ==
  [step : TurnSteps, chat : Nat, rounds : 0 .. ToolRounds + 1, retries : 0 .. Retries,
   tools : BOOLEAN, stale : BOOLEAN, view : BOOLEAN, clean : BOOLEAN, class : BOOLEAN,
   opinion : Nat, told : {"nothing", "reply", "fallback", "offline"}, excused : BOOLEAN]

OpinionShape == [turn : Turns, gradable : BOOLEAN, graded : BOOLEAN]
RowShape == [chat : Nat, role : {"user", "assistant"}]

(* What a coroutine holds at each step.                                    *)
CoFits(r) ==
  /\ r.step # "idle" => r.plan # <<>>
  /\ r.step \in {"tool", "store"} => Head(r.plan) \in Reads
  /\ r.step = "store" => r.read \in Leans
  /\ r.step \in {"ping", "insert", "publish"} => r.ping \in PingShape
  /\ r.step = "publish" => r.read \in DOMAIN pings

WatcherTypes ==
  /\ now \in Moments /\ heart \in {"never", "fresh", "behind", "offline"}
  /\ muted \in BOOLEAN /\ watching \in BOOLEAN /\ entries \in [Days -> Nat]
  /\ outage \in Nat /\ life \in Nat
  /\ lastRead \in Lean /\ mem \in MemShape /\ pings \in Seq(PingShape)
  /\ co \in [Coroutines -> CoShape] /\ \A c \in Coroutines : CoFits(co[c])

AgentTypes ==
  /\ turn \in [Turns -> TurnShape] /\ sessions \in Nat
  /\ rows \in Seq(RowShape) /\ summed \subseteq Nat
  /\ opinions \in Seq(OpinionShape)
  /\ due \subseteq DOMAIN opinions
  /\ \A t \in Turns : turn[t].chat <= sessions /\ turn[t].opinion <= Len(opinions)

WebTypes ==
  /\ bound \in Scenarios
  /\ form \in [Forms -> [step : {"blank", "insert", "refused", "done"}, day : Days \cup {None}]]
  /\ \A f \in Forms : form[f].step # "blank" => form[f].day \in Days
  /\ page \in [step : {"never", "closed", "read", "live"}, shown : SUBSET DOMAIN pings]
  /\ hurried \in BOOLEAN /\ mishap \in BOOLEAN

TypeInv == WatcherTypes /\ AgentTypes /\ WebTypes

-----------------------------------------------------------------------------
(* A step of a coroutine gives it a new record and leaves the other alone. *)
Pinged(c, trigger, was, lean) ==
  [co[c] EXCEPT !.step = "ping",
                !.ping = [trigger |-> trigger, was |-> was, lean |-> lean, folded |-> 0,
                          sent |-> None, session |-> None, life |-> life, outage |-> outage]]
Dropped(c) == [Idle EXCEPT !.plan = Rest(c)]
Become(c, r) == co' = [co EXCEPT ![c] = r]

LEMMA ConstantFacts ==
  /\ Cardinality(Days) \in Nat /\ LastSlot \in Nat /\ Days = 1 .. Cardinality(Days)
  /\ None \notin Days /\ None \notin Moments /\ None \notin Leans
  /\ SessionMax \in Nat /\ ToolRounds \in Nat /\ Retries \in Nat
<1>1. Cardinality(Days) \in Nat
  BY WatcherAssumption, FS_CardinalityType
<1> QED BY <1>1, WatcherAssumption, AgentAssumption DEF Moments

LEMMA IdleFacts ==
  /\ Idle \in CoShape /\ CoFits(Idle) /\ Idle.step = "idle" /\ Idle.plan = <<>>
  /\ \A p \in Seq(Tasks) : /\ [Idle EXCEPT !.plan = p] \in CoShape
                           /\ CoFits([Idle EXCEPT !.plan = p])
                           /\ [Idle EXCEPT !.plan = p].step = "idle"
                           /\ [Idle EXCEPT !.plan = p].plan = p
<1>1. <<>> \in Seq(Tasks) /\ None \in Lean /\ None \in Lean \cup Nat
  BY DEF Lean
<1> QED BY <1>1 DEF Idle, CoShape, CoFits

LEMMA IdleFits ==
  ASSUME NEW r, r.step = "idle"
  PROVE  CoFits(r) /\ CoFits(r)'
BY DEF CoFits

LEMMA DropFacts ==
  ASSUME WatcherTypes, NEW c \in Coroutines, co[c].plan # <<>>
  PROVE  /\ Dropped(c) \in CoShape /\ CoFits(Dropped(c)) /\ Drop(c) = [co EXCEPT ![c] = Dropped(c)]
         /\ Dropped(c).step = "idle" /\ Dropped(c).plan = Tail(co[c].plan)
<1>1. Tail(co[c].plan) \in Seq(Tasks)
  BY DEF WatcherTypes, CoShape
<1> QED BY <1>1, IdleFacts DEF Dropped, Drop, Rest

LEMMA PingingFacts ==
  ASSUME WatcherTypes, NEW c \in Coroutines, co[c].plan # <<>>,
         NEW trigger \in Triggers, NEW was \in Lean, NEW lean \in Lean
  PROVE  LET r == Pinged(c, trigger, was, lean)
         IN /\ r \in CoShape /\ CoFits(r) /\ Pinging(c, trigger, was, lean) = [co EXCEPT ![c] = r]
            /\ r.step = "ping" /\ r.plan = co[c].plan
            /\ r.ping.trigger = trigger /\ r.ping.life = life /\ r.ping.outage = outage
            /\ r.ping.folded = 0
<1> DEFINE ping == [trigger |-> trigger, was |-> was, lean |-> lean, folded |-> 0,
                    sent |-> None, session |-> None, life |-> life, outage |-> outage]
<1>1. ping \in PingShape
  BY DEF PingShape, WatcherTypes
<1>2. co[c] \in CoShape /\ DOMAIN co = Coroutines
  BY DEF WatcherTypes
<1> HIDE DEF ping
<1> DEFINE r == [co[c] EXCEPT !.step = "ping", !.ping = ping]
<1>3. r \in CoShape /\ r.step = "ping" /\ r.plan = co[c].plan /\ r.ping = ping
  BY <1>1, <1>2 DEF CoShape
<1>4. CoFits(r)
  BY <1>1, <1>3 DEF CoFits
<1>5. Pinging(c, trigger, was, lean) = [co EXCEPT ![c] = r]
  BY <1>2 DEF Pinging, ping
<1>6. Pinged(c, trigger, was, lean) = r
  BY DEF Pinged, ping
<1>7. ping.trigger = trigger /\ ping.life = life /\ ping.outage = outage /\ ping.folded = 0
  BY DEF ping
<1> HIDE DEF r
<1> QED BY <1>3, <1>4, <1>5, <1>6, <1>7

LEMMA CoStep ==
  ASSUME WatcherTypes, NEW c \in Coroutines, NEW r \in CoShape, Become(c, r), CoFits(r)',
         UNCHANGED <<world, life>>, mem' \in MemShape, lastRead' \in Lean,
         pings' \in Seq(PingShape), DOMAIN pings \subseteq DOMAIN pings'
  PROVE  WatcherTypes'
<1>1. co' \in [Coroutines -> CoShape]
  BY DEF WatcherTypes, Become
<1>2. ASSUME NEW d \in Coroutines PROVE CoFits(co[d])' 
  <2>1. CASE d = c
    <3>1. co'[d] = r
      BY <2>1 DEF Become, WatcherTypes
    <3> QED BY <3>1 DEF CoFits
  <2>2. CASE d # c
    <3>1. co'[d] = co[d] /\ CoFits(co[d])
      BY <2>2 DEF Become, WatcherTypes
    <3> QED BY <3>1 DEF CoFits
  <2> QED BY <2>1, <2>2
<1> QED BY <1>1, <1>2 DEF WatcherTypes, world

LEMMA NewDayFacts ==
  ASSUME WatcherTypes
  PROVE  /\ NewDay(mem) \in MemShape /\ NewDay(mem).day = now.day /\ now.day \in Days
         /\ NewDay(mem).offline = mem.offline
         /\ mem.day = now.day => NewDay(mem) = mem
         /\ mem.day # now.day => /\ NewDay(mem).fired = [t \in Triggers |-> None]
                                 /\ NewDay(mem).count = 0 /\ NewDay(mem).suppressed = 0
                                 /\ ~NewDay(mem).preopen /\ ~NewDay(mem).close
<1>1. Fresh \in MemShape
  BY ConstantFacts DEF Fresh, MemShape
<1>2. now.day \in Days /\ mem \in MemShape
  BY DEF WatcherTypes, Moments
<1> QED BY <1>1, <1>2 DEF NewDay, Fresh, MemShape

LEMMA DueFacts ==
  Due \in Seq(Tasks) /\ Due # <<>>
<1> DEFINE if(found, task) == IF found THEN <<task>> ELSE <<>>
<1>1. \A b : if(b, "pre_open_read") \in Seq(Tasks) /\ if(b, "close_summary") \in Seq(Tasks)
  BY DEF Tasks, Triggers, Unlimited
<1>2. <<"heartbeat">> \in Seq(Tasks)
  BY DEF Tasks
<1> DEFINE a == if(now.day \in Weekdays /\ ~NewDay(mem).preopen /\ now.at >= PreOpen, "pre_open_read")
           b == if(now.day \in Weekdays /\ ~NewDay(mem).close /\ now.at >= Close, "close_summary")
<1>3. a \in Seq(Tasks) /\ b \in Seq(Tasks)
  BY <1>1
<1>4. Due = a \o b \o <<"heartbeat">>
  BY DEF Due
<1> HIDE DEF a, b
<1> QED BY <1>2, <1>3, <1>4

LEMMA TickTypes ==
  ASSUME WatcherTypes, Tick
  PROVE  WatcherTypes'
<1>1. [co["clock"] EXCEPT !.plan = Due] = [Idle EXCEPT !.plan = Due]
  BY DEF Tick
<1>2. PICK r \in CoShape : r.step = "idle" /\ Become("clock", r)
  BY <1>1, DueFacts, IdleFacts DEF Tick, Become
<1>3. mem' \in MemShape
  BY NewDayFacts DEF Tick
<1>4. UNCHANGED <<world, life>> /\ lastRead' \in Lean /\ pings' = pings /\ pings \in Seq(PingShape)
  BY DEF Tick, WatcherTypes
<1>5. CoFits(r)' /\ "clock" \in Coroutines
  BY <1>2, IdleFits DEF Coroutines
<1> QED BY <1>2, <1>3, <1>4, <1>5, CoStep

LEMMA EventTypes ==
  ASSUME WatcherTypes, NEW kind \in {"bar_1m", "bar_5m"}, Event(kind)
  PROVE  WatcherTypes'
<1>1. /\ <<"bias_flip", "stop_proximity">> \in Seq(Tasks)
      /\ <<"flow_at_watch", "stop_proximity">> \in Seq(Tasks)
  BY DEF Tasks, Triggers, Limited
<1>2. PICK plan \in Seq(Tasks) : co' = [co EXCEPT !["event"] = [co["event"] EXCEPT !.plan = plan]]
  BY <1>1 DEF Event
<1>3. [co["event"] EXCEPT !.plan = plan] = [Idle EXCEPT !.plan = plan]
  BY DEF Event
<1>4. PICK r \in CoShape : r.step = "idle" /\ Become("event", r)
  BY <1>2, <1>3, IdleFacts DEF Become
<1>5. /\ UNCHANGED <<world, life>> /\ mem' \in MemShape /\ lastRead' \in Lean
      /\ pings' = pings /\ pings \in Seq(PingShape)
  BY DEF Event, WatcherTypes
<1>6. CoFits(r)' /\ "event" \in Coroutines
  BY <1>4, IdleFits DEF Coroutines
<1> QED BY <1>4, <1>5, <1>6, CoStep

(* What a task does to its coroutine: it waits for a tool, has a ping to   *)
(* send, is done with, or gives way to the checks of a live engine.        *)
Checks(c) == [co[c] EXCEPT !.plan = <<"event_warning", "governor">>]
Asked(c, was) == [co[c] EXCEPT !.step = "tool", !.was = was]

LEMMA TakeEffects ==
  ASSUME WatcherTypes, NEW c \in Coroutines, NEW near \in BOOLEAN, Take(c, near)
  PROVE  /\ co[c].plan # <<>> /\ co[c].step = "idle" /\ UNCHANGED <<world, lastRead, pings, life>>
         /\ \/ UNCHANGED mem /\ Become(c, Dropped(c))
            \/ /\ UNCHANGED mem /\ Head(co[c].plan) \in Limited
               /\ Become(c, Pinged(c, Head(co[c].plan), None, None))
            \/ /\ UNCHANGED mem /\ Head(co[c].plan) = "bias_flip"
               /\ Become(c, Asked(c, lastRead))
            \/ /\ Head(co[c].plan) = "pre_open_read" /\ mem' = [mem EXCEPT !.preopen = TRUE]
               /\ Become(c, Asked(c, co[c].was))
            \/ /\ Head(co[c].plan) = "close_summary" /\ mem' = [mem EXCEPT !.close = TRUE]
               /\ Become(c, Pinged(c, "close_summary", None, None))
            \/ /\ Head(co[c].plan) = "heartbeat" /\ heart # "offline"
               /\ mem' = [mem EXCEPT !.offline = FALSE] /\ Become(c, Checks(c))
            \/ /\ Head(co[c].plan) = "heartbeat" /\ heart = "offline" /\ ~mem.offline
               /\ mem' = [mem EXCEPT !.offline = TRUE]
               /\ Become(c, Pinged(c, "engine_offline", None, None))
            \/ /\ Head(co[c].plan) = "heartbeat" /\ heart = "offline"
               /\ mem' = mem /\ Become(c, Dropped(c))
<1>1. co[c].plan # <<>> /\ co[c].step = "idle" /\ UNCHANGED <<world, lastRead, pings, life>>
  BY DEF Take
<1>2. co[c] \in CoShape /\ mem \in MemShape /\ mem.offline \in BOOLEAN /\ mem = [mem EXCEPT !.offline = mem.offline]
  BY DEF WatcherTypes, MemShape
<1>3. Drop(c) = [co EXCEPT ![c] = Dropped(c)]
  BY <1>1, DropFacts
<1>4. ASSUME NEW trigger \in Triggers
      PROVE  Pinging(c, trigger, None, None) = [co EXCEPT ![c] = Pinged(c, trigger, None, None)]
  BY <1>1, PingingFacts DEF Lean
<1>5. CASE TakeCheck(c, near)
  BY <1>1, <1>3, <1>4, <1>5 DEF TakeCheck, Limited, Triggers, Become
<1>6. CASE TakeRead(c)
  <2>1. co' = [co EXCEPT ![c] = Asked(c, co[c].was)]
    BY <1>2, <1>6 DEF TakeRead, Asked, CoShape, WatcherTypes
  <2> QED BY <1>1, <1>6, <2>1 DEF TakeRead, Become
<1>7. CASE TakeClose(c)
  <2>1. "close_summary" \in Triggers
    BY DEF Triggers, Unlimited
  <2> QED BY <1>1, <1>4, <1>7, <2>1 DEF TakeClose, Become
<1>8. CASE TakeHeartbeat(c)
  <2>1. Pinging(c, "engine_offline", None, None) = [co EXCEPT ![c] = Pinged(c, "engine_offline", None, None)]
    BY <1>1, PingingFacts DEF Lean, Triggers, Unlimited
  <2>2. [co EXCEPT ![c].plan = <<"event_warning", "governor">>] = [co EXCEPT ![c] = Checks(c)]
    BY <1>2 DEF Checks, CoShape, WatcherTypes
  <2>3. CASE heart # "offline"
    BY <1>1, <1>8, <2>2, <2>3 DEF TakeHeartbeat, Become
  <2>4. CASE heart = "offline" /\ TellOffline(mem)
    BY <1>1, <1>8, <2>1, <2>4 DEF TakeHeartbeat, Become, TellOffline
  <2>5. CASE heart = "offline" /\ ~TellOffline(mem)
    <3>1. mem' = [mem EXCEPT !.offline = mem.offline]
      BY <1>2, <1>8, <2>5 DEF TakeHeartbeat, MemShape
    <3> QED BY <1>1, <1>2, <1>3, <1>8, <2>5, <3>1 DEF TakeHeartbeat, Become
  <2> QED BY <2>3, <2>4, <2>5
<1>9. CASE TakeFlip(c)
  <2>1. [co EXCEPT ![c].step = "tool", ![c].was = lastRead] = [co EXCEPT ![c] = Asked(c, lastRead)]
    BY <1>2 DEF Asked, CoShape, WatcherTypes
  <2> QED BY <1>1, <1>3, <1>9, <2>1 DEF TakeFlip, Become
<1>10. CASE TakeGovernor(c)
  BY <1>1, <1>3, <1>4, <1>10 DEF TakeGovernor, Limited, Triggers, Become
<1> QED BY <1>5, <1>6, <1>7, <1>8, <1>9, <1>10 DEF Take

LEMMA TakeTypes ==
  ASSUME WatcherTypes, NEW c \in Coroutines, NEW near \in BOOLEAN, Take(c, near)
  PROVE  WatcherTypes'
<1>1. /\ co[c].plan # <<>> /\ co[c].step = "idle" /\ co[c] \in CoShape /\ mem \in MemShape
      /\ UNCHANGED <<world, lastRead, pings, life>> /\ lastRead \in Lean /\ pings \in Seq(PingShape)
  BY TakeEffects DEF WatcherTypes
<1>2. /\ [mem EXCEPT !.preopen = TRUE] \in MemShape /\ [mem EXCEPT !.close = TRUE] \in MemShape
      /\ [mem EXCEPT !.offline = TRUE] \in MemShape /\ [mem EXCEPT !.offline = FALSE] \in MemShape
  BY <1>1 DEF MemShape
<1>3. mem' \in MemShape
  BY <1>1, <1>2, TakeEffects
<1>4. Dropped(c) \in CoShape /\ Dropped(c).step = "idle"
  BY <1>1, DropFacts
<1>5. ASSUME NEW trigger \in Triggers
      PROVE  /\ Pinged(c, trigger, None, None) \in CoShape /\ Pinged(c, trigger, None, None).step = "ping"
             /\ Pinged(c, trigger, None, None).plan # <<>>
             /\ Pinged(c, trigger, None, None).ping \in PingShape
  <2>1. None \in Lean
    BY DEF Lean
  <2>2. CoFits(Pinged(c, trigger, None, None)) /\ Pinged(c, trigger, None, None).step = "ping"
    BY <1>1, <2>1, PingingFacts
  <2> QED BY <1>1, <2>1, <2>2, PingingFacts DEF CoFits
<1>6. ASSUME NEW was \in Lean
      PROVE  /\ Asked(c, was) \in CoShape /\ Asked(c, was).step = "tool"
             /\ Asked(c, was).plan = co[c].plan
  BY <1>1 DEF Asked, CoShape
<1>7. Checks(c) \in CoShape /\ Checks(c).step = "idle"
  <2>1. <<"event_warning", "governor">> \in Seq(Tasks)
    BY DEF Tasks, Triggers, Limited
  <2> QED BY <1>1, <2>1 DEF Checks, CoShape
<1>8. PICK r \in CoShape :
        /\ Become(c, r) /\ r.step \in {"idle", "tool", "ping"}
        /\ r.step # "idle" => r.plan # <<>>
        /\ r.step = "tool" => Head(r.plan) \in Reads
        /\ r.step = "ping" => r.ping \in PingShape
  <2>1. co[c].was \in Lean /\ {"close_summary", "engine_offline"} \cup Limited \subseteq Triggers
    BY <1>1 DEF CoShape, Triggers, Unlimited
  <2> QED BY <1>1, <1>4, <1>5, <1>6, <1>7, <2>1, TakeEffects DEF Reads
<1>9. CoFits(r)'
  BY <1>8 DEF CoFits
<1> QED BY <1>1, <1>3, <1>8, <1>9, CoStep

(* A day read is stored when it is the morning's or has flipped; the ping  *)
(* of it follows.                                                          *)
Stored(c, lean) == [co[c] EXCEPT !.step = "store", !.read = lean]

LEMMA DayReadEffects ==
  ASSUME WatcherTypes, NEW c \in Coroutines, NEW lean \in Lean, DayRead(c, lean)
  PROVE  /\ co[c].plan # <<>> /\ co[c].step = "tool" /\ UNCHANGED <<world, lastRead, mem, pings, life>>
         /\ \/ Become(c, Dropped(c)) /\ Head(co[c].plan) = "bias_flip"
            \/ lean \in Leans /\ Become(c, Stored(c, lean))
            \/ /\ Head(co[c].plan) = "pre_open_read"
               /\ Become(c, Pinged(c, "pre_open_read", None, None))
<1>1. /\ co[c].plan # <<>> /\ co[c].step = "tool" /\ co[c] \in CoShape
      /\ Head(co[c].plan) \in Reads /\ DOMAIN co = Coroutines
  BY DEF DayRead, WatcherTypes, CoFits
<1>2. Drop(c) = [co EXCEPT ![c] = Dropped(c)]
  BY <1>1, DropFacts
<1>3. Pinging(c, "pre_open_read", None, None) = [co EXCEPT ![c] = Pinged(c, "pre_open_read", None, None)]
  <2>1. None \in Lean /\ "pre_open_read" \in Triggers
    BY DEF Lean, Triggers, Unlimited
  <2> QED BY <1>1, <2>1, PingingFacts
<1>4. [co EXCEPT ![c].step = "store", ![c].read = lean] = [co EXCEPT ![c] = Stored(c, lean)]
  BY <1>1 DEF Stored, CoShape
<1>5. UNCHANGED <<world, lastRead, mem, pings, life>>
  BY DEF DayRead
<1> QED BY <1>1, <1>2, <1>3, <1>4, <1>5 DEF DayRead, Lean, Become, Reads

LEMMA DayReadTypes ==
  ASSUME WatcherTypes, NEW c \in Coroutines, NEW lean \in Lean, DayRead(c, lean)
  PROVE  WatcherTypes'
<1>1. /\ co[c].plan # <<>> /\ co[c] \in CoShape /\ Head(co[c].plan) \in Reads
      /\ UNCHANGED <<world, lastRead, mem, pings, life>>
      /\ mem \in MemShape /\ lastRead \in Lean /\ pings \in Seq(PingShape)
  BY DayReadEffects DEF WatcherTypes, CoFits
<1>2. Dropped(c) \in CoShape /\ Dropped(c).step = "idle"
  BY <1>1, DropFacts
<1>3. /\ Pinged(c, "pre_open_read", None, None) \in CoShape
      /\ Pinged(c, "pre_open_read", None, None).step = "ping"
      /\ CoFits(Pinged(c, "pre_open_read", None, None))
  <2>1. None \in Lean /\ "pre_open_read" \in Triggers
    BY DEF Lean, Triggers, Unlimited
  <2> QED BY <1>1, <2>1, PingingFacts
<1>4. lean \in Leans => /\ Stored(c, lean) \in CoShape /\ Stored(c, lean).step = "store"
                        /\ CoFits(Stored(c, lean))
  BY <1>1 DEF Stored, CoShape, CoFits
<1>5. PICK r \in CoShape : Become(c, r) /\ CoFits(r) /\ r.step \in {"idle", "store", "ping"}
  BY <1>2, <1>3, <1>4, DayReadEffects, IdleFits
<1>6. CoFits(r)'
  BY <1>5 DEF CoFits
<1> QED BY <1>1, <1>5, <1>6, CoStep

LEMMA StoreEffects ==
  ASSUME WatcherTypes, NEW c \in Coroutines, Store(c)
  PROVE  /\ co[c].plan # <<>> /\ co[c].step = "store" /\ UNCHANGED <<world, mem, pings, life>>
         /\ Head(co[c].plan) \in Reads /\ co[c].was \in Lean /\ co[c].read \in Leans
         /\ lastRead' = co[c].read
         /\ Become(c, Pinged(c, Head(co[c].plan), co[c].was, co[c].read))
<1>1. /\ co[c].plan # <<>> /\ co[c].step = "store" /\ co[c] \in CoShape
      /\ Head(co[c].plan) \in Reads /\ co[c].read \in Leans
      /\ UNCHANGED <<world, mem, pings, life>> /\ lastRead' = co[c].read
  BY DEF Store, WatcherTypes, CoFits
<1>2. co[c].was \in Lean /\ co[c].read \in Lean
  BY <1>1 DEF CoShape, Lean
<1>3. Head(co[c].plan) \in Triggers
  BY <1>1 DEF Reads, Triggers, Unlimited, Limited
<1>4. \A trigger \in Triggers, was \in Lean, lean \in Lean :
        Pinging(c, trigger, was, lean) = [co EXCEPT ![c] = Pinged(c, trigger, was, lean)]
  BY <1>1, PingingFacts
<1> QED BY <1>1, <1>2, <1>3, <1>4 DEF Store, Become

LEMMA StoreTypes ==
  ASSUME WatcherTypes, NEW c \in Coroutines, Store(c)
  PROVE  WatcherTypes'
<1>1. /\ co[c].plan # <<>> /\ Head(co[c].plan) \in Triggers
      /\ co[c].was \in Lean /\ co[c].read \in Lean
      /\ UNCHANGED <<world, mem, pings, life>> /\ lastRead' \in Lean
      /\ mem \in MemShape /\ pings \in Seq(PingShape)
  BY StoreEffects DEF WatcherTypes, Lean, Reads, Triggers, Unlimited, Limited
<1>2. \A trigger \in Triggers, was \in Lean, lean \in Lean :
        /\ Pinged(c, trigger, was, lean) \in CoShape /\ CoFits(Pinged(c, trigger, was, lean))
        /\ Pinged(c, trigger, was, lean).step = "ping"
  BY <1>1, PingingFacts
<1>3. PICK r \in CoShape : Become(c, r) /\ CoFits(r) /\ r.step = "ping"
  BY <1>1, <1>2, StoreEffects
<1>4. CoFits(r)'
  BY <1>3 DEF CoFits
<1> QED BY <1>1, <1>3, <1>4, CoStep

(* What may be sent is booked first; the row follows, then the notice.     *)
Sent(c) ==
  [co[c] EXCEPT !.step = "insert", !.ping.folded = mem.suppressed,
                !.ping.sent = now, !.ping.session = mem.day]

LEMMA SentFacts ==
  ASSUME WatcherTypes, NEW c \in Coroutines, co[c].step = "ping"
  PROVE  /\ co[c].ping \in PingShape /\ co[c].ping.trigger \in Triggers /\ co[c].plan # <<>>
         /\ Sent(c) \in CoShape /\ CoFits(Sent(c)) /\ Sent(c).step = "insert"
         /\ Sent(c).plan = co[c].plan /\ Sent(c).ping.trigger = co[c].ping.trigger
         /\ Sent(c).ping.sent = now /\ Sent(c).ping.session = mem.day
         /\ Sent(c).ping.life = co[c].ping.life /\ Sent(c).ping.outage = co[c].ping.outage
         /\ [co EXCEPT ![c].step = "insert", ![c].ping.folded = mem.suppressed,
                       ![c].ping.sent = now, ![c].ping.session = mem.day]
              = [co EXCEPT ![c] = Sent(c)]
<1>1. /\ co[c].ping \in PingShape /\ co[c] \in CoShape /\ co[c].plan # <<>> /\ DOMAIN co = Coroutines
      /\ mem.suppressed \in Nat /\ mem.day \in Days \cup {None} /\ now \in Moments
  BY DEF WatcherTypes, CoFits, MemShape
<1> DEFINE ping == [co[c].ping EXCEPT !.folded = mem.suppressed, !.sent = now, !.session = mem.day]
<1>2. /\ ping \in PingShape /\ ping.trigger = co[c].ping.trigger /\ ping.trigger \in Triggers
      /\ ping.sent = now /\ ping.session = mem.day
      /\ ping.life = co[c].ping.life /\ ping.outage = co[c].ping.outage
  BY <1>1 DEF PingShape
<1>3. Sent(c) = [co[c] EXCEPT !.step = "insert", !.ping = ping]
  BY <1>1 DEF Sent, CoShape, PingShape
<1>4. [co EXCEPT ![c].step = "insert", ![c].ping.folded = mem.suppressed,
                 ![c].ping.sent = now, ![c].ping.session = mem.day]
        = [co EXCEPT ![c] = Sent(c)]
  BY <1>1 DEF Sent, CoShape, PingShape
<1> HIDE DEF ping
<1>5. Sent(c) \in CoShape /\ Sent(c).step = "insert" /\ Sent(c).plan = co[c].plan /\ Sent(c).ping = ping
  BY <1>1, <1>2, <1>3 DEF CoShape
<1>6. CoFits(Sent(c))
  BY <1>1, <1>2, <1>5 DEF CoFits
<1> QED BY <1>1, <1>2, <1>4, <1>5, <1>6

LEMMA BookedFacts ==
  ASSUME WatcherTypes, NEW trigger \in Triggers, RateOk(mem, trigger)
  PROVE  LET m == Booked(mem, trigger)
         IN /\ m \in MemShape /\ m.fired = [mem.fired EXCEPT ![trigger] = now]
            /\ m.count = (IF trigger \in Limited THEN mem.count + 1 ELSE mem.count)
            /\ m.day = mem.day /\ m.preopen = mem.preopen /\ m.close = mem.close
            /\ m.offline = mem.offline /\ m.suppressed = 0
<1>1. mem \in MemShape /\ now \in Moments /\ SessionMax \in Nat
  BY ConstantFacts DEF WatcherTypes
<1>2. trigger \in Limited => trigger \notin Unlimited
  BY DEF Limited, Unlimited
<1>3. trigger \in Limited => mem.count < SessionMax
  BY <1>2 DEF RateOk
<1> DEFINE fired == [mem.fired EXCEPT ![trigger] = now]
           count == IF trigger \in Limited THEN mem.count + 1 ELSE mem.count
<1>4. fired \in [Triggers -> Moments \cup {None}]
  BY <1>1 DEF MemShape
<1>5. count \in 0 .. SessionMax
  BY <1>1, <1>3 DEF MemShape
<1>6. Booked(mem, trigger) = [mem EXCEPT !.fired = fired, !.suppressed = 0, !.count = count]
  BY <1>1 DEF Booked, MemShape
<1> HIDE DEF fired, count
<1> DEFINE half == [mem EXCEPT !.fired = fired, !.suppressed = 0]
<1>7. /\ half \in MemShape /\ half.fired = fired /\ half.suppressed = 0
      /\ half.day = mem.day /\ half.preopen = mem.preopen /\ half.close = mem.close
      /\ half.offline = mem.offline
  BY <1>1, <1>4 DEF MemShape
<1>8. Booked(mem, trigger) = [half EXCEPT !.count = count]
  BY <1>6
<1> HIDE DEF half
<1> DEFINE m == [half EXCEPT !.count = count]
<1>9. /\ m \in MemShape /\ m.fired = half.fired /\ m.count = count
      /\ m.day = half.day /\ m.preopen = half.preopen /\ m.close = half.close
      /\ m.offline = half.offline /\ m.suppressed = half.suppressed
  BY <1>5, <1>7 DEF MemShape
<1> HIDE DEF m
<1>10. Booked(mem, trigger) = m
  BY <1>8 DEF m
<1> QED BY <1>7, <1>9, <1>10 DEF fired, count

LEMMA SendEffects ==
  ASSUME WatcherTypes, NEW c \in Coroutines, Send(c)
  PROVE  /\ co[c].step = "ping" /\ UNCHANGED <<world, lastRead, pings, life>>
         /\ \/ /\ Become(c, Dropped(c))
               /\ \E n \in Nat : mem' = [mem EXCEPT !.suppressed = n]
            \/ /\ Become(c, Sent(c)) /\ RateOk(mem, co[c].ping.trigger)
               /\ mem' = Booked(mem, co[c].ping.trigger)
<1>1. /\ co[c].step = "ping" /\ co[c].plan # <<>> /\ mem \in MemShape
      /\ UNCHANGED <<world, lastRead, pings, life>>
  BY DEF Send, WatcherTypes, CoFits
<1>2. Drop(c) = [co EXCEPT ![c] = Dropped(c)]
  BY <1>1, DropFacts
<1>3. CASE muted
  <2>1. mem' = [mem EXCEPT !.suppressed = mem.suppressed] /\ mem.suppressed \in Nat
    BY <1>1, <1>3 DEF Send, MemShape
  <2> QED BY <1>1, <1>2, <1>3, <2>1 DEF Send, Become
<1>4. CASE ~muted /\ RateOk(mem, co[c].ping.trigger)
  BY <1>1, <1>4, SentFacts DEF Send, Become
<1>5. CASE ~muted /\ ~RateOk(mem, co[c].ping.trigger)
  <2>1. mem.suppressed \in Nat
    BY <1>1 DEF MemShape
  <2>2. \E n \in Nat : mem' = [mem EXCEPT !.suppressed = n]
    BY <1>5, <2>1 DEF Send
  <2> QED BY <1>1, <1>2, <1>5, <2>2 DEF Send, Become
<1> QED BY <1>3, <1>4, <1>5

LEMMA SendTypes ==
  ASSUME WatcherTypes, NEW c \in Coroutines, Send(c)
  PROVE  WatcherTypes'
<1>1. /\ co[c].step = "ping" /\ co[c].plan # <<>> /\ mem \in MemShape
      /\ co[c].ping.trigger \in Triggers
      /\ UNCHANGED <<world, lastRead, pings, life>> /\ lastRead \in Lean /\ pings \in Seq(PingShape)
  BY SendEffects, SentFacts DEF WatcherTypes
<1>2. Dropped(c) \in CoShape /\ Dropped(c).step = "idle" /\ CoFits(Dropped(c))
  BY <1>1, DropFacts
<1>3. Sent(c) \in CoShape /\ Sent(c).step = "insert" /\ CoFits(Sent(c))
  BY <1>1, SentFacts
<1>4. PICK r \in CoShape : Become(c, r) /\ CoFits(r) /\ r.step \in {"idle", "insert"}
  BY <1>2, <1>3, SendEffects
<1>5. CoFits(r)'
  BY <1>4 DEF CoFits
<1>6. \A n \in Nat : [mem EXCEPT !.suppressed = n] \in MemShape
  BY <1>1 DEF MemShape
<1>7. mem' \in MemShape
  BY <1>1, <1>6, SendEffects, BookedFacts
<1> QED BY <1>1, <1>4, <1>5, <1>7, CoStep

Inserted(c) == [co[c] EXCEPT !.step = "publish", !.read = Len(pings) + 1]

LEMMA InsertEffects ==
  ASSUME WatcherTypes, NEW c \in Coroutines, Insert(c)
  PROVE  /\ co[c].step = "insert" /\ UNCHANGED <<world, lastRead, mem, life>>
         /\ co[c].ping \in PingShape /\ pings' = Append(pings, co[c].ping)
         /\ pings' \in Seq(PingShape) /\ Len(pings') = Len(pings) + 1
         /\ Become(c, Inserted(c)) /\ Inserted(c) \in CoShape /\ Inserted(c).step = "publish"
         /\ Inserted(c).plan = co[c].plan /\ Inserted(c).ping = co[c].ping
         /\ Inserted(c).read = Len(pings') /\ co[c].plan # <<>>
<1>1. /\ co[c].step = "insert" /\ co[c] \in CoShape /\ co[c].ping \in PingShape /\ co[c].plan # <<>>
      /\ UNCHANGED <<world, lastRead, mem, life>> /\ DOMAIN co = Coroutines
      /\ pings' = Append(pings, co[c].ping) /\ pings \in Seq(PingShape)
  BY DEF Insert, WatcherTypes, CoFits
<1>2. pings' \in Seq(PingShape) /\ Len(pings') = Len(pings) + 1 /\ Len(pings) \in Nat
  BY <1>1
<1>3. Become(c, Inserted(c))
  BY <1>1 DEF Insert, Become, Inserted, CoShape
<1>4. /\ Inserted(c) \in CoShape /\ Inserted(c).step = "publish" /\ Inserted(c).plan = co[c].plan
      /\ Inserted(c).ping = co[c].ping /\ Inserted(c).read = Len(pings) + 1
  <2>1. PICK n \in Nat : n = Len(pings) + 1
    BY <1>2
  <2> DEFINE New == [co[c] EXCEPT !.step = "publish", !.read = n]
  <2>2. Inserted(c) = New
    BY <2>1 DEF Inserted
  <2>3. /\ New \in CoShape /\ New.step = "publish" /\ New.plan = co[c].plan
        /\ New.ping = co[c].ping /\ New.read = n
    BY <1>1 DEF CoShape
  <2> HIDE DEF New
  <2> QED BY <2>1, <2>2, <2>3
<1> QED BY <1>1, <1>2, <1>3, <1>4

LEMMA InsertTypes ==
  ASSUME WatcherTypes, NEW c \in Coroutines, Insert(c)
  PROVE  WatcherTypes'
<1>1. PICK r \in CoShape :
        /\ Become(c, r) /\ r.step = "publish" /\ r.plan # <<>> /\ r.ping \in PingShape
        /\ r.read = Len(pings')
  BY InsertEffects
<1>2. /\ UNCHANGED <<world, lastRead, mem, life>> /\ pings' \in Seq(PingShape)
      /\ Len(pings') = Len(pings) + 1 /\ pings \in Seq(PingShape)
      /\ mem \in MemShape /\ lastRead \in Lean
  BY InsertEffects DEF WatcherTypes
<1>3. DOMAIN pings \subseteq DOMAIN pings' /\ r.read \in DOMAIN pings'
  BY <1>1, <1>2
<1>4. CoFits(r)'
  BY <1>1, <1>3 DEF CoFits
<1> QED BY <1>1, <1>2, <1>3, <1>4, CoStep

LEMMA RaiseTypes ==
  ASSUME WatcherTypes, NEW c \in Coroutines, Raise(c)
  PROVE  WatcherTypes' /\ Become(c, Idle) /\ UNCHANGED <<world, lastRead, mem, pings, life>>
<1>1. /\ UNCHANGED <<world, lastRead, mem, pings, life>> /\ Become(c, Idle)
      /\ mem \in MemShape /\ lastRead \in Lean /\ pings \in Seq(PingShape)
  BY DEF Raise, Become, WatcherTypes
<1>2. PICK r \in CoShape : r = Idle /\ Become(c, r) /\ r.step = "idle"
  BY <1>1, IdleFacts
<1>3. CoFits(r)'
  BY <1>2, IdleFits
<1>4. WatcherTypes'
  BY <1>1, <1>2, <1>3, CoStep
<1> QED BY <1>1, <1>4

LEMMA RestartTypes ==
  ASSUME WatcherTypes, Restart, UNCHANGED world
  PROVE  WatcherTypes'
<1>1. /\ co' = [c \in Coroutines |-> Idle] /\ mem' = Fresh /\ life' = life + 1
      /\ UNCHANGED <<lastRead, pings, world>>
  BY DEF Restart, WatcherTypes
<1>2. Idle \in CoShape /\ Idle.step = "idle" /\ Fresh \in MemShape
  BY IdleFacts, ConstantFacts DEF Fresh, MemShape
<1>3. \A c \in Coroutines : CoFits(co[c])'
  <2>1. \A c \in Coroutines : co'[c].step = "idle"
    BY <1>1, <1>2
  <2> QED BY <2>1 DEF CoFits
<1>4. co' \in [Coroutines -> CoShape] /\ life' \in Nat
  BY <1>1, <1>2 DEF WatcherTypes
<1> QED BY <1>1, <1>2, <1>3, <1>4 DEF WatcherTypes, world

LEMMA PublishEffects ==
  ASSUME WatcherTypes, NEW c \in Coroutines, Publish(c)
  PROVE  /\ WatcherTypes' /\ Become(c, Dropped(c)) /\ UNCHANGED <<world, lastRead, mem, pings, life>>
         /\ co[c].step = "publish" /\ co[c].read \in DOMAIN pings /\ co[c].plan # <<>>
<1>1. /\ UNCHANGED <<world, lastRead, mem, pings, life>> /\ co[c].plan # <<>> /\ co' = Drop(c)
      /\ co[c].step = "publish" /\ co[c].read \in DOMAIN pings
      /\ mem \in MemShape /\ lastRead \in Lean /\ pings \in Seq(PingShape)
  BY DEF Publish, WatcherTypes, CoFits
<1>2. /\ Become(c, Dropped(c)) /\ Dropped(c) \in CoShape /\ Dropped(c).step = "idle"
  BY <1>1, DropFacts DEF Become
<1>3. PICK r \in CoShape : Become(c, r) /\ r.step = "idle"
  BY <1>2
<1>4. CoFits(r)'
  BY <1>3, IdleFits
<1>5. WatcherTypes'
  BY <1>1, <1>3, <1>4, CoStep
<1> QED BY <1>1, <1>2, <1>5

-----------------------------------------------------------------------------
(* What makes a turn sound, at every step: a reply is judged before it is  *)
(* told, and nothing is on record that is not told as an opinion.          *)
Recordable(r, t) == r.class /\ r.tools /\ r.told = "reply" /\ (r.view \/ t \in garbled)

Sound(r, t) ==
  /\ r.step \in {"unasked", "open", "model", "check"} => r.told = "nothing" /\ r.opinion = 0
  /\ r.step = "check" => r.view = r.class \/ t \in garbled
  /\ r.step = "log" => Recordable(r, t)
  /\ r.told # "nothing" /\ r.stale => r.excused
  /\ r.told # "nothing" /\ r.view => r.tools \/ t \in garbled
  /\ r.opinion # 0 => Recordable(r, t)

TurnsSound == \A t \in Turns : Sound(turn[t], t)

(* The turns that are at work, and a turn's step as the rows it has left.  *)
Active(r) == r.step \notin {"unasked", "final", "error"}

LEMMA SoundStays ==
  ASSUME NEW r, NEW t, Sound(r, t), garbled \subseteq garbled'
  PROVE  Sound(r, t)'
BY DEF Sound, Recordable

LEMMA NoTurnFacts ==
  \A s \in {"unasked", "final", "error"}, t \in Turns :
    LET r == [NoTurn EXCEPT !.step = s]
    IN /\ r \in TurnShape /\ Sound(r, t) /\ r.chat = 0 /\ r.opinion = 0 /\ r.step = s
<1>1. 0 \in 0 .. ToolRounds + 1 /\ 0 \in 0 .. Retries
  BY ConstantFacts
<1> SUFFICES ASSUME NEW s \in {"unasked", "final", "error"}, NEW t \in Turns
             PROVE  LET r == [NoTurn EXCEPT !.step = s]
                    IN /\ r \in TurnShape /\ Sound(r, t) /\ r.chat = 0 /\ r.opinion = 0 /\ r.step = s
  OBVIOUS
<1>2. /\ NoTurn \in TurnShape /\ NoTurn.chat = 0 /\ NoTurn.opinion = 0 /\ NoTurn.told = "nothing"
  BY <1>1 DEF NoTurn, TurnShape, TurnSteps
<1> DEFINE r == [NoTurn EXCEPT !.step = s]
<1>3. /\ r \in TurnShape /\ r.chat = 0 /\ r.opinion = 0 /\ r.told = "nothing"
      /\ r.step = s
  BY <1>2 DEF TurnShape, TurnSteps
<1> HIDE DEF r
<1>4. Sound(r, t)
  BY <1>3 DEF Sound, Recordable
<1> QED BY <1>3, <1>4 DEF r

(* A turn that ends in an error keeps what it had.                         *)
LEMMA BrokenFacts ==
  ASSUME AgentTypes, TurnsSound, NEW t \in Turns
  PROVE  LET r == [turn[t] EXCEPT !.step = "error"]
         IN /\ r \in TurnShape /\ Sound(r, t) /\ r.chat = turn[t].chat /\ r.opinion = turn[t].opinion
            /\ r.step = "error"
<1>1. turn[t] \in TurnShape /\ Sound(turn[t], t)
  BY DEF AgentTypes, TurnsSound
<1> DEFINE r == [turn[t] EXCEPT !.step = "error"]
<1>2. /\ r \in TurnShape /\ r.step = "error" /\ r.class = turn[t].class /\ r.told = turn[t].told
      /\ r.stale = turn[t].stale /\ r.excused = turn[t].excused /\ r.view = turn[t].view
      /\ r.tools = turn[t].tools /\ r.opinion = turn[t].opinion /\ r.chat = turn[t].chat
  BY <1>1 DEF TurnShape, TurnSteps
<1> HIDE DEF r
<1>3. Sound(r, t)
  BY <1>1, <1>2 DEF Sound, Recordable
<1> QED BY <1>2, <1>3 DEF r

(* What each step of a turn makes of its record.                           *)
LEMMA AskEffects ==
  ASSUME AgentTypes, TurnsSound, NEW t \in Turns, Ask(t)
  PROVE  \E r \in TurnShape :
           /\ Put(t, r) /\ r.chat = sessions /\ r.opinion = 0 /\ Sound(r, t)
           /\ r.step = IF sessions = 0 THEN "open" ELSE "model"
<1> DEFINE step == IF sessions = 0 THEN "open" ELSE "model"
<1>1. turn[t] \in TurnShape /\ sessions \in Nat /\ step \in TurnSteps /\ turn[t].step = "unasked"
  BY DEF AgentTypes, TurnSteps, Ask
<1>2. step \in {"open", "model"} /\ Put(t, [turn[t] EXCEPT !.step = step, !.chat = sessions])
  BY DEF Ask
<1> HIDE DEF step
<1> DEFINE r == [turn[t] EXCEPT !.step = step, !.chat = sessions]
<1>3. /\ r \in TurnShape /\ r.chat = sessions /\ r.step = step /\ r.told = turn[t].told
      /\ r.excused = turn[t].excused /\ r.opinion = turn[t].opinion
  BY <1>1 DEF TurnShape
<1>4. r.told = "nothing" /\ r.opinion = 0
  BY <1>1, <1>3 DEF TurnsSound, Sound, Recordable
<1>5. Sound(r, t)
  BY <1>2, <1>3, <1>4 DEF Sound, Recordable
<1> QED BY <1>2, <1>3, <1>4, <1>5 DEF step

LEMMA OpenEffects ==
  ASSUME AgentTypes, TurnsSound, NEW t \in Turns, Open(t)
  PROVE  \E r \in TurnShape :
           /\ Put(t, r) /\ r.chat = sessions + 1 /\ r.opinion = 0 /\ r.step = "model"
           /\ Sound(r, t)
<1>1. turn[t] \in TurnShape /\ sessions \in Nat /\ turn[t].step = "open"
  BY DEF AgentTypes, Open
<1>2. PICK n \in Nat : n = sessions + 1
  BY <1>1
<1> DEFINE r == [turn[t] EXCEPT !.step = "model", !.chat = n]
<1>3. /\ r \in TurnShape /\ r.chat = n /\ r.step = "model" /\ r.told = turn[t].told
      /\ r.excused = turn[t].excused /\ r.opinion = turn[t].opinion
  BY <1>1 DEF TurnShape, TurnSteps
<1>4. r.told = "nothing" /\ r.opinion = 0
  BY <1>1, <1>3 DEF TurnsSound, Sound, Recordable
<1>5. Sound(r, t)
  BY <1>3, <1>4 DEF Sound, Recordable
<1>6. Put(t, r)
  BY <1>2 DEF Open
<1> QED BY <1>2, <1>3, <1>4, <1>5, <1>6

LEMMA ToolEffects ==
  ASSUME AgentTypes, TurnsSound, NEW t \in Turns, NEW ok \in BOOLEAN, NEW behind \in BOOLEAN,
         UseTool(t, ok, behind)
  PROVE  \E r \in TurnShape :
           /\ Put(t, r) /\ r.chat = turn[t].chat /\ r.opinion = turn[t].opinion /\ r.step = "model"
           /\ turn[t].step = "model" /\ Sound(r, t)
<1>1. /\ turn[t] \in TurnShape /\ turn[t].step = "model" /\ turn[t].rounds <= ToolRounds
      /\ ToolRounds \in Nat
  BY ConstantFacts DEF AgentTypes, UseTool
<1>2. PICK n \in 0 .. ToolRounds + 1, b \in BOOLEAN :
        n = turn[t].rounds + 1 /\ b = (turn[t].stale \/ (ok /\ behind))
  BY <1>1 DEF TurnShape
<1> DEFINE r == [turn[t] EXCEPT !.rounds = n, !.tools = TRUE, !.stale = b]
<1>3. /\ r \in TurnShape /\ r.chat = turn[t].chat /\ r.step = "model" /\ r.told = turn[t].told
      /\ r.excused = turn[t].excused /\ r.opinion = turn[t].opinion
  BY <1>1 DEF TurnShape
<1>4. r.told = "nothing" /\ r.opinion = 0
  BY <1>1, <1>3 DEF TurnsSound, Sound, Recordable
<1>5. Sound(r, t)
  BY <1>3, <1>4 DEF Sound, Recordable
<1>6. Put(t, r)
  BY <1>1, <1>2 DEF UseTool, TurnShape
<1> QED BY <1>1, <1>3, <1>4, <1>5, <1>6

LEMMA ReplyEffects ==
  ASSUME AgentTypes, TurnsSound, NEW t \in Turns, NEW view \in BOOLEAN, NEW clean \in BOOLEAN,
         NEW class \in BOOLEAN, Reply(t, view, clean, class)
  PROVE  \E r \in TurnShape :
           /\ Put(t, r) /\ r.chat = turn[t].chat /\ r.opinion = turn[t].opinion /\ r.step = "check"
           /\ turn[t].step = "model" /\ Sound(r, t)'
<1>1. /\ turn[t] \in TurnShape /\ turn[t].step = "model"
      /\ garbled' = IF view # class THEN garbled \cup {t} ELSE garbled
  BY DEF AgentTypes, Reply
<1> DEFINE half == [turn[t] EXCEPT !.step = "check", !.view = view]
           r == [half EXCEPT !.clean = clean, !.class = class]
<1>2. /\ half \in TurnShape /\ half.chat = turn[t].chat /\ half.step = "check" /\ half.view = view
      /\ half.told = turn[t].told /\ half.excused = turn[t].excused /\ half.opinion = turn[t].opinion
  BY <1>1 DEF TurnShape, TurnSteps
<1>3. Put(t, r)
  BY DEF Reply
<1> HIDE DEF half
<1>4. /\ r \in TurnShape /\ r.chat = turn[t].chat /\ r.step = "check" /\ r.view = view /\ r.class = class
      /\ r.told = turn[t].told /\ r.excused = turn[t].excused /\ r.opinion = turn[t].opinion
  BY <1>2 DEF TurnShape
<1>5. r.told = "nothing" /\ r.opinion = 0
  BY <1>1, <1>4 DEF TurnsSound, Sound, Recordable
<1>6. PICK q \in TurnShape : q = r
  BY <1>4
<1>7. Sound(q, t)'
  BY <1>1, <1>4, <1>5, <1>6 DEF Sound, Recordable
<1> QED BY <1>1, <1>3, <1>4, <1>6, <1>7

LEMMA RegenerateEffects ==
  ASSUME AgentTypes, TurnsSound, NEW t \in Turns, NEW view \in BOOLEAN, NEW clean \in BOOLEAN,
         Regenerate(t, view, clean)
  PROVE  \E r \in TurnShape :
           /\ Put(t, r) /\ r.chat = turn[t].chat /\ r.opinion = turn[t].opinion /\ r.step = "check"
           /\ turn[t].step = "check" /\ Sound(r, t)'
<1>1. /\ turn[t] \in TurnShape /\ turn[t].step = "check" /\ turn[t].retries < Retries /\ Retries \in Nat
      /\ garbled' = IF view # turn[t].class THEN garbled \cup {t} ELSE garbled
  BY ConstantFacts DEF AgentTypes, Regenerate
<1>2. PICK n \in 0 .. Retries : n = turn[t].retries + 1
  BY <1>1 DEF TurnShape
<1> DEFINE r == [turn[t] EXCEPT !.retries = n, !.view = view, !.clean = clean]
<1>3. Put(t, r)
  BY <1>1, <1>2 DEF Regenerate, Retry, TurnShape
<1>4. /\ r \in TurnShape /\ r.chat = turn[t].chat /\ r.step = "check" /\ r.view = view
      /\ r.class = turn[t].class /\ r.told = turn[t].told /\ r.excused = turn[t].excused
      /\ r.opinion = turn[t].opinion
  BY <1>1 DEF TurnShape
<1>5. r.told = "nothing" /\ r.opinion = 0
  BY <1>1, <1>4 DEF TurnsSound, Sound, Recordable
<1>6. PICK q \in TurnShape : q = r
  BY <1>4
<1>7. Sound(q, t)'
  BY <1>1, <1>4, <1>5, <1>6 DEF Sound, Recordable
<1> QED BY <1>1, <1>3, <1>4, <1>6, <1>7

(* The fallback, the rules and the stale note, one after the other.        *)
LEMMA VoicedFacts ==
  ASSUME NEW r \in TurnShape
  PROVE  /\ Voiced(r) \in TurnShape
         /\ r.told # "nothing" => Voiced(r).told # "nothing"
         /\ Voiced(r).view => r.view /\ Voiced(r).class = r.class
         /\ Voiced(r).class => r.class /\ Voiced(r).view = r.view /\ Voiced(r).told = r.told
         /\ Voiced(r).tools = r.tools /\ Voiced(r).opinion = r.opinion /\ Voiced(r).chat = r.chat
<1> DEFINE p == [r EXCEPT !.view = FALSE, !.class = FALSE]
           q == [p EXCEPT !.told = "fallback", !.excused = FALSE]
<1>1. p \in TurnShape /\ ~p.view /\ ~p.class /\ p.tools = r.tools /\ p.opinion = r.opinion /\ p.chat = r.chat
  BY DEF TurnShape
<1>2. Voiced(r) = IF r.clean THEN r ELSE q
  BY DEF Voiced
<1> HIDE DEF p
<1>3. /\ q \in TurnShape /\ ~q.view /\ ~q.class /\ q.told = "fallback" /\ q.tools = p.tools
      /\ q.opinion = p.opinion /\ q.chat = p.chat
  BY <1>1 DEF TurnShape
<1> HIDE DEF q
<1> QED BY <1>1, <1>2, <1>3

LEMMA GroundedFacts ==
  ASSUME NEW r \in TurnShape
  PROVE  /\ Grounded(r) \in TurnShape
         /\ r.told # "nothing" => Grounded(r).told # "nothing"
         /\ Grounded(r).view => r.view /\ (r.tools \/ ~r.class)
         /\ Grounded(r).class => r.class /\ r.tools /\ Grounded(r).view = r.view /\ Grounded(r).told = r.told
         /\ Grounded(r).tools = r.tools /\ Grounded(r).opinion = r.opinion /\ Grounded(r).chat = r.chat
<1> DEFINE p == [r EXCEPT !.view = FALSE, !.class = FALSE]
           q == [p EXCEPT !.told = "offline", !.excused = TRUE]
<1>1. p \in TurnShape /\ ~p.view /\ ~p.class /\ p.tools = r.tools /\ p.opinion = r.opinion /\ p.chat = r.chat
  BY DEF TurnShape
<1>2. Grounded(r) = IF r.class /\ ~r.tools THEN q ELSE r
  BY DEF Grounded
<1> HIDE DEF p
<1>3. /\ q \in TurnShape /\ ~q.view /\ ~q.class /\ q.told = "offline" /\ q.tools = p.tools
      /\ q.opinion = p.opinion /\ q.chat = p.chat
  BY <1>1 DEF TurnShape
<1> HIDE DEF q
<1> QED BY <1>1, <1>2, <1>3

LEMMA StaleFirstFacts ==
  ASSUME NEW r \in TurnShape
  PROVE  /\ StaleFirst(r) \in TurnShape /\ StaleFirst(r).told = r.told
         /\ StaleFirst(r).stale => StaleFirst(r).excused
         /\ StaleFirst(r).view = r.view /\ StaleFirst(r).class = r.class /\ StaleFirst(r).tools = r.tools
         /\ StaleFirst(r).opinion = r.opinion /\ StaleFirst(r).chat = r.chat
<1> DEFINE q == [r EXCEPT !.excused = TRUE]
<1>1. /\ q \in TurnShape /\ q.told = r.told /\ q.excused /\ q.view = r.view /\ q.class = r.class
      /\ q.tools = r.tools /\ q.opinion = r.opinion /\ q.chat = r.chat
  BY DEF TurnShape
<1>2. StaleFirst(r) = IF r.stale /\ ~r.excused THEN q ELSE r
  BY DEF StaleFirst
<1> HIDE DEF q
<1> QED BY <1>1, <1>2

LEMMA CheckEffects ==
  ASSUME AgentTypes, TurnsSound, NEW t \in Turns, NEW failed \in BOOLEAN, NEW opens \in BOOLEAN,
         Check(t, failed, opens)
  PROVE  \E r \in TurnShape :
           /\ Put(t, r) /\ r.chat = turn[t].chat /\ r.opinion = turn[t].opinion
           /\ r.step \in {"log", "user"} /\ turn[t].step = "check" /\ Sound(r, t)
<1>1. turn[t] \in TurnShape /\ turn[t].step = "check"
  BY DEF AgentTypes, Check
<1>2. (turn[t].view = turn[t].class \/ t \in garbled) /\ turn[t].opinion = 0
  BY <1>1 DEF TurnsSound, Sound
<1> DEFINE said == [turn[t] EXCEPT !.told = "reply", !.excused = opens]
           checked == StaleFirst(Grounded(Voiced(said)))
           step == IF checked.class THEN "log" ELSE "user"
           r == [checked EXCEPT !.step = step]
<1>3. /\ said \in TurnShape /\ said.told = "reply" /\ said.view = turn[t].view
      /\ said.class = turn[t].class /\ said.tools = turn[t].tools
      /\ said.opinion = turn[t].opinion /\ said.chat = turn[t].chat
  BY <1>1 DEF TurnShape
<1>4. Put(t, r)
  BY DEF Check, Logs
<1> HIDE DEF said
<1>5. /\ checked \in TurnShape /\ checked.told # "nothing" /\ (checked.stale => checked.excused)
      /\ checked.view => said.view /\ (said.tools \/ ~said.class)
      /\ checked.class => said.class /\ said.tools /\ checked.view = said.view /\ checked.told = "reply"
      /\ checked.tools = said.tools /\ checked.opinion = said.opinion /\ checked.chat = said.chat
  <2> DEFINE voiced == Voiced(said)
             ground == Grounded(voiced)
  <2>1. /\ voiced \in TurnShape /\ voiced.told # "nothing" /\ voiced.tools = said.tools
        /\ voiced.view => said.view /\ voiced.class = said.class
        /\ voiced.class => said.class /\ voiced.view = said.view /\ voiced.told = "reply"
        /\ voiced.opinion = said.opinion /\ voiced.chat = said.chat
    BY <1>3, VoicedFacts
  <2> HIDE DEF voiced
  <2>2. /\ ground \in TurnShape /\ ground.told # "nothing" /\ ground.tools = said.tools
        /\ ground.view => said.view /\ (said.tools \/ ~said.class)
        /\ ground.class => said.class /\ said.tools /\ ground.view = said.view /\ ground.told = "reply"
        /\ ground.opinion = said.opinion /\ ground.chat = said.chat
    BY <2>1, GroundedFacts
  <2>3. checked = StaleFirst(ground)
    BY DEF voiced, ground
  <2> HIDE DEF ground, checked
  <2> QED BY <2>2, <2>3, StaleFirstFacts
<1> HIDE DEF checked
<1>6. /\ r \in TurnShape /\ r.step = step /\ step \in {"log", "user"} /\ r.class = checked.class
      /\ r.told = checked.told /\ r.stale = checked.stale /\ r.excused = checked.excused
      /\ r.view = checked.view /\ r.tools = checked.tools
      /\ r.opinion = checked.opinion /\ r.chat = checked.chat /\ (r.step = "log" => r.class)
  BY <1>5 DEF TurnShape, TurnSteps
<1> HIDE DEF r, step
<1>7. r.class => Recordable(r, t)
  BY <1>2, <1>3, <1>5, <1>6 DEF Recordable, TurnShape
<1>8. Sound(r, t)
  BY <1>2, <1>3, <1>5, <1>6, <1>7 DEF Sound, TurnShape
<1> QED BY <1>1, <1>3, <1>4, <1>5, <1>6, <1>8

LEMMA LogEffects ==
  ASSUME AgentTypes, TurnsSound, NEW t \in Turns, NEW ok \in BOOLEAN, NEW gradable \in BOOLEAN,
         Log(t, ok, gradable)
  PROVE  /\ \E r \in TurnShape :
              /\ Put(t, r) /\ r.chat = turn[t].chat /\ r.opinion <= Len(opinions') /\ r.step = "user"
              /\ turn[t].step = "log" /\ Sound(r, t)
         /\ opinions' \in Seq(OpinionShape)
         /\ Len(opinions) <= Len(opinions') /\ DOMAIN opinions \subseteq DOMAIN opinions'
<1>1. /\ turn[t] \in TurnShape /\ turn[t].step = "log" /\ Sound(turn[t], t)
      /\ opinions \in Seq(OpinionShape)
  BY DEF AgentTypes, Log, TurnsSound
<1>2. opinions' = IF ok THEN Append(opinions, [turn |-> t, gradable |-> gradable, graded |-> FALSE])
                        ELSE opinions
  BY DEF Log
<1>3. /\ opinions' \in Seq(OpinionShape)
      /\ Len(opinions') = IF ok THEN Len(opinions) + 1 ELSE Len(opinions)
      /\ Len(opinions) \in Nat
  <2>1. PICK o \in OpinionShape : o = [turn |-> t, gradable |-> gradable, graded |-> FALSE]
    BY DEF OpinionShape
  <2> QED BY <1>1, <1>2, <2>1
<1>4. PICK n \in Nat : n = (IF ok THEN Len(opinions) + 1 ELSE 0) /\ n <= Len(opinions')
  BY <1>3
<1> DEFINE r == [turn[t] EXCEPT !.step = "user", !.opinion = n]
<1>5. Put(t, r)
  BY <1>4 DEF Log
<1>6. /\ r \in TurnShape /\ r.step = "user" /\ r.class = turn[t].class /\ r.told = turn[t].told
      /\ r.stale = turn[t].stale /\ r.excused = turn[t].excused /\ r.view = turn[t].view
      /\ r.tools = turn[t].tools /\ r.opinion = n /\ r.chat = turn[t].chat
  BY <1>1 DEF TurnShape, TurnSteps
<1> HIDE DEF r
<1>7. Sound(r, t)
  BY <1>1, <1>6 DEF Sound, Recordable
<1>8. Len(opinions) <= Len(opinions') /\ DOMAIN opinions \subseteq DOMAIN opinions'
  BY <1>1, <1>3
<1> QED BY <1>1, <1>3, <1>4, <1>5, <1>6, <1>7, <1>8

LEMMA SayEffects ==
  ASSUME AgentTypes, TurnsSound, NEW t \in Turns, Say(t)
  PROVE  /\ \E r \in TurnShape :
              /\ Put(t, r) /\ r.chat = turn[t].chat /\ r.opinion = turn[t].opinion
              /\ \/ turn[t].step = "user" /\ r.step = "assistant"
                 \/ turn[t].step = "assistant" /\ r.step = "sum"
              /\ Sound(r, t)
         /\ rows' \in Seq(RowShape)
         /\ Len(rows') = Len(rows) + 1 /\ rows'[Len(rows')].chat = turn[t].chat
         /\ \A i \in DOMAIN rows : rows'[i] = rows[i]
<1>1. /\ turn[t] \in TurnShape /\ turn[t].step \in {"user", "assistant"}
      /\ Sound(turn[t], t) /\ turn[t].chat \in Nat
      /\ rows \in Seq(RowShape)
      /\ rows' = Append(rows, [chat |-> turn[t].chat, role |-> turn[t].step])
  BY DEF AgentTypes, Say, TurnsSound, TurnShape
<1>2. PICK s \in {"assistant", "sum"} : s = IF turn[t].step = "user" THEN "assistant" ELSE "sum"
  OBVIOUS
<1> DEFINE r == [turn[t] EXCEPT !.step = s]
<1>3. Put(t, r)
  BY <1>1, <1>2 DEF Say, TurnShape
<1>4. /\ r \in TurnShape /\ r.step = s /\ r.class = turn[t].class /\ r.told = turn[t].told
      /\ r.stale = turn[t].stale /\ r.excused = turn[t].excused /\ r.view = turn[t].view
      /\ r.tools = turn[t].tools /\ r.opinion = turn[t].opinion /\ r.chat = turn[t].chat
  BY <1>1 DEF TurnShape, TurnSteps
<1> HIDE DEF r
<1>5. Sound(r, t)
  BY <1>1, <1>4 DEF Sound, Recordable
<1>6. PICK row \in RowShape : row = [chat |-> turn[t].chat, role |-> turn[t].step]
  BY <1>1 DEF RowShape
<1>7. /\ rows' \in Seq(RowShape)
      /\ Len(rows') = Len(rows) + 1 /\ rows'[Len(rows')].chat = turn[t].chat
      /\ \A i \in DOMAIN rows : rows'[i] = rows[i]
  <2>1. row.chat = turn[t].chat
    BY <1>6
  <2> QED BY <1>1, <1>6, <2>1
<1> QED BY <1>1, <1>2, <1>3, <1>4, <1>5, <1>7

LEMMA PutKeeps ==
  ASSUME AgentTypes, TurnsSound, NEW t \in Turns, NEW r \in TurnShape, Put(t, r),
         Sound(r, t)', garbled \subseteq garbled',
         sessions' \in Nat, sessions <= sessions', r.chat <= sessions',
         rows' \in Seq(RowShape), summed' \subseteq Nat,
         opinions' \in Seq(OpinionShape),
         Len(opinions) <= Len(opinions'), r.opinion <= Len(opinions'), due' = due
  PROVE  AgentTypes' /\ TurnsSound'
<1>1. /\ turn' \in [Turns -> TurnShape] /\ turn'[t] = r /\ \A u \in Turns : u # t => turn'[u] = turn[u]
  BY DEF Put, AgentTypes
<1>2. /\ Len(opinions) \in Nat /\ Len(opinions') \in Nat /\ due \subseteq DOMAIN opinions
      /\ DOMAIN opinions = 1 .. Len(opinions) /\ DOMAIN opinions' = 1 .. Len(opinions')
  BY DEF AgentTypes
<1>3. due' \subseteq DOMAIN opinions'
  BY <1>2
<1>4. ASSUME NEW u \in Turns
      PROVE  turn'[u].chat <= sessions' /\ turn'[u].opinion <= Len(opinions')
  <2>1. CASE u = t
    BY <1>1, <2>1
  <2>2. CASE u # t
    <3>1. /\ turn[u].chat \in Nat /\ turn[u].chat <= sessions /\ sessions \in Nat
          /\ turn[u].opinion \in Nat /\ turn[u].opinion <= Len(opinions)
      BY DEF AgentTypes, TurnShape
    <3> QED BY <1>1, <1>2, <2>2, <3>1
  <2> QED BY <2>1, <2>2
<1>5. AgentTypes'
  BY <1>1, <1>3, <1>4 DEF AgentTypes
<1>6. ASSUME NEW u \in Turns PROVE Sound(turn[u], u)'
  <2>1. CASE u = t
    BY <1>1, <2>1 DEF Sound, Recordable
  <2>2. CASE u # t
    <3>1. Sound(turn[u], u)
      BY DEF TurnsSound
    <3> QED BY <1>1, <2>2, <3>1, SoundStays DEF Sound, Recordable
  <2> QED BY <2>1, <2>2
<1> QED BY <1>5, <1>6 DEF TurnsSound

(* A step of a turn in the action of the desk it belongs to.               *)
LEMMA TurnTypes ==
  ASSUME AgentTypes, TurnsSound, NEW t \in Turns,
         Asks(t) \/ Uses(t) \/ TurnStep(t) \/ TurnStumbles(t) \/ Fails(t)
  PROVE  AgentTypes' /\ TurnsSound'
<1>1. /\ turn[t] \in TurnShape /\ sessions \in Nat /\ turn[t].chat <= sessions /\ turn[t].chat \in Nat
      /\ turn[t].opinion <= Len(opinions) /\ summed \subseteq Nat /\ Len(opinions) \in Nat
      /\ rows \in Seq(RowShape)
      /\ opinions \in Seq(OpinionShape)
  BY DEF AgentTypes, TurnShape
<1>2. CASE Ask(t)
  <2>1. PICK r \in TurnShape : Put(t, r) /\ r.chat = sessions /\ r.opinion = 0 /\ Sound(r, t)
    BY <1>2, AskEffects
  <2>2. UNCHANGED <<sessions, rows, summed, opinions, due, garbled>>
    BY <1>2 DEF Ask
  <2>3. /\ garbled \subseteq garbled' /\ rows' \in Seq(RowShape)
        /\ opinions' \in Seq(OpinionShape) /\ summed' \subseteq Nat
        /\ Len(opinions) <= Len(opinions') /\ due' = due /\ sessions' \in Nat /\ sessions <= sessions'
    BY <1>1, <2>1, <2>2
  <2>4. r.chat <= sessions' /\ r.opinion <= Len(opinions') /\ Sound(r, t)'
    BY <1>1, <2>1, <2>2, <2>3, SoundStays
  <2> QED BY <2>1, <2>2, <2>3, <2>4, PutKeeps
<1>3. CASE Open(t)
  <2>1. PICK r \in TurnShape : Put(t, r) /\ r.chat = sessions + 1 /\ r.opinion = 0 /\ Sound(r, t)
    BY <1>3, OpenEffects
  <2>2. sessions' = sessions + 1 /\ UNCHANGED <<rows, summed, opinions, due, garbled>>
    BY <1>3 DEF Open
  <2>3. /\ garbled \subseteq garbled' /\ rows' \in Seq(RowShape)
        /\ opinions' \in Seq(OpinionShape) /\ summed' \subseteq Nat
        /\ Len(opinions) <= Len(opinions') /\ due' = due /\ sessions' \in Nat /\ sessions <= sessions'
    BY <1>1, <2>1, <2>2
  <2>4. r.chat <= sessions' /\ r.opinion <= Len(opinions') /\ Sound(r, t)'
    BY <1>1, <2>1, <2>2, <2>3, SoundStays
  <2> QED BY <2>1, <2>2, <2>3, <2>4, PutKeeps
<1>4. CASE \E ok, behind \in BOOLEAN : UseTool(t, ok, behind)
  <2>1. PICK ok \in BOOLEAN, behind \in BOOLEAN : UseTool(t, ok, behind)
    BY <1>4
  <2>2. PICK r \in TurnShape : /\ Put(t, r) /\ r.chat = turn[t].chat /\ r.opinion = turn[t].opinion
                               /\ Sound(r, t)
    BY <2>1, ToolEffects
  <2>3. UNCHANGED <<sessions, rows, summed, opinions, due, garbled>>
    BY <2>1 DEF UseTool
  <2>4. /\ garbled \subseteq garbled' /\ rows' \in Seq(RowShape)
        /\ opinions' \in Seq(OpinionShape) /\ summed' \subseteq Nat
        /\ Len(opinions) <= Len(opinions') /\ due' = due /\ sessions' \in Nat /\ sessions <= sessions'
    BY <1>1, <2>2, <2>3
  <2>5. r.chat <= sessions' /\ r.opinion <= Len(opinions') /\ Sound(r, t)'
    BY <1>1, <2>2, <2>3, <2>4, SoundStays
  <2> QED BY <2>2, <2>3, <2>4, <2>5, PutKeeps
<1>5. CASE \E view, clean, class \in BOOLEAN : Reply(t, view, clean, class)
  <2>1. PICK view \in BOOLEAN, clean \in BOOLEAN, class \in BOOLEAN : Reply(t, view, clean, class)
    BY <1>5
  <2>2. PICK r \in TurnShape : /\ Put(t, r) /\ r.chat = turn[t].chat /\ r.opinion = turn[t].opinion
                               /\ Sound(r, t)'
    BY <2>1, ReplyEffects
  <2>3. garbled \subseteq garbled' /\ UNCHANGED <<sessions, rows, summed, opinions, due>>
    BY <2>1 DEF Reply
  <2>4. /\ garbled \subseteq garbled' /\ rows' \in Seq(RowShape)
        /\ opinions' \in Seq(OpinionShape) /\ summed' \subseteq Nat
        /\ Len(opinions) <= Len(opinions') /\ due' = due /\ sessions' \in Nat /\ sessions <= sessions'
    BY <1>1, <2>2, <2>3
  <2>5. r.chat <= sessions' /\ r.opinion <= Len(opinions') /\ Sound(r, t)'
    BY <1>1, <2>2, <2>3, <2>4, SoundStays
  <2> QED BY <2>2, <2>3, <2>4, <2>5, PutKeeps
<1>6. CASE \E view, clean \in BOOLEAN : Regenerate(t, view, clean)
  <2>1. PICK view \in BOOLEAN, clean \in BOOLEAN : Regenerate(t, view, clean)
    BY <1>6
  <2>2. PICK r \in TurnShape : /\ Put(t, r) /\ r.chat = turn[t].chat /\ r.opinion = turn[t].opinion
                               /\ Sound(r, t)'
    BY <2>1, RegenerateEffects
  <2>3. garbled \subseteq garbled' /\ UNCHANGED <<sessions, rows, summed, opinions, due>>
    BY <2>1 DEF Regenerate
  <2>4. /\ garbled \subseteq garbled' /\ rows' \in Seq(RowShape)
        /\ opinions' \in Seq(OpinionShape) /\ summed' \subseteq Nat
        /\ Len(opinions) <= Len(opinions') /\ due' = due /\ sessions' \in Nat /\ sessions <= sessions'
    BY <1>1, <2>2, <2>3
  <2>5. r.chat <= sessions' /\ r.opinion <= Len(opinions') /\ Sound(r, t)'
    BY <1>1, <2>2, <2>3, <2>4, SoundStays
  <2> QED BY <2>2, <2>3, <2>4, <2>5, PutKeeps
<1>7. CASE \E failed, opens \in BOOLEAN : Check(t, failed, opens)
  <2>1. PICK failed \in BOOLEAN, opens \in BOOLEAN : Check(t, failed, opens)
    BY <1>7
  <2>2. PICK r \in TurnShape : /\ Put(t, r) /\ r.chat = turn[t].chat /\ r.opinion = turn[t].opinion
                               /\ Sound(r, t)
    BY <2>1, CheckEffects
  <2>3. UNCHANGED <<sessions, rows, summed, opinions, due, garbled>>
    BY <2>1 DEF Check
  <2>4. /\ garbled \subseteq garbled' /\ rows' \in Seq(RowShape)
        /\ opinions' \in Seq(OpinionShape) /\ summed' \subseteq Nat
        /\ Len(opinions) <= Len(opinions') /\ due' = due /\ sessions' \in Nat /\ sessions <= sessions'
    BY <1>1, <2>2, <2>3
  <2>5. r.chat <= sessions' /\ r.opinion <= Len(opinions') /\ Sound(r, t)'
    BY <1>1, <2>2, <2>3, <2>4, SoundStays
  <2> QED BY <2>2, <2>3, <2>4, <2>5, PutKeeps
<1>8. CASE \E ok, gradable \in BOOLEAN : Log(t, ok, gradable)
  <2>1. PICK ok \in BOOLEAN, gradable \in BOOLEAN : Log(t, ok, gradable)
    BY <1>8
  <2>2. PICK r \in TurnShape : /\ Put(t, r) /\ r.chat = turn[t].chat /\ r.opinion <= Len(opinions')
                               /\ Sound(r, t)
    BY <2>1, LogEffects
  <2>3. UNCHANGED <<sessions, rows, summed, due, garbled>>
    BY <2>1 DEF Log
  <2>4. /\ opinions' \in Seq(OpinionShape)
        /\ Len(opinions) <= Len(opinions')
    BY <2>1, LogEffects
  <2>5. /\ garbled \subseteq garbled' /\ rows' \in Seq(RowShape)
        /\ opinions' \in Seq(OpinionShape) /\ summed' \subseteq Nat
        /\ Len(opinions) <= Len(opinions') /\ due' = due /\ sessions' \in Nat /\ sessions <= sessions'
    BY <1>1, <2>2, <2>3, <2>4
  <2>6. r.chat <= sessions' /\ r.opinion <= Len(opinions') /\ Sound(r, t)'
    BY <1>1, <2>2, <2>3, <2>4, <2>5, SoundStays
  <2> QED BY <2>2, <2>3, <2>4, <2>5, <2>6, PutKeeps
<1>9. CASE Say(t)
  <2>1. PICK r \in TurnShape : /\ Put(t, r) /\ r.chat = turn[t].chat /\ r.opinion = turn[t].opinion
                               /\ Sound(r, t)
    BY <1>9, SayEffects
  <2>2. UNCHANGED <<sessions, summed, opinions, due, garbled>>
    BY <1>9 DEF Say
  <2>3. rows' \in Seq(RowShape)
    BY <1>9, SayEffects
  <2>4. /\ garbled \subseteq garbled' /\ rows' \in Seq(RowShape)
        /\ opinions' \in Seq(OpinionShape) /\ summed' \subseteq Nat
        /\ Len(opinions) <= Len(opinions') /\ due' = due /\ sessions' \in Nat /\ sessions <= sessions'
    BY <1>1, <2>1, <2>2, <2>3
  <2>5. r.chat <= sessions' /\ r.opinion <= Len(opinions') /\ Sound(r, t)'
    BY <1>1, <2>1, <2>2, <2>3, <2>4, SoundStays
  <2> QED BY <2>1, <2>2, <2>3, <2>4, <2>5, PutKeeps
<1>10. CASE \E ok \in BOOLEAN : Summarize(t, ok)
  <2>1. PICK r \in TurnShape : Put(t, r) /\ r.chat = 0 /\ r.opinion = 0 /\ Sound(r, t)
    BY <1>10, NoTurnFacts DEF Summarize
  <2>2. UNCHANGED <<sessions, rows, opinions, due, garbled>>
    BY <1>10 DEF Summarize
  <2>3. summed' \subseteq Nat
    <3>1. \A c : Written(c) \subseteq Nat
      BY <1>1 DEF Written
    <3> QED BY <1>1, <1>10, <3>1 DEF Summarize
  <2>4. /\ garbled \subseteq garbled' /\ rows' \in Seq(RowShape)
        /\ opinions' \in Seq(OpinionShape) /\ summed' \subseteq Nat
        /\ Len(opinions) <= Len(opinions') /\ due' = due /\ sessions' \in Nat /\ sessions <= sessions'
    BY <1>1, <2>1, <2>2, <2>3
  <2>5. r.chat <= sessions' /\ r.opinion <= Len(opinions') /\ Sound(r, t)'
    BY <1>1, <2>1, <2>2, <2>3, <2>4, SoundStays
  <2> QED BY <2>1, <2>2, <2>3, <2>4, <2>5, PutKeeps
<1>11. CASE Fails(t)
  <2>1. PICK r \in TurnShape : /\ Put(t, r) /\ r.chat = turn[t].chat /\ r.opinion = turn[t].opinion
                               /\ Sound(r, t)
    BY <1>11, BrokenFacts DEF Fails
  <2>2. UNCHANGED <<sessions, rows, summed, opinions, due, garbled>>
    BY <1>11 DEF Fails
  <2>3. /\ garbled \subseteq garbled' /\ rows' \in Seq(RowShape)
        /\ opinions' \in Seq(OpinionShape) /\ summed' \subseteq Nat
        /\ Len(opinions) <= Len(opinions') /\ due' = due /\ sessions' \in Nat /\ sessions <= sessions'
    BY <1>1, <2>1, <2>2
  <2>4. r.chat <= sessions' /\ r.opinion <= Len(opinions') /\ Sound(r, t)'
    BY <1>1, <2>1, <2>2, <2>3, SoundStays
  <2> QED BY <2>1, <2>2, <2>3, <2>4, PutKeeps
<1>12. Behind \in BOOLEAN
  BY DEF Behind
<1> QED BY <1>2, <1>3, <1>4, <1>5, <1>6, <1>7, <1>8, <1>9, <1>10, <1>11, <1>12
       DEF Asks, Uses, TurnStep, TurnStumbles

LEMMA GraderTypes ==
  ASSUME AgentTypes, TurnsSound, Night \/ Grade \/ \E written \in BOOLEAN : Abort(written)
  PROVE  AgentTypes' /\ TurnsSound' /\ UNCHANGED <<turn, sessions, rows, summed, garbled>>
<1>1. UNCHANGED <<turn, sessions, rows, summed, garbled>>
  BY DEF Night, Grade, Abort
<1>2. TurnsSound'
  BY <1>1, SoundStays DEF TurnsSound, Sound, Recordable
<1>3. opinions \in Seq(OpinionShape) /\ due \subseteq DOMAIN opinions
  BY DEF AgentTypes
<1>4. ASSUME NEW i, NEW b \in BOOLEAN, opinions' = [opinions EXCEPT ![i].graded = b], due' \subseteq due
      PROVE  /\ opinions' \in Seq(OpinionShape) /\ Len(opinions') = Len(opinions)
             /\ due' \subseteq DOMAIN opinions'
  <2>1. CASE i \notin DOMAIN opinions
    <3>1. \A o : [opinions EXCEPT ![i] = o] = [x \in DOMAIN opinions |-> opinions[x]]
      BY <2>1
    <3>2. opinions = [x \in DOMAIN opinions |-> opinions[x]]
      BY <1>3
    <3>3. opinions' = opinions
      BY <1>4, <3>1, <3>2
    <3> QED BY <1>3, <1>4, <3>3
  <2>2. CASE i \in DOMAIN opinions
    <3>1. PICK o \in OpinionShape : o = [opinions[i] EXCEPT !.graded = b]
      <4>1. opinions[i] \in OpinionShape
        BY <1>3, <2>2
      <4> QED BY <4>1 DEF OpinionShape
    <3>2. opinions' = [opinions EXCEPT ![i] = o]
      BY <1>4, <3>1
    <3> QED BY <1>3, <1>4, <2>2, <3>2
  <2> QED BY <2>1, <2>2
<1>5. /\ opinions' \in Seq(OpinionShape) /\ Len(opinions') = Len(opinions)
      /\ due' \subseteq DOMAIN opinions'
  <2>1. CASE Night
    BY <1>3, <2>1 DEF Night, Pending, Ungraded
  <2>2. CASE Grade
    <3>1. PICK i : due' = due \ {i} /\ opinions' = [opinions EXCEPT ![i].graded = opinions[i].gradable]
                   /\ i = Min(due)
      BY <2>2 DEF Grade, Left
    <3>2. due # {}
      BY <2>2 DEF Grade
    <3>3. CASE i \in DOMAIN opinions
      <4>1. opinions[i] \in OpinionShape
        BY <1>3, <3>3
      <4>2. opinions[i].gradable \in BOOLEAN
        BY <4>1 DEF OpinionShape
      <4>3. due' \subseteq due
        BY <3>1
      <4> QED BY <1>4, <3>1, <4>2, <4>3
    <3>4. CASE i \notin DOMAIN opinions
      <4>1. \A o : [opinions EXCEPT ![i] = o] = [x \in DOMAIN opinions |-> opinions[x]]
        BY <3>4
      <4>2. opinions = [x \in DOMAIN opinions |-> opinions[x]]
        BY <1>3
      <4>3. opinions' = opinions
        BY <3>1, <4>1, <4>2
      <4> QED BY <1>3, <3>1, <4>3
    <3> QED BY <3>3, <3>4
  <2>3. CASE \E written \in BOOLEAN : Abort(written)
    <3>1. PICK written \in BOOLEAN : Abort(written)
      BY <2>3
    <3>2. PICK i : opinions' = [opinions EXCEPT ![i].graded = written] /\ due' = {}
      BY <3>1 DEF Abort
    <3> QED BY <1>4, <3>2
  <2> QED BY <2>1, <2>2, <2>3
<1> QED BY <1>1, <1>2, <1>5 DEF AgentTypes

LEMMA AgentRestarts ==
  ASSUME AgentTypes, TurnsSound, Restarts
  PROVE  AgentTypes' /\ TurnsSound'
<1>1. /\ turn' = [t \in Turns |-> IF turn[t].step \in {"unasked", "final"} THEN turn[t]
                                  ELSE [turn[t] EXCEPT !.step = "error"]]
      /\ due' = {} /\ UNCHANGED <<sessions, rows, summed, opinions, garbled>>
  BY DEF Restarts
<1>2. ASSUME NEW t \in Turns
      PROVE  /\ turn'[t] \in TurnShape /\ Sound(turn'[t], t)
             /\ turn'[t].chat <= sessions /\ turn'[t].opinion <= Len(opinions)
  <2>1. /\ turn[t] \in TurnShape /\ Sound(turn[t], t)
        /\ turn[t].chat <= sessions /\ turn[t].opinion <= Len(opinions)
        /\ sessions \in Nat /\ Len(opinions) \in Nat
    BY DEF AgentTypes, TurnsSound
  <2>2. PICK r \in TurnShape : /\ r = [turn[t] EXCEPT !.step = "error"] /\ Sound(r, t)
                              /\ r.chat = turn[t].chat /\ r.opinion = turn[t].opinion
    BY BrokenFacts
  <2>3. CASE turn'[t] = turn[t]
    BY <2>1, <2>3
  <2>4. CASE turn'[t] = r
    BY <2>1, <2>2, <2>4
  <2> QED BY <1>1, <2>2, <2>3, <2>4
<1>3. TurnsSound'
  BY <1>1, <1>2 DEF TurnsSound, Sound, Recordable
<1> QED BY <1>1, <1>2, <1>3 DEF AgentTypes

(* The groups of the desk's actions that the proofs tell apart.            *)
WatcherStep ==
  \E c \in Coroutines :
    \/ \E near \in BOOLEAN : Take(c, near)
    \/ \E lean \in Lean : DayRead(c, lean)
    \/ Store(c)
    \/ Send(c)

Begins == Tick \/ \E kind \in {"bar_1m", "bar_5m"} : Event(kind)

Turning ==
  \E t \in Turns : Asks(t) \/ Uses(t) \/ TurnStep(t) \/ TurnStumbles(t) \/ Fails(t)

Grading ==
  /\ Night \/ Grade \/ \E written \in BOOLEAN : Abort(written)
  /\ Aside /\ bound' = bound /\ (mishap' = mishap \/ mishap' = TRUE)

LEMMA StepCases ==
  ASSUME Next
  PROVE  \/ Time \/ (\E h \in {"never", "fresh", "behind", "offline"} : Heart(h)) \/ Mute \/ Watch
         \/ (\E f \in Forms : Count(f) \/ Enter(f)) \/ Backlog \/ Subscribe
         \/ /\ WatcherStep \/ Begins
            /\ UNCHANGED <<agentVars, webVars, bound>> /\ (mishap => mishap')
            /\ mishap' = mishap \/ mishap' = TRUE
         \/ \E c \in Coroutines : Posts(c) \/ Publish(c)
         \/ /\ \E c \in DOMAIN co : Raise(c)
            /\ UNCHANGED <<agentVars, webVars, bound>> /\ mishap' = TRUE
         \/ Restarts
         \/ /\ Turning /\ UNCHANGED <<world, watcherVars, pings, life, form, page, awaited, bound>>
            /\ hurried' = hurried \/ \E t \in Turns : Asks(t)
            /\ mishap' = mishap \/ mishap' = TRUE
            /\ mishap' \/ \E t \in Turns : Asks(t) \/ Uses(t) \/ TurnStep(t)
         \/ Grading
<1>1. CASE ClockStep
  BY <1>1 DEF ClockStep, Looks, Silent, Spend, WatcherStep, Begins, Coroutines, Lean, budget, webVars
<1>2. CASE EventStep
  BY <1>2 DEF EventStep, Looks, Silent, Spend, WatcherStep, Begins, Coroutines, Lean, budget, webVars
<1>3. CASE Events
  BY <1>3 DEF Events, WatcherStep, Begins
<1>4. CASE CallFails
  BY <1>4 DEF CallFails, WatcherStep, Coroutines, Lean, Turning, Grading, Aside, webVars
<1>5. CASE \E t \in Turns : Asks(t)
  BY <1>5 DEF Asks, Turning
<1>6. CASE \E t \in Turns : Uses(t) \/ TurnStep(t) \/ TurnStumbles(t)
  BY <1>6 DEF Uses, TurnStep, TurnStumbles, Aside, Spend, Turning, webVars, budget
<1>7. CASE GraderStep
  BY <1>7 DEF GraderStep, Grading, budget
<1> QED BY <1>1, <1>2, <1>3, <1>4, <1>5, <1>6, <1>7 DEF Next, Coroutines

LEMMA WatcherKept ==
  ASSUME WatcherTypes, UNCHANGED <<world, lastRead, mem, co, pings, life>>
  PROVE  WatcherTypes'
<1>1. UNCHANGED <<now, heart, muted, watching, entries, outage, lastRead, mem, co, pings, life>>
  BY DEF world
<1>2. ASSUME NEW c \in Coroutines PROVE CoFits(co[c])'
  BY <1>1 DEF WatcherTypes, CoFits
<1> QED BY <1>1, <1>2 DEF WatcherTypes

LEMMA AgentKept ==
  ASSUME AgentTypes, TurnsSound, UNCHANGED agentVars
  PROVE  AgentTypes' /\ TurnsSound'
<1>1. UNCHANGED <<turn, sessions, rows, summed, opinions, due, garbled>>
  BY DEF agentVars
<1>2. TurnsSound'
  BY <1>1, SoundStays DEF TurnsSound, Sound, Recordable
<1> QED BY <1>1, <1>2 DEF AgentTypes

(* The world and the web application change what they change.             *)
LEMMA WorldTypes ==
  ASSUME WatcherTypes, WebTypes,
         \/ Time \/ (\E h \in {"never", "fresh", "behind", "offline"} : Heart(h)) \/ Mute \/ Watch
         \/ \E f \in Forms : Count(f) \/ Enter(f)
         \/ Backlog \/ Subscribe
  PROVE  WatcherTypes' /\ UNCHANGED <<lastRead, mem, co, pings, life, agentVars, mishap, bound>>
<1>1. UNCHANGED <<lastRead, mem, co, pings, life, agentVars, mishap, bound>>
  BY DEF Time, Heart, Mute, Watch, Count, Enter, Backlog, Subscribe, watcherVars, budget
<1>2. \A c \in Coroutines : CoFits(co[c])'
  BY <1>1 DEF WatcherTypes, CoFits
<1>3. now' \in Moments
  <2>1. now \in Moments
    BY DEF WatcherTypes
  <2>2. CASE Time
    <3>1. bound.days \in 1 .. Cardinality(Days) /\ bound.slots \in 0 .. LastSlot
      BY DeskAssumption DEF WebTypes
    <3>2. /\ Days = 1 .. Cardinality(Days) /\ LastSlot \in Int /\ now.day \in Days /\ now.at \in 0 .. LastSlot
      BY <2>1, <3>1, ConstantFacts DEF Moments
    <3>3. CASE now.at < bound.slots
      <4>1. now' = [now EXCEPT !.at = now.at + 1] /\ now.at + 1 \in 0 .. LastSlot
        BY <2>2, <3>1, <3>2, <3>3 DEF Time
      <4> QED BY <2>1, <4>1 DEF Moments
    <3>4. CASE ~(now.at < bound.slots)
      <4>1. now' = [day |-> now.day + 1, at |-> 0] /\ now'.day <= bound.days
        BY <2>2, <3>4 DEF Time
      <4>2. now.day + 1 \in Days /\ 0 \in 0 .. LastSlot
        BY <3>1, <3>2, <4>1, ConstantFacts
      <4> QED BY <4>1, <4>2 DEF Moments
    <3> QED BY <3>3, <3>4
  <2>3. CASE ~Time
    <3>1. now' = now
      BY <2>3 DEF Heart, Mute, Watch, Count, Enter, Backlog, Subscribe, world
    <3> QED BY <2>1, <3>1
  <2> QED BY <2>2, <2>3
<1>4. heart' \in {"never", "fresh", "behind", "offline"} /\ muted' \in BOOLEAN /\ watching' \in BOOLEAN
  BY DEF WatcherTypes, Time, Heart, Mute, Watch, Count, Enter, Backlog, Subscribe, world
<1>5. outage' \in Nat
  BY DEF WatcherTypes, Time, Heart, Mute, Watch, Count, Enter, Backlog, Subscribe, world
<1>6. entries' \in [Days -> Nat]
  <2>1. CASE \E f \in Forms : Enter(f)
    <3>1. PICK f \in Forms : entries' = [entries EXCEPT ![form[f].day] = @ + 1] /\ form[f].day \in Days
      BY <2>1 DEF Enter, WebTypes
    <3> QED BY <3>1 DEF WatcherTypes
  <2>2. CASE entries' = entries
    BY <2>2 DEF WatcherTypes
  <2> QED BY <2>1, <2>2 DEF Time, Heart, Mute, Watch, Count, Backlog, Subscribe, world
<1> QED BY <1>1, <1>2, <1>3, <1>4, <1>5, <1>6 DEF WatcherTypes

LEMMA WatcherStepTypes ==
  ASSUME WatcherTypes, WatcherStep \/ Begins
  PROVE  WatcherTypes' /\ UNCHANGED <<world, pings, life>>
<1>1. CASE WatcherStep
  <2>1. WatcherTypes'
    BY <1>1, TakeTypes, DayReadTypes, StoreTypes, SendTypes DEF WatcherStep
  <2>2. UNCHANGED <<world, pings, life>>
    BY <1>1 DEF WatcherStep, Take, DayRead, Store, Send
  <2> QED BY <2>1, <2>2
<1>2. CASE Begins
  <2>1. WatcherTypes'
    BY <1>2, TickTypes, EventTypes DEF Begins
  <2>2. UNCHANGED <<world, pings, life>>
    BY <1>2 DEF Begins, Tick, Event
  <2> QED BY <2>1, <2>2
<1> QED BY <1>1, <1>2

LEMMA WebStep ==
  ASSUME WatcherTypes, WebTypes, Next
  PROVE  WebTypes'
<1>1. CASE Time \/ (\E h \in {"never", "fresh", "behind", "offline"} : Heart(h)) \/ Mute \/ Watch
  BY <1>1 DEF Time, Heart, Mute, Watch, WebTypes, webVars, budget
<1>2. ASSUME NEW f \in Forms, Count(f) PROVE WebTypes'
  <2>1. PICK s \in {"refused", "insert"} : form' = [form EXCEPT ![f] = [step |-> s, day |-> now.day]]
    BY <1>2 DEF Count
  <2>2. now.day \in Days
    BY DEF WatcherTypes, Moments
  <2>3. hurried' \in BOOLEAN /\ UNCHANGED <<bound, page, pings, mishap>>
    BY <1>2 DEF Count, WebTypes
  <2> QED BY <2>1, <2>2, <2>3 DEF WebTypes
<1>3. ASSUME NEW f \in Forms, Enter(f) PROVE WebTypes'
  <2>1. form' = [form EXCEPT ![f].step = "done"] /\ UNCHANGED <<bound, page, pings, mishap, hurried>>
    BY <1>3 DEF Enter, budget
  <2>2. form[f].step = "insert"
    BY <1>3 DEF Enter
  <2> QED BY <2>1, <2>2 DEF WebTypes
<1>4. CASE Backlog \/ Subscribe
  <2>1. UNCHANGED <<bound, form, pings, mishap, hurried>>
    BY <1>4 DEF Backlog, Subscribe, budget
  <2>2. page' \in [step : {"never", "closed", "read", "live"}, shown : SUBSET DOMAIN pings]
    BY <1>4 DEF Backlog, Subscribe, WebTypes
  <2> QED BY <2>1, <2>2 DEF WebTypes
<1>5. ASSUME WatcherStep \/ Begins, UNCHANGED <<agentVars, webVars, bound>>,
             mishap' = mishap \/ mishap' = TRUE
      PROVE  WebTypes'
  BY <1>5, WatcherStepTypes DEF WebTypes, webVars
<1>6. ASSUME NEW c \in Coroutines, Posts(c) PROVE WebTypes'
  <2>1. Insert(c) /\ UNCHANGED <<form, page, hurried, mishap, bound>>
    BY <1>6 DEF Posts, budget
  <2>2. DOMAIN pings \subseteq DOMAIN pings'
    <3>1. pings \in Seq(PingShape) /\ pings' \in Seq(PingShape) /\ Len(pings') = Len(pings) + 1
      BY <2>1, InsertEffects DEF WatcherTypes
    <3> QED BY <3>1
  <2> QED BY <2>1, <2>2 DEF WebTypes
<1>7. ASSUME NEW c \in Coroutines, Publish(c) PROVE WebTypes'
  <2>1. UNCHANGED <<form, hurried, mishap, bound, pings>> /\ co[c].read \in DOMAIN pings
    BY <1>7, PublishEffects DEF Publish, budget
  <2>2. page' = IF page.step = "live" THEN [page EXCEPT !.shown = page.shown \cup {co[c].read}] ELSE page
    BY <1>7 DEF Publish, RowTold
  <2>3. page' \in [step : {"never", "closed", "read", "live"}, shown : SUBSET DOMAIN pings]
    BY <2>1, <2>2 DEF WebTypes
  <2> QED BY <2>1, <2>3 DEF WebTypes
<1>8. ASSUME \E c \in DOMAIN co : Raise(c), UNCHANGED <<agentVars, webVars, bound>>, mishap' = TRUE
      PROVE  WebTypes'
  BY <1>8 DEF Raise, WebTypes, webVars
<1>9. CASE Restarts
  <2>1. /\ UNCHANGED <<form, hurried, bound, pings>> /\ mishap' = TRUE
        /\ page' = IF page.step = "never" THEN page ELSE [page EXCEPT !.step = "closed"]
    BY <1>9 DEF Restarts, Restart
  <2> QED BY <2>1 DEF WebTypes
<1>10. ASSUME Turning, UNCHANGED <<world, watcherVars, pings, life, form, page, awaited, bound>>,
              hurried' = hurried \/ \E t \in Turns : Asks(t), mishap' = mishap \/ mishap' = TRUE
       PROVE  WebTypes'
  <2>1. hurried' \in BOOLEAN
    BY <1>10 DEF Asks, WebTypes
  <2> QED BY <1>10, <2>1 DEF WebTypes
<1>11. CASE Grading
  BY <1>11 DEF Grading, Aside, WebTypes, webVars, budget
<1> QED BY <1>1, <1>2, <1>3, <1>4, <1>5, <1>6, <1>7, <1>8, <1>9, <1>10, <1>11, StepCases

LEMMA TypeStep ==
  ASSUME TypeInv, TurnsSound, [Next]_vars
  PROVE  TypeInv' /\ TurnsSound'
<1>1. WatcherTypes /\ AgentTypes /\ WebTypes /\ DOMAIN co = Coroutines
  BY DEF TypeInv, WatcherTypes
<1>2. CASE UNCHANGED vars
  <2>1. /\ UNCHANGED <<world, lastRead, mem, co, pings, life>> /\ UNCHANGED agentVars
        /\ UNCHANGED <<bound, form, page, hurried, mishap, pings>>
    BY <1>2 DEF vars, watcherVars, webVars, budget
  <2>2. WebTypes'
    BY <1>1, <2>1 DEF WebTypes
  <2> QED BY <1>1, <2>1, <2>2, WatcherKept, AgentKept DEF TypeInv
<1>3. CASE Next
  <2>1. WebTypes'
    BY <1>1, <1>3, WebStep
  <2>2. WatcherTypes' /\ AgentTypes' /\ TurnsSound'
    <3>1. CASE \/ Time \/ (\E h \in {"never", "fresh", "behind", "offline"} : Heart(h)) \/ Mute \/ Watch
               \/ \E f \in Forms : Count(f) \/ Enter(f)
               \/ Backlog \/ Subscribe
      <4>1. WatcherTypes' /\ UNCHANGED agentVars
        BY <1>1, <3>1, WorldTypes
      <4> QED BY <1>1, <4>1, AgentKept
    <3>2. ASSUME WatcherStep \/ Begins, UNCHANGED <<agentVars, webVars, bound>>
          PROVE  WatcherTypes' /\ AgentTypes' /\ TurnsSound'
      BY <1>1, <3>2, WatcherStepTypes, AgentKept
    <3>3. ASSUME NEW c \in Coroutines, Posts(c) PROVE WatcherTypes' /\ AgentTypes' /\ TurnsSound'
      BY <1>1, <3>3, InsertTypes, AgentKept DEF Posts
    <3>4. ASSUME NEW c \in Coroutines, Publish(c) PROVE WatcherTypes' /\ AgentTypes' /\ TurnsSound'
      <4>1. UNCHANGED agentVars
        BY <3>4 DEF Publish
      <4> QED BY <1>1, <3>4, <4>1, PublishEffects, AgentKept
    <3>5. ASSUME \E c \in DOMAIN co : Raise(c), UNCHANGED <<agentVars, webVars, bound>>
          PROVE  WatcherTypes' /\ AgentTypes' /\ TurnsSound'
      BY <1>1, <3>5, RaiseTypes, AgentKept
    <3>6. CASE Restarts
      <4>1. Restart /\ UNCHANGED world
        BY <3>6 DEF Restarts
      <4> QED BY <1>1, <3>6, <4>1, RestartTypes, AgentRestarts
    <3>7. ASSUME Turning, UNCHANGED <<world, watcherVars, pings, life, form, page, awaited, bound>>
          PROVE  WatcherTypes' /\ AgentTypes' /\ TurnsSound'
      <4>1. UNCHANGED <<world, lastRead, mem, co, pings, life>>
        BY <3>7 DEF watcherVars
      <4>2. WatcherTypes'
        BY <1>1, <4>1, WatcherKept
      <4> QED BY <1>1, <3>7, <4>2, TurnTypes DEF Turning
    <3>8. CASE Grading
      <4>1. Night \/ Grade \/ \E written \in BOOLEAN : Abort(written)
        BY <3>8 DEF Grading
      <4>2. UNCHANGED <<world, lastRead, mem, co, pings, life>>
        BY <3>8 DEF Grading, Aside, watcherVars
      <4>3. WatcherTypes'
        BY <1>1, <4>2, WatcherKept
      <4> QED BY <1>1, <4>1, <4>3, GraderTypes
    <3> QED BY <1>3, <3>1, <3>2, <3>3, <3>4, <3>5, <3>6, <3>7, <3>8, StepCases
  <2> QED BY <2>1, <2>2 DEF TypeInv
<1> QED BY <1>2, <1>3

LEMMA TypeInit ==
  ASSUME Init
  PROVE  TypeInv /\ TurnsSound
<1>1. WatcherTypes
  <2>1. now \in Moments
    <3>1. bound.days \in 1 .. Cardinality(Days) /\ bound.slots \in 0 .. LastSlot
      BY DeskAssumption DEF Init
    <3>2. 1 \in Days /\ 0 \in 0 .. LastSlot
      BY <3>1, ConstantFacts
    <3> QED BY <3>2 DEF Init, Moments
  <2>2. Fresh \in MemShape
    BY ConstantFacts DEF Fresh, MemShape
  <2>3. co \in [Coroutines -> CoShape] /\ \A c \in Coroutines : CoFits(co[c])
    BY IdleFacts DEF Init, WatcherInit, Coroutines
  <2>4. pings \in Seq(PingShape) /\ entries \in [Days -> Nat]
    BY DEF Init, WatcherInit
  <2> QED BY <2>1, <2>2, <2>3, <2>4 DEF Init, WatcherInit, WatcherTypes, Lean
<1>2. ASSUME NEW t \in Turns
      PROVE  turn[t] \in TurnShape /\ Sound(turn[t], t) /\ turn[t].chat = 0 /\ turn[t].opinion = 0
  <2>1. turn[t] = [NoTurn EXCEPT !.step = "unasked"]
    BY DEF Init, AgentInit, NoTurn
  <2> QED BY <2>1, NoTurnFacts
<1>3. AgentTypes
  <2>1. /\ sessions = 0 /\ rows = <<>> /\ summed = {} /\ opinions = <<>> /\ due = {}
        /\ turn = [t \in Turns |-> NoTurn]
    BY DEF Init, AgentInit
  <2>2. rows \in Seq(RowShape) /\ opinions \in Seq(OpinionShape) /\ Len(opinions) = 0
    BY <2>1
  <2> QED BY <1>2, <2>1, <2>2 DEF AgentTypes
<1>4. WebTypes
  <2>1. /\ bound \in Scenarios /\ hurried = FALSE /\ mishap = FALSE /\ pings = <<>>
        /\ form = [f \in Forms |-> [step |-> "blank", day |-> None]]
        /\ page = [step |-> IF bound.pages THEN "closed" ELSE "never", shown |-> {}]
    BY DEF Init, WatcherInit
  <2> QED BY <2>1 DEF WebTypes
<1> QED BY <1>1, <1>2, <1>3, <1>4 DEF TypeInv, TurnsSound

-----------------------------------------------------------------------------
(* The feed of an open page.  Pings are awaited only by a page that is     *)
(* subscribed, and a ping that was inserted stays on its coroutine until   *)
(* it is published.                                                        *)
FeedInv == (page.step # "live" => awaited = {}) /\ FeedShows

LEMMA PublishersStay ==
  ASSUME WatcherTypes, WatcherStep \/ Begins
  PROVE  DOMAIN co' = DOMAIN co /\ \A d \in DOMAIN co : co[d].step = "publish" => co'[d] = co[d]
<1>1. PICK c \in Coroutines, r \in CoShape : Become(c, r) /\ co[c].step # "publish"
  <2>1. CASE WatcherStep
    <3>1. PICK c \in Coroutines : \/ \E near \in BOOLEAN : Take(c, near)
                                  \/ \E lean \in Lean : DayRead(c, lean)
                                  \/ Store(c) \/ Send(c)
      BY <2>1 DEF WatcherStep
    <3>2. co[c].step # "publish"
      BY <3>1 DEF Take, DayRead, Store, Send
    <3>3. co' = [co EXCEPT ![c] = co'[c]] /\ co'[c] \in CoShape
      <4>1. \E r : Become(c, r)
        BY <3>1, TakeEffects, DayReadEffects, StoreEffects, SendEffects
      <4>2. WatcherTypes'
        BY <2>1, WatcherStepTypes
      <4> QED BY <4>1, <4>2 DEF WatcherTypes, Become
    <3> QED BY <3>2, <3>3 DEF Become
  <2>2. CASE Begins
    <3>1. PICK c \in Coroutines : co[c] = Idle /\ \E p : co' = [co EXCEPT ![c].plan = p]
      BY <2>2 DEF Begins, Tick, Event, Coroutines
    <3>2. WatcherTypes'
      BY <2>2, WatcherStepTypes
    <3>3. co[c].step # "publish"
      BY <3>1, IdleFacts
    <3>4. co' = [co EXCEPT ![c] = co'[c]] /\ co'[c] \in CoShape
      BY <3>1, <3>2 DEF WatcherTypes
    <3> QED BY <3>3, <3>4 DEF Become
  <2> QED BY <2>1, <2>2
<1> QED BY <1>1 DEF WatcherTypes, Become

LEMMA FeedStep ==
  ASSUME TypeInv, FeedInv, [Next]_vars
  PROVE  FeedInv'
<1>1. WatcherTypes /\ WebTypes /\ DOMAIN co = Coroutines
  BY DEF TypeInv, WatcherTypes
<1>2. CASE UNCHANGED <<page, awaited, co>> /\ (mishap => mishap')
  BY <1>2 DEF FeedInv, FeedShows
<1>3. CASE UNCHANGED vars
  BY <1>2, <1>3 DEF vars, watcherVars, webVars, budget
<1>4. CASE Next
  <2>1. CASE \/ Time \/ (\E h \in {"never", "fresh", "behind", "offline"} : Heart(h)) \/ Mute \/ Watch
             \/ \E f \in Forms : Count(f) \/ Enter(f)
    BY <1>2, <2>1 DEF Time, Heart, Mute, Watch, Count, Enter, webVars, watcherVars, budget
  <2>2. CASE Backlog
    <3>1. page.step = "closed" /\ page'.step = "read" /\ awaited' = awaited
      BY <2>2 DEF Backlog
    <3> QED BY <3>1 DEF FeedInv, FeedShows
  <2>3. CASE Subscribe
    <3>1. page.step = "read" /\ awaited' = awaited
      BY <2>3 DEF Subscribe
    <3>2. awaited' = {}
      BY <3>1 DEF FeedInv
    <3> QED BY <3>2 DEF FeedInv, FeedShows
  <2>4. ASSUME WatcherStep \/ Begins, UNCHANGED <<agentVars, webVars, bound>>, mishap => mishap'
        PROVE  FeedInv'
    BY <1>1, <2>4, PublishersStay DEF FeedInv, FeedShows, webVars
  <2>5. ASSUME NEW c \in Coroutines, Posts(c) PROVE FeedInv'
    <3>1. /\ Become(c, Inserted(c)) /\ Inserted(c).step = "publish" /\ Inserted(c).read = Len(pings')
          /\ co[c].step = "insert"
      BY <1>1, <2>5, InsertEffects DEF Posts
    <3>2. /\ page' = page /\ mishap' = mishap
          /\ awaited' = IF page.step = "live" THEN awaited \cup {Len(pings')} ELSE awaited
      BY <2>5 DEF Posts, budget
    <3>3. co'[c].step = "publish" /\ co'[c].read = Len(pings') /\ DOMAIN co' = DOMAIN co
      BY <1>1, <3>1 DEF Become
    <3>4. \A d \in DOMAIN co : co[d].step = "publish" => co'[d] = co[d]
      BY <1>1, <3>1 DEF Become
    <3> QED BY <1>1, <3>2, <3>3, <3>4 DEF FeedInv, FeedShows
  <2>6. ASSUME NEW c \in Coroutines, Publish(c) PROVE FeedInv'
    <3>1. /\ Become(c, Dropped(c)) /\ awaited' = awaited /\ mishap' = mishap
          /\ page' = IF page.step = "live" THEN [page EXCEPT !.shown = page.shown \cup {co[c].read}] ELSE page
      BY <1>1, <2>6, PublishEffects DEF Publish, RowTold, budget
    <3>2. page'.step = page.step
          /\ (page.step = "live" => page'.shown = page.shown \cup {co[c].read})
      BY <1>1, <3>1 DEF WebTypes
    <3>3. DOMAIN co' = DOMAIN co /\ \A d \in DOMAIN co : d # c => co'[d] = co[d]
      BY <1>1, <3>1 DEF Become
    <3> QED BY <1>1, <3>1, <3>2, <3>3 DEF FeedInv, FeedShows
  <2>7. ASSUME UNCHANGED <<page, awaited>>, mishap' = TRUE PROVE FeedInv'
    BY <2>7 DEF FeedInv, FeedShows
  <2>8. CASE Restarts
    <3>1. awaited' = {}
      BY <2>8 DEF Restarts
    <3> QED BY <3>1 DEF FeedInv, FeedShows
  <2>9. ASSUME UNCHANGED <<world, watcherVars, pings, life, form, page, awaited, bound>>,
               mishap' = mishap \/ mishap' = TRUE
        PROVE  FeedInv'
    BY <1>2, <2>9 DEF watcherVars
  <2>10. CASE Grading
    BY <1>2, <2>10 DEF Grading, Aside, webVars, watcherVars, budget
  <2> QED BY <1>4, <2>1, <2>2, <2>3, <2>4, <2>5, <2>6, <2>7, <2>8, <2>9, <2>10, StepCases DEF webVars
<1> QED BY <1>3, <1>4

-----------------------------------------------------------------------------
(* The memory of a chat.  A turn leaves two rows and then writes the       *)
(* summary when it is due, so it was written from the last Transcript of   *)
(* the rows up to a multiple of Every, and fewer than Every have followed, *)
(* until the next one falls due.                                           *)
EvenRows == \E p \in Nat : Len(rows) = 2 * p
OddRows == \E p \in Nat : Len(rows) = 2 * p + 1

SummedUpTo(m) == m <= Len(rows) /\ \A i \in 1 .. m : i + Transcript > m => i \in summed
Covered == \E k \in Nat : SummedUpTo(k * Every) /\ Len(rows) < k * Every + Every
Owed == \E k \in Nat : SummedUpTo(k * Every) /\ Len(rows) <= k * Every + Every

RowsFit(step) ==
  /\ IF step = "assistant" THEN OddRows ELSE EvenRows
  /\ IF step = "sum" THEN Owed ELSE Covered

ChatFit(r) ==
  /\ r.step = "open" => sessions = 0
  /\ Active(r) /\ r.step # "open" => r.chat = 1 /\ sessions = 1
  /\ Active(r) => RowsFit(r.step)

OneChat ==
  /\ sessions \in {0, 1} /\ (sessions = 0 => rows = <<>>)
  /\ \A i \in DOMAIN rows : rows[i].chat = 1

OneAtWork == \A t, u \in Turns : Active(turn[t]) /\ Active(turn[u]) => t = u

ChatInv ==
  (~hurried /\ ~mishap) =>
    /\ OneChat /\ OneAtWork /\ \A t \in Turns : ChatFit(turn[t])
    /\ (\A t \in Turns : ~Active(turn[t])) => RowsFit("unasked")

ToldInv == TypeInv /\ TurnsSound /\ FeedInv /\ ChatInv

LEMMA EveryFacts ==
  /\ Every \in Nat \ {0} /\ Window \in Nat /\ Transcript \in Nat /\ Every <= Window /\ Every <= Transcript
  /\ \E half \in Nat : Every = 2 * half
  /\ \A k \in Nat : k * Every \in Nat
  /\ \A k \in Nat, n \in Nat : n = k * Every + Every => SummaryDue(n)
  /\ \A n \in Nat : SummaryDue(n) => \E q \in Nat : n = q * Every
<1>1. /\ Every \in Nat \ {0} /\ Window \in Nat /\ Transcript \in Nat
      /\ Every <= Window /\ Every <= Transcript /\ \E half \in Nat : Every = 2 * half
  BY AgentAssumption
<1>2. \A k \in Nat : k * Every \in Nat
  BY <1>1
<1>3. ASSUME NEW k \in Nat, NEW n \in Nat, n = k * Every + Every
      PROVE  SummaryDue(n)
  <2> DEFINE q == n \div Every  x == n % Every
  <2>0. Every \in Nat \ {0}
    BY <1>1
  <2>1. q \in Nat /\ x \in 0 .. Every - 1 /\ n = Every * q + x
    BY <2>0, SMT
  <2> HIDE DEF q
  <2>2. n = Every * (k + 1) /\ n > 0
    BY <1>1, <1>3
  <2>3. q = k + 1
    <3>1. CASE q <= k
      <4>1. Every * q <= Every * k
        BY <1>1, <2>1, <3>1
      <4> QED BY <1>1, <2>1, <2>2, <4>1
    <3>2. CASE q >= k + 2
      <4>1. Every * (k + 2) <= Every * q
        BY <1>1, <2>1, <3>2
      <4> QED BY <1>1, <2>1, <2>2, <4>1
    <3> QED BY <2>1, <3>1, <3>2
  <2>4. n % Every = 0
    BY <1>1, <2>1, <2>2, <2>3
  <2> QED BY <2>2, <2>4 DEF SummaryDue
<1>4. ASSUME NEW n \in Nat, SummaryDue(n)
      PROVE  \E q \in Nat : n = q * Every
  <2> DEFINE q == n \div Every
  <2>1. Every \in Nat \ {0}
    BY <1>1
  <2>2. q \in Nat /\ n = Every * q + (n % Every)
    BY <2>1, SMT
  <2> HIDE DEF q
  <2>3. n = q * Every
    BY <1>4, <2>1, <2>2 DEF SummaryDue
  <2> QED BY <2>2, <2>3
<1> QED BY <1>1, <1>2, <1>3, <1>4

(* With an odd row more, fewer than Every are still not in the summary.    *)
LEMMA OddRowsCovered ==
  ASSUME NEW n \in Nat, NEW p \in Nat, NEW k \in Nat, n = 2 * p, n < k * Every + Every
  PROVE  n + 1 < k * Every + Every
<1>1. PICK half \in Nat : Every = 2 * half
  BY EveryFacts
<1>2. PICK m \in Nat : m = k * half
  BY <1>1
<1>3. k * Every = 2 * m
  BY <1>1, <1>2
<1> QED BY <1>1, <1>3

LEMMA IntervalSize ==
  ASSUME NEW m \in Nat, NEW n \in Nat, NEW S \in SUBSET (m .. n), m <= n
  PROVE  IsFiniteSet(S) /\ Cardinality(S) <= n - m + 1
<1>1. IsFiniteSet(m .. n) /\ Cardinality(m .. n) = n - m + 1
  BY FS_Interval
<1>2. IsFiniteSet(S) /\ Cardinality(S) <= Cardinality(m .. n)
  BY <1>1, FS_Subset
<1> QED BY <1>1, <1>2

LEMMA SinceFacts ==
  ASSUME AgentTypes, OneChat, NEW i \in DOMAIN rows
  PROVE  Since(i) = Len(rows) - i + 1
<1>1. rows \in Seq(RowShape) /\ i \in 1 .. Len(rows) /\ Len(rows) \in Nat
  BY DEF AgentTypes
<1>2. {j \in i .. Len(rows) : rows[j].chat = rows[i].chat} = i .. Len(rows)
  BY <1>1 DEF OneChat
<1>3. Cardinality(i .. Len(rows)) = Len(rows) - i + 1
  BY <1>1, FS_Interval
<1> QED BY <1>2, <1>3 DEF Since

LEMMA ContextFromChat ==
  ASSUME AgentTypes, ChatInv
  PROVE  ContextKept
<1> SUFFICES ASSUME ~hurried, ~mishap, NEW t \in Turns, turn[t].step = "model",
                    NEW i \in RowsIn(turn[t].chat), Since(i) <= Transcript, i \notin summed
             PROVE  Since(i) <= Window
  BY DEF ContextKept
<1>1. rows \in Seq(RowShape) /\ i \in DOMAIN rows /\ i \in 1 .. Len(rows) /\ Len(rows) \in Nat
  BY DEF AgentTypes, RowsIn
<1>2. Covered /\ OneChat
  BY DEF ChatInv, ChatFit, Active, RowsFit
<1>3. PICK k \in Nat : SummedUpTo(k * Every) /\ Len(rows) < k * Every + Every
  BY <1>2 DEF Covered
<1>4. PICK m \in Nat : m = k * Every
  BY EveryFacts
<1>5. Since(i) = Len(rows) - i + 1
  BY <1>1, <1>2, SinceFacts
<1>6. m <= Len(rows) /\ (i <= m => i + Transcript <= m)
  BY <1>1, <1>3, <1>4, EveryFacts DEF SummedUpTo
<1>7. i + Transcript > Len(rows)
  BY <1>1, <1>5, EveryFacts
<1>8. i > m
  BY <1>1, <1>4, <1>6, <1>7, EveryFacts
<1> QED BY <1>1, <1>3, <1>4, <1>5, <1>8, EveryFacts

(* One turn moves while no other is at work.                               *)
LEMMA ChatMove ==
  ASSUME AgentTypes, ChatInv, ~hurried, ~mishap, NEW t \in Turns, NEW r \in TurnShape, Put(t, r),
         \A u \in Turns : u # t => ~Active(turn[u]),
         OneChat', ChatFit(r)', ~Active(r) => RowsFit("unasked")'
  PROVE  ChatInv'
<1>1. /\ DOMAIN turn' = Turns /\ turn'[t] = r /\ \A u \in Turns : u # t => turn'[u] = turn[u]
  BY DEF Put, AgentTypes
<1>2. OneAtWork'
  BY <1>1 DEF OneAtWork
<1>3. ASSUME NEW u \in Turns PROVE ChatFit(turn[u])'
  <2>1. CASE u = t
    BY <1>1, <2>1 DEF ChatFit, Active
  <2>2. CASE u # t
    <3>1. turn'[u] = turn[u] /\ ~Active(turn[u])
      BY <1>1, <2>2
    <3> QED BY <3>1 DEF ChatFit, Active
  <2> QED BY <2>1, <2>2
<1>4. (\A u \in Turns : ~Active(turn'[u])) => RowsFit("unasked")'
  BY <1>1
<1> QED BY <1>2, <1>3, <1>4 DEF ChatInv, Active

LEMMA RowsFitStays ==
  ASSUME NEW s, RowsFit(s), UNCHANGED <<rows, summed>>
  PROVE  RowsFit(s)'
BY DEF RowsFit, EvenRows, OddRows, Covered, Owed, SummedUpTo

LEMMA RowsFitSame ==
  ASSUME NEW s, NEW q, s \notin {"assistant", "sum"}, q \notin {"assistant", "sum"}, RowsFit(s)
  PROVE  RowsFit(q)
BY DEF RowsFit

LEMMA OneChatStays ==
  ASSUME OneChat, UNCHANGED <<sessions, rows>>
  PROVE  OneChat'
BY DEF OneChat

LEMMA OthersIdle ==
  ASSUME ChatInv, ~hurried, ~mishap, NEW t \in Turns, Active(turn[t])
  PROVE  \A u \in Turns : u # t => ~Active(turn[u])
BY DEF ChatInv, OneAtWork

(* The row a turn appends, and the summary it writes.                      *)
LEMMA SayRows ==
  ASSUME rows \in Seq(RowShape), rows' \in Seq(RowShape), Len(rows') = Len(rows) + 1,
         summed' = summed
  PROVE  /\ RowsFit("user") => RowsFit("assistant")'
         /\ RowsFit("assistant") => RowsFit("sum")'
<1>1. Len(rows) \in Nat
  OBVIOUS
<1>2. ASSUME RowsFit("user") PROVE RowsFit("assistant")'
  <2>1. PICK p \in Nat : Len(rows) = 2 * p
    BY <1>2 DEF RowsFit, EvenRows
  <2>2. OddRows'
    BY <2>1 DEF OddRows
  <2>3. PICK k \in Nat : SummedUpTo(k * Every) /\ Len(rows) < k * Every + Every
    BY <1>2 DEF RowsFit, Covered
  <2>4. Len(rows') < k * Every + Every
    BY <1>1, <2>1, <2>3, OddRowsCovered
  <2>5. SummedUpTo(k * Every)'
    <3>1. k * Every \in Nat
      BY EveryFacts
    <3>2. k * Every <= Len(rows')
      BY <1>1, <2>3, <3>1 DEF SummedUpTo
    <3> QED BY <2>3, <3>2 DEF SummedUpTo
  <2>6. Covered'
    BY <2>4, <2>5 DEF Covered
  <2> QED BY <2>2, <2>6 DEF RowsFit
<1>3. ASSUME RowsFit("assistant") PROVE RowsFit("sum")'
  <2>1. PICK p \in Nat : Len(rows) = 2 * p + 1
    BY <1>3 DEF RowsFit, OddRows
  <2>2. Len(rows') = 2 * (p + 1) /\ p + 1 \in Nat
    BY <2>1
  <2>3. EvenRows'
    BY <2>2 DEF EvenRows
  <2>4. PICK k \in Nat : SummedUpTo(k * Every) /\ Len(rows) < k * Every + Every
    BY <1>3 DEF RowsFit, Covered
  <2>5. k * Every \in Nat /\ Every \in Nat
    BY EveryFacts
  <2>6. Len(rows') <= k * Every + Every /\ k * Every <= Len(rows')
    BY <1>1, <2>4, <2>5 DEF SummedUpTo
  <2>7. SummedUpTo(k * Every)'
    BY <2>4, <2>6 DEF SummedUpTo
  <2>8. Owed'
    BY <2>6, <2>7 DEF Owed
  <2> QED BY <2>3, <2>8 DEF RowsFit
<1> QED BY <1>2, <1>3

LEMMA SummaryRows ==
  ASSUME AgentTypes, OneChat, RowsFit("sum"), rows' = rows,
         IF SummaryDue(Cardinality(RowsIn(1))) THEN Written(1) \subseteq summed' ELSE summed' = summed
  PROVE  RowsFit("unasked")'
<1>1. rows \in Seq(RowShape) /\ Len(rows) \in Nat
  BY DEF AgentTypes
<1>2. PICK k \in Nat : SummedUpTo(k * Every) /\ Len(rows) <= k * Every + Every
  BY DEF RowsFit, Owed
<1>3. EvenRows'
  BY DEF RowsFit, EvenRows
<1>4. Cardinality(RowsIn(1)) = Len(rows)
  <2>1. RowsIn(1) = 1 .. Len(rows)
    BY <1>1 DEF RowsIn, OneChat
  <2>2. Cardinality(1 .. Len(rows)) = IF 1 > Len(rows) THEN 0 ELSE Len(rows) - 1 + 1
    BY <1>1, FS_Interval
  <2> QED BY <1>1, <2>1, <2>2
<1>5. CASE ~SummaryDue(Len(rows))
  <2>1. k * Every \in Nat /\ Every \in Nat /\ Len(rows) # k * Every + Every
    BY <1>1, <1>5, EveryFacts
  <2>2. Len(rows) < k * Every + Every
    BY <1>1, <1>2, <2>1
  <2>3. summed' = summed
    BY <1>4, <1>5
  <2>4. Covered'
    BY <1>2, <2>2, <2>3 DEF Covered, SummedUpTo
  <2> QED BY <1>3, <2>4 DEF RowsFit
<1>6. CASE SummaryDue(Len(rows))
  <2>1. PICK q \in Nat : Len(rows) = q * Every
    BY <1>1, <1>6, EveryFacts
  <2>2. ASSUME NEW i \in 1 .. Len(rows), i + Transcript > Len(rows) PROVE i \in summed'
    <3>1. i \in DOMAIN rows /\ rows[i].chat = 1
      BY <1>1 DEF OneChat
    <3>2. Since(i) <= Transcript
      BY <1>1, <2>2, <3>1, SinceFacts, EveryFacts
    <3>3. i \in Written(1)
      BY <3>1, <3>2 DEF Written, Since
    <3> QED BY <1>4, <1>6, <3>3
  <2>3. SummedUpTo(q * Every)' /\ Len(rows') < q * Every + Every
    BY <1>1, <2>1, <2>2, EveryFacts DEF SummedUpTo
  <2>4. Covered'
    BY <2>3 DEF Covered
  <2> QED BY <1>3, <2>4 DEF RowsFit
<1> QED BY <1>5, <1>6

(* The steps of a turn that leave rows and summary alone.                  *)
LEMMA ChatStays ==
  ASSUME AgentTypes, ChatInv, ~hurried, ~mishap, NEW t \in Turns, NEW r \in TurnShape, Put(t, r),
         turn[t].step \in {"model", "check", "log"}, r.step \in {"model", "check", "log", "user"},
         r.chat = turn[t].chat, UNCHANGED <<sessions, rows, summed>>
  PROVE  ChatInv'
<1>1. Active(turn[t]) /\ Active(r)
  BY DEF Active
<1>2. OneChat /\ ChatFit(turn[t])
  BY DEF ChatInv
<1>3. turn[t].chat = 1 /\ sessions = 1 /\ RowsFit(turn[t].step)
  BY <1>1, <1>2 DEF ChatFit
<1>4. RowsFit(r.step)'
  <2>1. RowsFit(r.step)
    BY <1>3, RowsFitSame
  <2> QED BY <2>1, RowsFitStays
<1>5. ChatFit(r)'
  BY <1>3, <1>4 DEF ChatFit, Active
<1> QED BY <1>1, <1>2, <1>5, OneChatStays, OthersIdle, ChatMove

LEMMA ChatTurn ==
  ASSUME AgentTypes, TurnsSound, ChatInv, ~hurried', ~mishap', ~hurried, ~mishap,
         NEW t \in Turns, Asks(t) \/ Uses(t) \/ TurnStep(t)
  PROVE  ChatInv'
<1>1. /\ turn[t] \in TurnShape /\ sessions \in Nat /\ rows \in Seq(RowShape)
      /\ OneChat /\ OneAtWork /\ ChatFit(turn[t])
  BY DEF AgentTypes, ChatInv
<1>2. CASE Asks(t)
  <2>1. \A u \in Turns : ~Active(turn[u])
    BY <1>2 DEF Asks, Active
  <2>2. RowsFit("unasked")
    BY <2>1 DEF ChatInv
  <2>3. Ask(t) /\ UNCHANGED <<sessions, rows, summed>>
    BY <1>2 DEF Asks, Ask
  <2>4. PICK r \in TurnShape : /\ Put(t, r) /\ r.chat = sessions
                               /\ r.step = IF sessions = 0 THEN "open" ELSE "model"
    BY <2>3, AskEffects
  <2>5. RowsFit(r.step)'
    <3>1. RowsFit(r.step)
      BY <2>2, <2>4, RowsFitSame
    <3> QED BY <2>3, <3>1, RowsFitStays
  <2>6. ChatFit(r)' /\ Active(r)
    BY <1>1, <2>3, <2>4, <2>5 DEF ChatFit, Active, OneChat
  <2> QED BY <1>1, <2>1, <2>3, <2>4, <2>6, OneChatStays, ChatMove
<1>3. CASE Open(t)
  <2>1. turn[t].step = "open" /\ sessions' = sessions + 1 /\ UNCHANGED <<rows, summed>>
    BY <1>3 DEF Open
  <2>2. sessions = 0 /\ Active(turn[t]) /\ RowsFit("open") /\ rows = <<>>
    BY <1>1, <2>1 DEF ChatFit, Active, OneChat
  <2>3. PICK r \in TurnShape : Put(t, r) /\ r.chat = sessions + 1 /\ r.step = "model"
    BY <1>3, OpenEffects
  <2>4. RowsFit("model")'
    <3>1. RowsFit("model")
      BY <2>2, RowsFitSame
    <3> QED BY <2>1, <3>1, RowsFitStays
  <2>5. ChatFit(r)' /\ Active(r) /\ OneChat'
    BY <1>1, <2>1, <2>2, <2>3, <2>4 DEF ChatFit, Active, OneChat
  <2> QED BY <2>2, <2>3, <2>5, OthersIdle, ChatMove
<1>4. CASE Uses(t)
  <2> DEFINE late == Behind
  <2>0. late \in BOOLEAN
    BY DEF Behind
  <2>1. PICK ok \in BOOLEAN, behind \in BOOLEAN : UseTool(t, ok, behind)
    BY <1>4, <2>0 DEF Uses
  <2>2. PICK r \in TurnShape : Put(t, r) /\ r.chat = turn[t].chat /\ r.step = "model" /\ turn[t].step = "model"
    BY <2>1, ToolEffects
  <2>3. UNCHANGED <<sessions, rows, summed>>
    BY <2>1 DEF UseTool
  <2> QED BY <2>2, <2>3, ChatStays
<1>5. CASE \E view, clean, class \in BOOLEAN : Reply(t, view, clean, class)
  <2>1. PICK view \in BOOLEAN, clean \in BOOLEAN, class \in BOOLEAN : Reply(t, view, clean, class)
    BY <1>5
  <2>2. PICK r \in TurnShape : Put(t, r) /\ r.chat = turn[t].chat /\ r.step = "check" /\ turn[t].step = "model"
    BY <2>1, ReplyEffects
  <2>3. UNCHANGED <<sessions, rows, summed>>
    BY <2>1 DEF Reply
  <2> QED BY <2>2, <2>3, ChatStays
<1>6. CASE \E view, clean \in BOOLEAN : Regenerate(t, view, clean)
  <2>1. PICK view \in BOOLEAN, clean \in BOOLEAN : Regenerate(t, view, clean)
    BY <1>6
  <2>2. PICK r \in TurnShape : Put(t, r) /\ r.chat = turn[t].chat /\ r.step = "check" /\ turn[t].step = "check"
    BY <2>1, RegenerateEffects
  <2>3. UNCHANGED <<sessions, rows, summed>>
    BY <2>1 DEF Regenerate
  <2> QED BY <2>2, <2>3, ChatStays
<1>7. CASE \E opens \in BOOLEAN : Check(t, FALSE, opens)
  <2>0. PICK opens \in BOOLEAN : Check(t, FALSE, opens)
    BY <1>7
  <2>1. PICK r \in TurnShape :
          Put(t, r) /\ r.chat = turn[t].chat /\ r.step \in {"log", "user"} /\ turn[t].step = "check"
    BY <2>0, CheckEffects
  <2>2. UNCHANGED <<sessions, rows, summed>>
    BY <2>0 DEF Check
  <2> QED BY <2>1, <2>2, ChatStays
<1>8. CASE \E gradable \in BOOLEAN : Log(t, TRUE, gradable)
  <2>1. PICK gradable \in BOOLEAN : Log(t, TRUE, gradable)
    BY <1>8
  <2>2. PICK r \in TurnShape : Put(t, r) /\ r.chat = turn[t].chat /\ r.step = "user" /\ turn[t].step = "log"
    BY <2>1, LogEffects
  <2>3. UNCHANGED <<sessions, rows, summed>>
    BY <2>1 DEF Log
  <2> QED BY <2>2, <2>3, ChatStays
<1>9. CASE Say(t)
  <2>1. UNCHANGED <<sessions, summed>>
    BY <1>9 DEF Say
  <2>2. PICK r \in TurnShape :
          /\ Put(t, r) /\ r.chat = turn[t].chat
          /\ \/ turn[t].step = "user" /\ r.step = "assistant"
             \/ turn[t].step = "assistant" /\ r.step = "sum"
    BY <1>9, SayEffects
  <2>3. /\ rows' \in Seq(RowShape) /\ Len(rows') = Len(rows) + 1 /\ rows'[Len(rows')].chat = turn[t].chat
        /\ \A i \in DOMAIN rows : rows'[i] = rows[i]
    BY <1>9, SayEffects
  <2>4. Active(turn[t]) /\ Active(r) /\ turn[t].chat = 1 /\ sessions = 1 /\ RowsFit(turn[t].step)
    BY <1>1, <2>2 DEF Active, ChatFit
  <2>5. OneChat'
    <3>1. \A i \in DOMAIN rows' : i \in DOMAIN rows \/ i = Len(rows')
      BY <1>1, <2>3
    <3> QED BY <1>1, <2>1, <2>3, <2>4, <3>1 DEF OneChat
  <2>6. RowsFit(r.step)'
    <3>1. /\ RowsFit("user") => RowsFit("assistant")'
          /\ RowsFit("assistant") => RowsFit("sum")'
      BY <1>1, <2>1, <2>3, SayRows
    <3>2. CASE turn[t].step = "user" /\ r.step = "assistant"
      BY <2>4, <3>1, <3>2 DEF RowsFit
    <3>3. CASE turn[t].step = "assistant" /\ r.step = "sum"
      BY <2>4, <3>1, <3>3 DEF RowsFit
    <3> QED BY <2>2, <3>2, <3>3
  <2>7. ChatFit(r)'
    BY <2>1, <2>2, <2>4, <2>6 DEF ChatFit
  <2> QED BY <2>2, <2>4, <2>5, <2>7, OthersIdle, ChatMove
<1>10. CASE Summarize(t, TRUE)
  <2>1. turn[t].step = "sum" /\ UNCHANGED <<sessions, rows>>
        /\ summed' = IF SummaryDue(Cardinality(RowsIn(turn[t].chat)))
                     THEN (summed \ RowsIn(turn[t].chat)) \cup Written(turn[t].chat) ELSE summed
    BY <1>10 DEF Summarize
  <2>2. PICK r \in TurnShape : Put(t, r) /\ r.step = "final"
    BY <1>10, NoTurnFacts DEF Summarize
  <2>3. Active(turn[t]) /\ turn[t].chat = 1 /\ RowsFit("sum") /\ ~Active(r)
    BY <1>1, <2>1, <2>2 DEF Active, ChatFit
  <2>4. RowsFit("unasked")'
    BY <1>1, <2>1, <2>3, SummaryRows
  <2>5. ChatFit(r)'
    BY <2>2, <2>3 DEF ChatFit, Active
  <2> QED BY <1>1, <2>1, <2>2, <2>3, <2>4, <2>5, OneChatStays, OthersIdle, ChatMove
<1> QED BY <1>2, <1>3, <1>4, <1>5, <1>6, <1>7, <1>8, <1>9, <1>10 DEF TurnStep

LEMMA ChatUntouched ==
  ASSUME ChatInv, UNCHANGED <<turn, sessions, rows, summed>>,
         hurried => hurried', mishap => mishap'
  PROVE  ChatInv'
<1>1. ~hurried' /\ ~mishap' => ~hurried /\ ~mishap
  OBVIOUS
<1>2. ASSUME ~hurried, ~mishap
      PROVE  /\ OneChat' /\ OneAtWork' /\ \A t \in Turns : ChatFit(turn[t])'
             /\ (\A t \in Turns : ~Active(turn'[t])) => RowsFit("unasked")'
  <2>1. /\ OneChat /\ OneAtWork /\ \A t \in Turns : ChatFit(turn[t])
        /\ (\A t \in Turns : ~Active(turn[t])) => RowsFit("unasked")
    BY <1>2 DEF ChatInv
  <2>2. OneChat' /\ OneAtWork'
    BY <2>1, OneChatStays DEF OneAtWork
  <2>3. ASSUME NEW t \in Turns PROVE ChatFit(turn[t])'
    <3>1. ChatFit(turn[t]) /\ (Active(turn[t]) => RowsFit(turn[t].step)')
      <4>1. ChatFit(turn[t])
        BY <2>1
      <4>2. PICK s : s = turn[t].step
        OBVIOUS
      <4>3. Active(turn[t]) => RowsFit(s)'
        BY <4>1, <4>2, RowsFitStays DEF ChatFit
      <4> QED BY <4>1, <4>2, <4>3 DEF RowsFit
    <3> QED BY <3>1 DEF ChatFit
  <2> QED BY <2>1, <2>2, <2>3, RowsFitStays
<1> QED BY <1>1, <1>2 DEF ChatInv, Active

LEMMA ChatStep ==
  ASSUME TypeInv, TurnsSound, ChatInv, [Next]_vars
  PROVE  ChatInv'
<1>1. AgentTypes /\ hurried \in BOOLEAN /\ mishap \in BOOLEAN
  BY DEF TypeInv, WebTypes
<1>2. CASE UNCHANGED vars
  BY <1>2, ChatUntouched DEF vars, agentVars, webVars, budget
<1>3. CASE Next
  <2>1. CASE mishap'
    BY <2>1 DEF ChatInv
  <2>2. CASE \/ Time \/ (\E h \in {"never", "fresh", "behind", "offline"} : Heart(h)) \/ Mute \/ Watch
             \/ \E f \in Forms : Count(f) \/ Enter(f)
             \/ Backlog \/ Subscribe
    <3>1. UNCHANGED <<turn, sessions, rows, summed, mishap>>
      BY <2>2 DEF Time, Heart, Mute, Watch, Count, Enter, Backlog, Subscribe, agentVars, budget
    <3>2. hurried => hurried'
      BY <2>2 DEF Time, Heart, Mute, Watch, Count, Enter, Backlog, Subscribe, webVars
    <3> QED BY <3>1, <3>2, ChatUntouched
  <2>3. ASSUME UNCHANGED <<agentVars, webVars, bound>>, mishap => mishap' PROVE ChatInv'
    BY <2>3, ChatUntouched DEF agentVars, webVars
  <2>4. ASSUME NEW c \in Coroutines, Posts(c) \/ Publish(c) PROVE ChatInv'
    BY <2>4, ChatUntouched DEF Posts, Publish, agentVars, budget
  <2>5. ASSUME NEW t \in Turns, Asks(t) \/ Uses(t) \/ TurnStep(t), ~mishap', mishap' = mishap,
               hurried' = hurried \/ \E u \in Turns : Asks(u)
        PROVE  ChatInv'
    <3>1. CASE hurried'
      BY <3>1 DEF ChatInv
    <3>2. CASE ~hurried'
      <4>1. ~hurried
        BY <1>1, <2>5, <3>2 DEF Asks
      <4> QED BY <1>1, <2>5, <3>2, <4>1, ChatTurn
    <3> QED BY <3>1, <3>2
  <2>6. CASE Restarts
    BY <2>1, <2>6 DEF Restarts
  <2>7. CASE Grading
    <3>1. UNCHANGED <<turn, sessions, rows, summed, hurried>>
      BY <2>7 DEF Grading, Night, Grade, Abort, Aside, webVars
    <3>2. mishap => mishap'
      BY <2>7 DEF Grading
    <3> QED BY <3>1, <3>2, ChatUntouched
  <2> QED BY <1>3, <2>1, <2>2, <2>3, <2>4, <2>5, <2>6, <2>7, StepCases DEF Turning
<1> QED BY <1>2, <1>3

LEMMA ToldStep ==
  ToldInv /\ [Next]_vars => ToldInv'
BY TypeStep, FeedStep, ChatStep DEF ToldInv

LEMMA ToldInit ==
  Init => ToldInv
<1> SUFFICES ASSUME Init PROVE ToldInv
  OBVIOUS
<1>1. TypeInv /\ TurnsSound
  BY TypeInit
<1>2. FeedInv
  BY DEF Init, FeedInv, FeedShows
<1>3. ChatInv
  <2>1. \A t \in Turns : turn[t] = NoTurn /\ ~Active(turn[t]) /\ turn[t].step = "unasked"
    BY DEF Init, AgentInit, NoTurn, Active
  <2>2. sessions = 0 /\ rows = <<>> /\ Len(rows) = 0
    BY DEF Init, AgentInit
  <2>3. RowsFit("unasked")
    <3>1. EvenRows
      BY <2>2 DEF EvenRows
    <3>2. 0 * Every = 0 /\ Every > 0
      BY EveryFacts
    <3>3. PICK m \in Nat : m = 0 /\ m * Every = 0
      BY <3>2
    <3>4. SummedUpTo(m * Every) /\ Len(rows) < m * Every + Every
      <4>1. SummedUpTo(0)
        <5>1. \A i \in 1 .. 0 : FALSE
          OBVIOUS
        <5> QED BY <2>2, <5>1 DEF SummedUpTo
      <4>2. Every > 0 /\ Every \in Nat
        BY EveryFacts
      <4>3. m * Every = 0
        BY <3>3
      <4>4. Len(rows) < 0 + Every
        BY <2>2, <4>2
      <4> QED BY <4>1, <4>3, <4>4, Zenon
    <3>5. Covered
      BY <3>4 DEF Covered
    <3> QED BY <3>1, <3>5 DEF RowsFit
  <2>4. OneChat /\ OneAtWork
    BY <2>1, <2>2 DEF OneChat, OneAtWork
  <2>5. \A t \in Turns : ChatFit(turn[t])
    BY <2>1 DEF ChatFit
  <2> QED BY <2>3, <2>4, <2>5 DEF ChatInv
<1> QED BY <1>1, <1>2, <1>3 DEF ToldInv

LEMMA ToldHolds ==
  ASSUME ToldInv
  PROVE  ToldInFull
<1>1. StaleToldFirst /\ ViewsRest /\ OpinionsOfReplies
  BY DEF ToldInv, TurnsSound, Sound, Recordable, StaleToldFirst, ViewsRest, OpinionsOfReplies
<1>2. ContextKept
  BY ContextFromChat DEF ToldInv, TypeInv
<1> QED BY <1>1, <1>2 DEF ToldInv, FeedInv, ToldInFull

(* What the desk tells is whole and grounded: an open page shows every     *)
(* ping; a stale answer says so first; a view rests on a tool of its turn; *)
(* what is on record is the view told, unless it was rewritten after it    *)
(* was classified; and, with one turn at a time and no failure, a question *)
(* is asked with each of the chat's last Transcript rows, or with the      *)
(* summary written from it, though each summary replaces the one before.   *)
THEOREM ToldWhole == Spec => []ToldInFull
<1>1. ToldInv /\ [Next]_vars => ToldInv'
  BY ToldStep
<1>2. ToldInv => ToldInFull
  BY ToldHolds
<1> QED BY ToldInit, <1>1, <1>2, PTL DEF Spec

-----------------------------------------------------------------------------
(* The pings a process has booked: those in the table and those on their   *)
(* way there.                                                              *)
Told ==
  {pings[i] : i \in DOMAIN pings} \cup {co[c].ping : c \in {d \in Coroutines : co[d].step = "insert"}}

(* What the watcher's memory knows of each of them, while its process      *)
(* lives.                                                                  *)
Remembered(p) ==
  /\ p.session # mem.day => p.session = None \/ (mem.day \in Days /\ p.session < mem.day)
  /\ p.session = mem.day => /\ mem.fired[p.trigger] # None /\ At(p.sent) <= At(mem.fired[p.trigger])
                            /\ p.trigger = "pre_open_read" => mem.preopen
                            /\ p.trigger = "close_summary" => mem.close
  /\ p.trigger = "engine_offline" /\ p.outage = outage => heart = "offline" /\ mem.offline

Known(p) ==
  /\ p.sent \in Moments /\ At(p.sent) <= At(now)
  /\ p.life <= life
  /\ p.life = life => p.outage <= outage /\ Remembered(p)

(* Two pings of one process that the limits allow beside each other.       *)
Apart(p, q) ==
  (p.life = q.life /\ p.trigger = q.trigger) =>
    /\ p.trigger \in Limited /\ p.session = q.session =>
         At(p.sent) - At(q.sent) >= Cooldown \/ At(q.sent) - At(p.sent) >= Cooldown
    /\ p.trigger \in {"pre_open_read", "close_summary"} => p.session # q.session
    /\ p.trigger = "engine_offline" => p.outage # q.outage

AllApart ==
  /\ \A i, j \in DOMAIN pings : i # j => Apart(pings[i], pings[j])
  /\ \A c \in Coroutines : co[c].step = "insert" => \A i \in DOMAIN pings : Apart(co[c].ping, pings[i])
  /\ (\A c \in Coroutines : co[c].step = "insert") => Apart(co["clock"].ping, co["event"].ping)

(* The limited pings of one session of one process, in the table and on    *)
(* their way.                                                              *)
OfSession(p, alive, session) == p.trigger \in Limited /\ p.life = alive /\ p.session = session
Filed(alive, session) == {i \in DOMAIN pings : OfSession(pings[i], alive, session)}
Coming(alive, session) == {c \in Coroutines : co[c].step = "insert" /\ OfSession(co[c].ping, alive, session)}
Sum(alive, session) == Cardinality(Filed(alive, session)) + Cardinality(Coming(alive, session))

Counts ==
  /\ \A alive \in Nat, session \in Days \cup {None} : Sum(alive, session) <= SessionMax
  /\ Sum(life, mem.day) <= mem.count

BookInv == (\A p \in Told : Known(p)) /\ AllApart /\ Counts

(* What the two coroutines have still to do does not repeat what was done. *)
Untold(trigger) == \A p \in Told : ~(p.trigger = trigger /\ p.life = life /\ p.session = mem.day)
Unheard(o) == \A p \in Told : ~(p.trigger = "engine_offline" /\ p.life = life /\ p.outage = o)

ClockClear(r) ==
  /\ \A i, j \in DOMAIN r.plan : r.plan[i] = r.plan[j] => i = j
  /\ \A i \in DOMAIN r.plan : (i > 1 \/ r.step = "idle") =>
       /\ r.plan[i] = "pre_open_read" => ~mem.preopen
       /\ r.plan[i] = "close_summary" => ~mem.close
  /\ r.step \in {"tool", "store"} /\ Head(r.plan) = "pre_open_read" => mem.preopen /\ Untold("pre_open_read")
  /\ r.step = "ping" =>
       /\ r.ping.life = life /\ r.ping.outage <= outage
       /\ r.ping.trigger = "pre_open_read" => mem.preopen /\ Untold("pre_open_read")
       /\ r.ping.trigger = "close_summary" => mem.close /\ Untold("close_summary")
       /\ r.ping.trigger = "engine_offline" =>
            Unheard(r.ping.outage) /\ (r.ping.outage = outage => heart = "offline" /\ mem.offline)

EventClear(r) ==
  /\ \A i \in DOMAIN r.plan : r.plan[i] \in Limited
  /\ r.step \in {"ping", "insert"} => r.ping.trigger \in Limited
  /\ r.step = "ping" => r.ping.life = life /\ r.ping.outage <= outage

FormInv ==
  ~hurried => /\ \A d \in Days : entries[d] <= MaxEntries
              /\ \A f \in Forms : form[f].step = "insert" => entries[form[f].day] < MaxEntries
              /\ \A f, g \in Forms : form[f].step = "insert" /\ form[g].step = "insert" => f = g

FoldInv == refused \in Int /\ posted \in Int /\ gone \in Int /\ FoldedOnce

LimitInv ==
  /\ mem.day \in Days => mem.day <= now.day
  /\ BookInv /\ ClockClear(co["clock"]) /\ EventClear(co["event"]) /\ FormInv /\ FoldInv

-----------------------------------------------------------------------------
(* What the pings are, and what a step may do to them.                     *)
Keeps ==
  /\ mem'.day = mem.day /\ mem'.fired = mem.fired /\ mem'.count = mem.count
  /\ mem.preopen => mem'.preopen
  /\ mem.close => mem'.close
  /\ heart = "offline" /\ mem.offline => mem'.offline

WorldMoves ==
  /\ At(now) <= At(now')
  /\ \/ outage' = outage /\ (heart = "offline" => heart' = "offline")
     \/ outage' = outage + 1

LEMMA AtFacts ==
  \A m \in Moments : At(m) \in Int
<1>1. LastSlot \in Nat /\ \A d \in Days : d \in Int
  BY ConstantFacts
<1> SUFFICES ASSUME NEW m \in Moments PROVE At(m) \in Int
  OBVIOUS
<1>2. m.day \in Int /\ m.at \in Int
  BY <1>1 DEF Moments
<1>3. m.day * (LastSlot + 1) \in Int
  BY <1>1, <1>2
<1> QED BY <1>2, <1>3 DEF At

LEMMA TimeMoves ==
  ASSUME WatcherTypes, WebTypes, Time
  PROVE  At(now) <= At(now') /\ now.day <= now'.day
<1>1. /\ LastSlot \in Nat /\ now.day \in Int /\ now.at \in 0 .. LastSlot /\ bound.slots \in 0 .. LastSlot
  BY ConstantFacts, DeskAssumption DEF WatcherTypes, Moments, WebTypes
<1>2. CASE now.at < bound.slots
  <2>1. now' = [now EXCEPT !.at = now.at + 1] /\ now'.day = now.day /\ now'.at = now.at + 1
    BY <1>2 DEF Time, WatcherTypes, Moments
  <2>2. PICK a \in Int : a = now.day * (LastSlot + 1)
    BY <1>1
  <2> QED BY <1>1, <2>1, <2>2 DEF At
<1>3. CASE ~(now.at < bound.slots)
  <2>1. now'.day = now.day + 1 /\ now'.at = 0
    BY <1>3 DEF Time
  <2>2. PICK a \in Int : a = now.day * (LastSlot + 1)
    BY <1>1
  <2>3. (now.day + 1) * (LastSlot + 1) = a + (LastSlot + 1)
    BY <1>1, <2>2
  <2> QED BY <1>1, <2>1, <2>2, <2>3 DEF At
<1> QED BY <1>2, <1>3

LEMMA ToldFacts ==
  ASSUME WatcherTypes
  PROVE  /\ Told \subseteq PingShape
         /\ \A i \in DOMAIN pings : pings[i] \in Told
         /\ \A c \in Coroutines : co[c].step = "insert" => co[c].ping \in Told
<1>1. \A c \in Coroutines : co[c].step = "insert" => co[c].ping \in PingShape
  BY DEF WatcherTypes, CoFits
<1>2. pings \in Seq(PingShape)
  BY DEF WatcherTypes
<1> QED BY <1>1, <1>2 DEF Told

LEMMA ShapeFacts ==
  ASSUME NEW p \in PingShape
  PROVE  /\ p.trigger \in Triggers /\ p.life \in Nat /\ p.outage \in Nat
         /\ p.session \in Days \cup {None} /\ p.sent \in Moments \cup {None}
BY DEF PingShape

(* A ping stays known while the memory keeps what it has of it.            *)
LEMMA KnownStays ==
  ASSUME WatcherTypes, NEW p \in PingShape, Known(p), life' = life, Keeps, UNCHANGED world
  PROVE  Known(p)'
BY DEF Known, Remembered, Keeps, world

LEMMA KnownInTime ==
  ASSUME WatcherTypes, WatcherTypes', NEW p \in PingShape, Known(p), UNCHANGED <<life, mem>>, WorldMoves
  PROVE  Known(p)'
<1>1. /\ At(p.sent) \in Int /\ At(now) \in Int /\ At(now') \in Int /\ outage \in Nat /\ p.outage \in Nat
      /\ p.sent \in Moments
  BY AtFacts, ShapeFacts DEF WatcherTypes, Known
<1>2. At(p.sent) <= At(now')
  BY <1>1 DEF Known, WorldMoves
<1>3. p.life = life => p.outage <= outage' /\ Remembered(p)'
  BY <1>1 DEF Known, Remembered, WorldMoves
<1> QED BY <1>1, <1>2, <1>3 DEF Known

(* The count of a session: finite, and no larger when fewer are in it.     *)
LEMMA SumFacts ==
  ASSUME WatcherTypes
  PROVE  \A alive, session :
           /\ IsFiniteSet(Filed(alive, session)) /\ IsFiniteSet(Coming(alive, session))
           /\ Cardinality(Filed(alive, session)) \in Nat /\ Cardinality(Coming(alive, session)) \in Nat
           /\ Sum(alive, session) \in Nat
<1> SUFFICES ASSUME NEW alive, NEW session
             PROVE  /\ IsFiniteSet(Filed(alive, session)) /\ IsFiniteSet(Coming(alive, session))
                    /\ Cardinality(Filed(alive, session)) \in Nat
                    /\ Cardinality(Coming(alive, session)) \in Nat
                    /\ Sum(alive, session) \in Nat
  OBVIOUS
<1>1. IsFiniteSet(DOMAIN pings)
  <2>1. Len(pings) \in Nat /\ DOMAIN pings = 1 .. Len(pings)
    BY DEF WatcherTypes
  <2> QED BY <2>1, FS_Interval
<1>2. IsFiniteSet(Coroutines)
  <2>1. Coroutines = {"clock"} \cup {"event"}
    BY DEF Coroutines
  <2> QED BY <2>1, FS_Singleton, FS_AddElement
<1>3. Filed(alive, session) \in SUBSET DOMAIN pings
  BY DEF Filed
<1>4. Coming(alive, session) \in SUBSET Coroutines
  BY DEF Coming
<1>5. IsFiniteSet(Filed(alive, session)) /\ IsFiniteSet(Coming(alive, session))
  BY <1>1, <1>2, <1>3, <1>4, FS_Subset
<1> QED BY <1>5, FS_CardinalityType DEF Sum

(* How the two sets of a session may change, and its count with them.      *)
LEMMA SumMoves ==
  ASSUME NEW F, NEW C, NEW G, NEW D, NEW x, IsFiniteSet(F), IsFiniteSet(C)
  PROVE  /\ G \subseteq F /\ D \subseteq C => Cardinality(G) + Cardinality(D) <= Cardinality(F) + Cardinality(C)
         /\ G \subseteq F /\ D \subseteq C \cup {x} =>
              Cardinality(G) + Cardinality(D) <= Cardinality(F) + Cardinality(C) + 1
         /\ \A y : x \in C /\ G \subseteq F \cup {y} /\ D \subseteq C \ {x} =>
              Cardinality(G) + Cardinality(D) <= Cardinality(F) + Cardinality(C)
<1>1. Cardinality(F) \in Nat /\ Cardinality(C) \in Nat
  BY FS_CardinalityType
<1>2. /\ \A A \in SUBSET F : Cardinality(A) \in Nat /\ Cardinality(A) <= Cardinality(F)
      /\ \A A \in SUBSET C : Cardinality(A) \in Nat /\ Cardinality(A) <= Cardinality(C)
  BY FS_Subset, FS_CardinalityType
<1>3. ASSUME NEW S, NEW y, IsFiniteSet(S)
      PROVE  \A A \in SUBSET (S \cup {y}) : Cardinality(A) \in Nat /\ Cardinality(A) <= Cardinality(S) + 1
  <2>1. IsFiniteSet(S \cup {y}) /\ Cardinality(S) \in Nat /\ Cardinality(S \cup {y}) <= Cardinality(S) + 1
    <3>1. Cardinality(S) \in Nat
      BY <1>3, FS_CardinalityType
    <3>2. /\ IsFiniteSet(S \cup {y})
          /\ Cardinality(S \cup {y}) = IF y \in S THEN Cardinality(S) ELSE Cardinality(S) + 1
      BY <1>3, FS_AddElement
    <3> QED BY <3>1, <3>2
  <2>2. ASSUME NEW A \in SUBSET (S \cup {y})
        PROVE  Cardinality(A) \in Nat /\ Cardinality(A) <= Cardinality(S \cup {y})
    BY <2>1, FS_Subset, FS_CardinalityType
  <2>3. Cardinality(S \cup {y}) \in Nat
    BY <2>1, FS_CardinalityType
  <2> QED BY <2>1, <2>2, <2>3
<1>4. G \subseteq F /\ D \subseteq C => Cardinality(G) + Cardinality(D) <= Cardinality(F) + Cardinality(C)
  <2>1. G \subseteq F /\ D \subseteq C => /\ Cardinality(G) \in Nat /\ Cardinality(G) <= Cardinality(F)
                                         /\ Cardinality(D) \in Nat /\ Cardinality(D) <= Cardinality(C)
    BY <1>2
  <2> QED BY <1>1, <2>1
<1>5. G \subseteq F /\ D \subseteq C \cup {x} =>
        Cardinality(G) + Cardinality(D) <= Cardinality(F) + Cardinality(C) + 1
  <2>1. G \subseteq F /\ D \subseteq C \cup {x} =>
          /\ Cardinality(G) \in Nat /\ Cardinality(G) <= Cardinality(F)
          /\ Cardinality(D) \in Nat /\ Cardinality(D) <= Cardinality(C) + 1
    BY <1>2, <1>3
  <2> QED BY <1>1, <2>1
<1>6. ASSUME NEW y, x \in C, G \subseteq F \cup {y}, D \subseteq C \ {x}
      PROVE  Cardinality(G) + Cardinality(D) <= Cardinality(F) + Cardinality(C)
  <2>1. IsFiniteSet(C \ {x}) /\ Cardinality(C \ {x}) = Cardinality(C) - 1
    BY <1>6, FS_RemoveElement
  <2>2. Cardinality(D) \in Nat /\ Cardinality(D) <= Cardinality(C \ {x})
    BY <1>6, <2>1, FS_Subset, FS_CardinalityType
  <2>3. Cardinality(G) \in Nat /\ Cardinality(G) <= Cardinality(F) + 1
    BY <1>3, <1>6
  <2> QED BY <1>1, <2>1, <2>2, <2>3
<1> QED BY <1>4, <1>5, <1>6

-----------------------------------------------------------------------------
(* What is booked stays within the limits, step by step.                   *)
LEMMA SumLess ==
  ASSUME WatcherTypes, NEW alive, NEW session, Filed(alive, session)' \subseteq Filed(alive, session),
         Coming(alive, session)' \subseteq Coming(alive, session)
  PROVE  Sum(alive, session)' \in Nat /\ Sum(alive, session)' <= Sum(alive, session)
<1> DEFINE F == Filed(alive, session)  C == Coming(alive, session)
           G == Filed(alive, session)'  D == Coming(alive, session)'
<1>1. IsFiniteSet(F) /\ IsFiniteSet(C)
  BY SumFacts
<1>2. G \subseteq F /\ D \subseteq C
  OBVIOUS
<1>3. Sum(alive, session) = Cardinality(F) + Cardinality(C)
      /\ Sum(alive, session)' = Cardinality(G) + Cardinality(D)
  BY DEF Sum
<1> HIDE DEF F, C, G, D
<1>4. Cardinality(G) \in Nat /\ Cardinality(D) \in Nat
  BY <1>1, <1>2, FS_Subset, FS_CardinalityType
<1> QED BY <1>1, <1>2, <1>3, <1>4, SumMoves

(* A step that books nothing and keeps what the memory has of the pings.   *)
LEMMA BookStays ==
  ASSUME WatcherTypes, WatcherTypes', BookInv, life' = life, pings' = pings,
         mem'.count = mem.count, mem'.day = mem.day, \A p \in Told : Known(p)',
         \A c \in Coroutines : co'[c].step = "insert" => co[c].step = "insert" /\ co'[c].ping = co[c].ping
  PROVE  BookInv' /\ Told' \subseteq Told
<1>1. Told' \subseteq Told
  BY DEF Told
<1>2. \A p \in Told' : Known(p)'
  BY <1>1
<1>3. AllApart'
  BY DEF BookInv, AllApart, Coroutines
<1>4. ASSUME NEW alive, NEW session
      PROVE  Sum(alive, session)' \in Nat /\ Sum(alive, session)' <= Sum(alive, session)
  BY SumLess DEF Filed, Coming, OfSession
<1>5. Counts'
  <2>1. \A alive, session : Sum(alive, session) \in Nat
    BY SumFacts
  <2>2. SessionMax \in Nat /\ mem.count \in Nat
    BY ConstantFacts DEF WatcherTypes, MemShape
  <2> QED BY <1>4, <2>1, <2>2 DEF BookInv, Counts
<1> QED BY <1>1, <1>2, <1>3, <1>5 DEF BookInv

LEMMA BookKeeps ==
  ASSUME WatcherTypes, WatcherTypes', BookInv, life' = life, pings' = pings, UNCHANGED world, Keeps,
         \A c \in Coroutines : co'[c].step = "insert" => co[c].step = "insert" /\ co'[c].ping = co[c].ping
  PROVE  BookInv' /\ Told' \subseteq Told
<1>1. \A p \in Told : Known(p)'
  BY ToldFacts, KnownStays DEF BookInv
<1> QED BY <1>1, BookStays DEF Keeps

LEMMA BookInTime ==
  ASSUME WatcherTypes, WatcherTypes', BookInv, UNCHANGED <<life, pings, mem, co>>, WorldMoves
  PROVE  BookInv' /\ Told' \subseteq Told
<1>1. \A p \in Told : Known(p)'
  BY ToldFacts, KnownInTime DEF BookInv
<1> QED BY <1>1, BookStays

(* A new day: what was booked was booked on an earlier one.                *)
LEMMA KnownNewDay ==
  ASSUME WatcherTypes, mem.day \in Days => mem.day <= now.day, mem.day # now.day,
         NEW p \in PingShape, Known(p), life' = life, UNCHANGED world, mem' = NewDay(mem)
  PROVE  Known(p)' /\ (p.life = life => p.session # mem'.day)
<1>1. /\ mem'.day = now.day /\ now.day \in Days /\ mem'.offline = mem.offline /\ mem.day \in Days \cup {None}
      /\ p.session \in Days \cup {None} /\ None \notin Days /\ \A d \in Days : d \in Int
  BY NewDayFacts, ConstantFacts, ShapeFacts DEF WatcherTypes, MemShape
<1>2. p.life = life => /\ p.session # mem'.day
                       /\ p.session # mem'.day => p.session = None \/ (mem'.day \in Days /\ p.session < mem'.day)
  BY <1>1 DEF Known, Remembered
<1> QED BY <1>1, <1>2 DEF Known, Remembered, world

LEMMA BookNewDay ==
  ASSUME WatcherTypes, WatcherTypes', BookInv, mem.day \in Days => mem.day <= now.day, mem.day # now.day,
         life' = life, pings' = pings, UNCHANGED world, mem' = NewDay(mem),
         \A c \in Coroutines : co'[c].step = "insert" => co[c].step = "insert" /\ co'[c].ping = co[c].ping
  PROVE  BookInv' /\ Told' \subseteq Told
<1>1. \A p \in Told : Known(p)' /\ (p.life = life => p.session # mem'.day)
  BY ToldFacts, KnownNewDay DEF BookInv
<1>2. Told' \subseteq Told
  BY DEF Told
<1>3. AllApart'
  BY DEF BookInv, AllApart, Coroutines
<1>4. ASSUME NEW alive, NEW session
      PROVE  Sum(alive, session)' \in Nat /\ Sum(alive, session)' <= Sum(alive, session)
  BY SumLess DEF Filed, Coming, OfSession
<1>5. Counts'
  <2>1. \A alive, session : Sum(alive, session) \in Nat
    BY SumFacts
  <2>2. SessionMax \in Nat /\ mem'.count = 0 /\ mem'.day = now.day
    BY ConstantFacts, NewDayFacts
  <2>3. Filed(life, mem.day)' = {} /\ Coming(life, mem.day)' = {}
    <3>1. \A p \in Told' : ~(p.life = life /\ p.session = mem'.day)
      BY <1>1, <1>2
    <3>2. /\ \A i \in DOMAIN pings' : pings'[i] \in Told'
          /\ \A c \in Coroutines : co'[c].step = "insert" => co'[c].ping \in Told'
      BY DEF Told
    <3> QED BY <3>1, <3>2 DEF Filed, Coming, OfSession
  <2>4. Sum(life, mem.day)' = 0
    BY <2>3, FS_EmptySet DEF Sum
  <2> QED BY <1>4, <2>1, <2>2, <2>4 DEF BookInv, Counts
<1> QED BY <1>1, <1>2, <1>3, <1>5 DEF BookInv

(* What the rate limit, or the step before it, has made sure of a ping     *)
(* that is booked.                                                         *)
Bookable(trigger, o) ==
  /\ RateOk(mem, trigger)
  /\ trigger = "pre_open_read" => mem.preopen /\ Untold("pre_open_read")
  /\ trigger = "close_summary" => mem.close /\ Untold("close_summary")
  /\ trigger = "engine_offline" => Unheard(o) /\ (o = outage => heart = "offline" /\ mem.offline)

LEMMA NewApart ==
  ASSUME WatcherTypes, \A q \in Told : Known(q), NEW p \in PingShape, p.life = life, p.sent = now,
         p.session = mem.day, Bookable(p.trigger, p.outage), NEW q \in Told
  PROVE  Apart(p, q) /\ Apart(q, p)
<1>1. q \in PingShape /\ Known(q)
  BY ToldFacts
<1>2. /\ At(p.sent) \in Int /\ At(q.sent) \in Int /\ mem.fired \in [Triggers -> Moments \cup {None}]
      /\ p.trigger \in Triggers /\ Cooldown \in Nat
  BY <1>1, AtFacts, ShapeFacts, WatcherAssumption DEF Known, WatcherTypes, MemShape
<1>3. p.trigger \in {"pre_open_read", "close_summary", "engine_offline"} => p.trigger \notin Limited
  BY DEF Limited
<1>4. ASSUME p.life = q.life, p.trigger = q.trigger
      PROVE  /\ p.trigger \in Limited /\ p.session = q.session => At(p.sent) - At(q.sent) >= Cooldown
             /\ p.trigger \in {"pre_open_read", "close_summary"} => p.session # q.session
             /\ p.trigger = "engine_offline" => p.outage # q.outage
  <2>1. ASSUME p.trigger \in Limited, p.session = q.session
        PROVE  At(p.sent) - At(q.sent) >= Cooldown
    <3>1. mem.fired[p.trigger] # None /\ At(q.sent) <= At(mem.fired[p.trigger])
      BY <1>1, <1>4, <2>1 DEF Known, Remembered
    <3>2. At(mem.fired[p.trigger]) \in Int
      BY <1>2, <3>1, AtFacts
    <3>3. ~Cooling(mem, p.trigger)
      BY <2>1 DEF Bookable, RateOk, Unlimited, Limited
    <3>4. At(now) - At(mem.fired[p.trigger]) >= Cooldown
      <4>1. At(now) \in Int
        BY <1>2
      <4> QED BY <1>2, <3>1, <3>2, <3>3, <4>1 DEF Cooling
    <3> QED BY <1>2, <3>1, <3>2, <3>4
  <2>2. p.trigger \in {"pre_open_read", "close_summary"} => p.session # q.session
    BY <1>4 DEF Bookable, Untold
  <2>3. p.trigger = "engine_offline" => p.outage # q.outage
    BY <1>4 DEF Bookable, Unheard
  <2> QED BY <2>1, <2>2, <2>3
<1> QED BY <1>4 DEF Apart

LEMMA BookSend ==
  ASSUME WatcherTypes, WatcherTypes', BookInv, UNCHANGED <<world, life, pings>>,
         NEW c \in Coroutines, co[c].step = "ping", Become(c, Sent(c)), co[c].ping.life = life,
         co[c].ping.outage <= outage, Bookable(co[c].ping.trigger, co[c].ping.outage),
         mem' = Booked(mem, co[c].ping.trigger)
  PROVE  BookInv' /\ \A q \in Told' : q \in Told \/ q.trigger = co[c].ping.trigger
<1>1. PICK p \in PingShape :
        /\ p = Sent(c).ping /\ p.trigger = co[c].ping.trigger /\ p.sent = now /\ p.session = mem.day
        /\ p.life = life /\ p.outage = co[c].ping.outage
  <2>1. Sent(c).step = "insert" /\ CoFits(Sent(c))
    BY SentFacts
  <2> QED BY <2>1, SentFacts DEF CoFits
<1>2. co'[c].step = "insert" /\ co'[c].ping = p /\ \A d \in Coroutines : d # c => co'[d] = co[d]
  BY <1>1, SentFacts DEF Become, WatcherTypes
<1>3. Told' \subseteq Told \cup {p}
  BY <1>2 DEF Told
<1>4. /\ mem'.fired = [mem.fired EXCEPT ![p.trigger] = now] /\ mem'.day = mem.day
      /\ mem'.preopen = mem.preopen /\ mem'.close = mem.close /\ mem'.offline = mem.offline
      /\ mem'.count = (IF p.trigger \in Limited THEN mem.count + 1 ELSE mem.count)
  <2>1. co[c].ping.trigger \in Triggers /\ RateOk(mem, co[c].ping.trigger)
    BY SentFacts DEF Bookable
  <2> QED BY <1>1, <2>1, BookedFacts
<1>5. /\ now \in Moments /\ now # None /\ mem.fired \in [Triggers -> Moments \cup {None}]
      /\ p.trigger \in Triggers /\ At(now) \in Int /\ p.outage \in Nat
      /\ now' = now /\ life' = life /\ outage' = outage /\ heart' = heart
  <2>1. now \in Moments
    BY DEF WatcherTypes
  <2> QED BY <2>1, AtFacts, ShapeFacts, ConstantFacts DEF WatcherTypes, MemShape, world
<1>6. Bookable(p.trigger, p.outage)
  BY <1>1
<1>7. Known(p)'
  <2>1. Remembered(p)'
    BY <1>1, <1>4, <1>5, <1>6 DEF Remembered, Bookable
  <2>2. p.sent \in Moments /\ At(p.sent) <= At(now') /\ p.life <= life' /\ p.outage <= outage'
    BY <1>1, <1>5, ShapeFacts
  <2> QED BY <2>1, <2>2 DEF Known
<1>8. ASSUME NEW q \in Told PROVE Known(q)'
  <2>1. Known(q) /\ q \in PingShape /\ q.trigger \in Triggers /\ q.sent \in Moments
    BY ToldFacts, ShapeFacts DEF BookInv, Known
  <2>2. At(q.sent) <= At(now)
    BY <2>1 DEF Known
  <2>3. mem'.fired[q.trigger] = IF q.trigger = p.trigger THEN now ELSE mem.fired[q.trigger]
    BY <1>4, <1>5, <2>1
  <2>4. q.life = life => Remembered(q)'
    BY <1>4, <1>5, <2>1, <2>2, <2>3 DEF Known, Remembered
  <2> QED BY <1>5, <2>1, <2>4 DEF Known
<1>9. \A q \in Told' : Known(q)'
  BY <1>3, <1>7, <1>8
<1>10. AllApart'
  <2>1. \A q \in Told : Apart(p, q) /\ Apart(q, p)
    BY <1>1, <1>6, NewApart DEF BookInv
  <2>2. \A i \in DOMAIN pings : pings[i] \in Told
    BY ToldFacts
  <2>3. \A d \in Coroutines : co[d].step = "insert" => co[d].ping \in Told
    BY ToldFacts
  <2>4. \A d \in Coroutines : co'[d].step = "insert" => \A i \in DOMAIN pings : Apart(co'[d].ping, pings[i])
    <3>1. ASSUME NEW d \in Coroutines, co'[d].step = "insert", NEW i \in DOMAIN pings
          PROVE  Apart(co'[d].ping, pings[i])
      <4>1. CASE d = c
        BY <1>2, <2>1, <2>2, <4>1
      <4>2. CASE d # c
        BY <1>2, <3>1, <4>2 DEF BookInv, AllApart
      <4> QED BY <4>1, <4>2
    <3> QED BY <3>1
  <2>5. (\A d \in Coroutines : co'[d].step = "insert") => Apart(co'["clock"].ping, co'["event"].ping)
    <3>1. CASE c = "clock"
      BY <1>2, <2>1, <2>3, <3>1 DEF Coroutines
    <3>2. CASE c = "event"
      BY <1>2, <2>1, <2>3, <3>2 DEF Coroutines
    <3> QED BY <3>1, <3>2 DEF Coroutines
  <2> QED BY <2>4, <2>5 DEF BookInv, AllApart
<1>11. Counts'
  <2>1. /\ \A alive, session : Filed(alive, session)' = Filed(alive, session)
        /\ \A alive, session : Coming(alive, session)' \subseteq Coming(alive, session) \cup {c}
    BY <1>2 DEF Filed, Coming
  <2>2. ASSUME NEW alive, NEW session, p.trigger \notin Limited \/ alive # life \/ session # mem.day
        PROVE  Sum(alive, session)' \in Nat /\ Sum(alive, session)' <= Sum(alive, session)
    <3>1. c \notin Coming(alive, session)'
      BY <1>1, <1>2, <2>2 DEF Coming, OfSession
    <3> QED BY <2>1, <3>1, SumLess
  <2>3. SessionMax \in Nat /\ mem.count \in Nat /\ mem'.count \in 0 .. SessionMax
        /\ \A alive, session : Sum(alive, session) \in Nat
    BY ConstantFacts, SumFacts DEF WatcherTypes, MemShape
  <2>4. CASE p.trigger \notin Limited
    BY <1>4, <1>5, <2>2, <2>3, <2>4 DEF BookInv, Counts
  <2>5. CASE p.trigger \in Limited
    <3>1. Sum(life, mem.day)' \in Nat /\ Sum(life, mem.day)' <= Sum(life, mem.day) + 1
      <4> DEFINE F == Filed(life, mem.day)  C == Coming(life, mem.day)
                 G == Filed(life, mem.day)'  D == Coming(life, mem.day)'
      <4>1. IsFiniteSet(F) /\ IsFiniteSet(C) /\ IsFiniteSet(C \cup {c})
        BY SumFacts, FS_AddElement
      <4>2. G \subseteq F /\ D \subseteq C \cup {c}
        BY <1>4, <1>5, <2>1 DEF Filed, Coming
      <4>3. /\ Sum(life, mem.day) = Cardinality(F) + Cardinality(C)
            /\ Sum(life, mem.day)' = Cardinality(G) + Cardinality(D)
        BY DEF Sum
      <4> HIDE DEF F, C, G, D
      <4>4. Cardinality(G) \in Nat /\ Cardinality(D) \in Nat
        BY <4>1, <4>2, FS_Subset, FS_CardinalityType
      <4>5. Cardinality(G) + Cardinality(D) <= Cardinality(F) + Cardinality(C) + 1
        BY <4>1, <4>2, SumMoves
      <4> QED BY <4>3, <4>4, <4>5
    <3>2. Sum(life, mem.day)' <= mem'.count
      BY <1>4, <2>3, <2>5, <3>1 DEF BookInv, Counts
    <3>3. ASSUME NEW alive \in Nat, NEW session \in Days \cup {None}
          PROVE  Sum(alive, session)' <= SessionMax
      <4>1. CASE alive = life /\ session = mem.day
        <5>1. Sum(alive, session)' = Sum(life, mem.day)'
          BY <1>4, <1>5, <4>1 DEF Sum, Filed, Coming
        <5> QED BY <2>3, <3>1, <3>2, <5>1
      <4>2. CASE ~(alive = life /\ session = mem.day)
        BY <2>2, <2>3, <4>2 DEF BookInv, Counts
      <4> QED BY <4>1, <4>2
    <3> QED BY <3>2, <3>3 DEF Counts
  <2> QED BY <2>4, <2>5
<1> QED BY <1>1, <1>3, <1>9, <1>10, <1>11 DEF BookInv

(* The row of a ping that was booked: the same ping, in its place.         *)
LEMMA BookInsert ==
  ASSUME WatcherTypes, WatcherTypes', BookInv, NEW c \in Coroutines, Insert(c)
  PROVE  BookInv' /\ Told' \subseteq Told
<1>1. /\ co[c].step = "insert" /\ UNCHANGED <<world, lastRead, mem, life>>
      /\ pings' = Append(pings, co[c].ping) /\ Become(c, Inserted(c)) /\ Inserted(c).step = "publish"
  BY InsertEffects
<1>2. PICK p \in PingShape : p = co[c].ping /\ p \in Told
  BY <1>1, ToldFacts
<1>3. PICK n \in Nat : n = Len(pings)
  BY DEF WatcherTypes
<1>4. /\ DOMAIN pings = 1 .. n /\ DOMAIN pings' = 1 .. n + 1 /\ pings'[n + 1] = p
      /\ \A i \in 1 .. n : pings'[i] = pings[i]
  BY <1>1, <1>2, <1>3 DEF WatcherTypes
<1>5. co'[c].step # "insert" /\ \A d \in Coroutines : d # c => co'[d] = co[d]
  BY <1>1 DEF Become, WatcherTypes
<1>6. Told' \subseteq Told
  <2>1. \A i \in DOMAIN pings' : pings'[i] \in Told
    BY <1>2, <1>4, ToldFacts
  <2>2. \A d \in Coroutines : co'[d].step = "insert" => co'[d].ping \in Told
    BY <1>5, ToldFacts
  <2> QED BY <2>1, <2>2 DEF Told
<1>7. \A q \in Told' : Known(q)'
  <2>1. Keeps
    BY <1>1 DEF Keeps
  <2> QED BY <1>1, <1>6, <2>1, ToldFacts, KnownStays DEF BookInv
<1>8. AllApart'
  <2>1. \A i \in 1 .. n : Apart(p, pings[i]) /\ Apart(pings[i], p)
    BY <1>1, <1>2, <1>4 DEF BookInv, AllApart, Apart
  <2>2. ASSUME NEW i \in DOMAIN pings', NEW j \in DOMAIN pings', i # j
        PROVE  Apart(pings'[i], pings'[j])
    <3>1. i \in 1 .. n \/ i = n + 1
      BY <1>4
    <3>2. j \in 1 .. n \/ j = n + 1
      BY <1>4
    <3> QED BY <1>4, <2>1, <2>2, <3>1, <3>2 DEF BookInv, AllApart
  <2>3. ASSUME NEW d \in Coroutines, co'[d].step = "insert", NEW i \in DOMAIN pings'
        PROVE  Apart(co'[d].ping, pings'[i])
    <3>1. d # c /\ co'[d] = co[d] /\ co[d].step = "insert"
      BY <1>5, <2>3
    <3>2. Apart(co[d].ping, p)
      BY <1>1, <1>2, <3>1 DEF BookInv, AllApart, Coroutines, Apart
    <3>3. i \in 1 .. n \/ i = n + 1
      BY <1>4
    <3> QED BY <1>4, <3>1, <3>2, <3>3 DEF BookInv, AllApart
  <2> QED BY <1>5, <2>2, <2>3 DEF AllApart
<1>9. ASSUME NEW alive, NEW session
      PROVE  Sum(alive, session)' \in Nat /\ Sum(alive, session)' <= Sum(alive, session)
  <2> DEFINE F == Filed(alive, session)  C == Coming(alive, session)
             G == Filed(alive, session)'  D == Coming(alive, session)'
  <2>1. IsFiniteSet(F) /\ IsFiniteSet(C) /\ IsFiniteSet(F \cup {n + 1})
    BY SumFacts, FS_AddElement
  <2>2. G \subseteq F \cup {n + 1} /\ D \subseteq C \ {c}
    <3>1. ASSUME NEW i \in G PROVE i \in F \cup {n + 1}
      BY <1>4 DEF Filed
    <3>2. ASSUME NEW d \in D PROVE d \in C \ {c}
      BY <1>5 DEF Coming
    <3> QED BY <3>1, <3>2
  <2>3. c \in C \/ G \subseteq F
    <3>1. CASE OfSession(p, alive, session)
      BY <1>1, <1>2, <3>1 DEF Coming
    <3>2. CASE ~OfSession(p, alive, session)
      <4>1. ASSUME NEW i \in G PROVE i \in F
        BY <1>4, <3>2 DEF Filed
      <4> QED BY <4>1
    <3> QED BY <3>1, <3>2
  <2>4. /\ Sum(alive, session) = Cardinality(F) + Cardinality(C)
        /\ Sum(alive, session)' = Cardinality(G) + Cardinality(D)
    BY DEF Sum
  <2> HIDE DEF F, C, G, D
  <2>5. Cardinality(G) \in Nat /\ Cardinality(D) \in Nat
    BY <2>1, <2>2, FS_Subset, FS_CardinalityType
  <2>6. Cardinality(G) + Cardinality(D) <= Cardinality(F) + Cardinality(C)
    BY <2>1, <2>2, <2>3, SumMoves
  <2> QED BY <2>4, <2>5, <2>6
<1>10. Counts'
  <2>1. \A alive, session : Sum(alive, session) \in Nat
    BY SumFacts
  <2>2. SessionMax \in Nat /\ mem.count \in Nat
    BY ConstantFacts DEF WatcherTypes, MemShape
  <2> QED BY <1>1, <1>9, <2>1, <2>2 DEF BookInv, Counts
<1> QED BY <1>6, <1>7, <1>8, <1>10 DEF BookInv

(* A new process has booked nothing.                                       *)
LEMMA BookRestart ==
  ASSUME WatcherTypes, WatcherTypes', BookInv, Restart, UNCHANGED world
  PROVE  BookInv' /\ Told' \subseteq Told /\ \A p \in Told' : p.life # life'
<1>1. /\ mem' = Fresh /\ life' = life + 1 /\ pings' = pings /\ life \in Nat
      /\ \A c \in Coroutines : co'[c].step = "idle"
  BY IdleFacts DEF Restart, WatcherTypes
<1>2. Told' \subseteq Told
  BY <1>1 DEF Told
<1>3. ASSUME NEW p \in Told PROVE Known(p)' /\ p.life # life'
  <2>1. p.life \in Nat /\ p.life <= life /\ Known(p)
    BY ToldFacts, ShapeFacts DEF BookInv, Known
  <2> QED BY <1>1, <2>1 DEF Known, world
<1>4. AllApart'
  BY <1>1 DEF BookInv, AllApart, Coroutines
<1>5. ASSUME NEW alive, NEW session
      PROVE  Sum(alive, session)' \in Nat /\ Sum(alive, session)' <= Sum(alive, session)
  BY <1>1, SumLess DEF Filed, Coming, OfSession
<1>6. Counts'
  <2>1. \A alive, session : Sum(alive, session) \in Nat
    BY SumFacts
  <2>2. SessionMax \in Nat /\ mem'.count = 0
    BY <1>1, ConstantFacts DEF Fresh
  <2>3. Filed(life, mem.day)' = {} /\ Coming(life, mem.day)' = {}
    <3>1. \A p \in Told' : p.life # life'
      BY <1>2, <1>3
    <3>2. \A i \in DOMAIN pings' : pings'[i] \in Told'
      BY DEF Told
    <3> QED BY <1>1, <3>1, <3>2 DEF Filed, Coming, OfSession
  <2>4. Sum(life, mem.day)' = 0
    BY <2>3, FS_EmptySet DEF Sum
  <2> QED BY <1>5, <2>1, <2>2, <2>4 DEF BookInv, Counts
<1> QED BY <1>2, <1>3, <1>4, <1>6 DEF BookInv

-----------------------------------------------------------------------------
(* What the coroutines have still to do.                                   *)
LEMMA TriggerFacts ==
  /\ "pre_open_read" \notin Limited /\ "close_summary" \notin Limited /\ "engine_offline" \notin Limited
  /\ "heartbeat" \notin Limited /\ "bias_flip" \in Limited /\ "event_warning" \in Limited
  /\ "governor" \in Limited /\ "stop_proximity" \in Limited /\ "flow_at_watch" \in Limited
BY DEF Limited

LEMMA UntoldStays ==
  ASSUME life' = life, mem'.day = mem.day, \A p \in Told' : p \in Told \/ p.trigger \in Limited
  PROVE  /\ Untold("pre_open_read") => Untold("pre_open_read")'
         /\ Untold("close_summary") => Untold("close_summary")'
         /\ \A o : Unheard(o) => Unheard(o)'
BY TriggerFacts DEF Untold, Unheard

LEMMA ClockStays ==
  ASSUME NEW r \in CoShape, ClockClear(r), WatcherTypes, CoFits(r), life' = life, mem'.day = mem.day,
         mem'.preopen = mem.preopen, mem'.close = mem.close,
         \/ outage' = outage /\ (heart = "offline" => heart' = "offline")
         \/ outage' = outage + 1,
         heart = "offline" /\ mem.offline => mem'.offline,
         \A p \in Told' : p \in Told \/ p.trigger \in Limited
  PROVE  ClockClear(r)'
<1>1. outage \in Nat /\ (r.step = "ping" => r.ping.outage \in Nat)
  BY ShapeFacts DEF WatcherTypes, CoFits
<1>2. r.step = "ping" =>
       /\ r.ping.life = life' /\ r.ping.outage <= outage'
       /\ r.ping.trigger = "pre_open_read" => mem'.preopen /\ Untold("pre_open_read")'
       /\ r.ping.trigger = "close_summary" => mem'.close /\ Untold("close_summary")'
  BY <1>1, UntoldStays DEF ClockClear
<1>3. r.step = "ping" /\ r.ping.trigger = "engine_offline" =>
        Unheard(r.ping.outage)' /\ (r.ping.outage = outage' => heart' = "offline" /\ mem'.offline)
  <2>1. PICK o : o = r.ping.outage
    OBVIOUS
  <2>2. Unheard(o) => Unheard(o)'
    BY UntoldStays
  <2> QED BY <1>1, <2>1, <2>2 DEF ClockClear, Unheard
<1>4. /\ \A i, j \in DOMAIN r.plan : r.plan[i] = r.plan[j] => i = j
      /\ \A i \in DOMAIN r.plan : (i > 1 \/ r.step = "idle") =>
           /\ r.plan[i] = "pre_open_read" => ~mem'.preopen
           /\ r.plan[i] = "close_summary" => ~mem'.close
  BY DEF ClockClear
<1>5. r.step \in {"tool", "store"} /\ Head(r.plan) = "pre_open_read" =>
        mem'.preopen /\ Untold("pre_open_read")'
  BY UntoldStays DEF ClockClear
<1> QED BY <1>2, <1>3, <1>4, <1>5 DEF ClockClear, Unheard

LEMMA EventStays ==
  ASSUME NEW r \in CoShape, EventClear(r), CoFits(r), WatcherTypes, WatcherTypes', life' = life,
         outage <= outage'
  PROVE  EventClear(r)'
<1>1. outage \in Nat /\ outage' \in Nat /\ (r.step = "ping" => r.ping.outage \in Nat)
  BY ShapeFacts DEF WatcherTypes, CoFits
<1> QED BY <1>1 DEF EventClear

(* A coroutine that is done with a task, or that holds the same plan.      *)
LEMMA IdleClear ==
  ASSUME NEW r, r.step = "idle", \A i, j \in DOMAIN r.plan : r.plan[i] = r.plan[j] => i = j,
         \A i \in DOMAIN r.plan : /\ r.plan[i] = "pre_open_read" => ~mem'.preopen
                                  /\ r.plan[i] = "close_summary" => ~mem'.close
  PROVE  ClockClear(r)'
BY DEF ClockClear

LEMMA DroppedClear ==
  ASSUME WatcherTypes, co["clock"].plan # <<>>, ClockClear(co["clock"]), NEW r \in CoShape,
         r.step = "idle", r.plan = Tail(co["clock"].plan),
         mem'.preopen = mem.preopen, mem'.close = mem.close
  PROVE  ClockClear(r)'
<1>1. PICK p \in Seq(Tasks) : p = co["clock"].plan /\ p # <<>>
  BY DEF WatcherTypes, CoShape, Coroutines
<1>2. PICK n \in Nat : n = Len(p) /\ n > 0 /\ DOMAIN p = 1 .. n
  BY <1>1
<1>3. DOMAIN Tail(p) = 1 .. n - 1 /\ \A i \in 1 .. n - 1 : Tail(p)[i] = p[i + 1]
  BY <1>1, <1>2
<1>4. \A i, j \in 1 .. n - 1 : Tail(p)[i] = Tail(p)[j] => i = j
  <2>1. \A i, j \in 1 .. n : p[i] = p[j] => i = j
    BY <1>1, <1>2 DEF ClockClear
  <2> QED BY <1>2, <1>3, <2>1
<1>5. ASSUME NEW i \in 1 .. n - 1
      PROVE  /\ Tail(p)[i] = "pre_open_read" => ~mem'.preopen
             /\ Tail(p)[i] = "close_summary" => ~mem'.close
  <2>1. i + 1 \in DOMAIN p /\ i + 1 > 1 /\ Tail(p)[i] = p[i + 1]
    BY <1>2, <1>3
  <2> QED BY <1>1, <2>1 DEF ClockClear
<1>6. r.plan = Tail(p) /\ DOMAIN r.plan = 1 .. n - 1
  BY <1>1, <1>3
<1>7. /\ \A i, j \in DOMAIN r.plan : r.plan[i] = r.plan[j] => i = j
      /\ \A i \in DOMAIN r.plan : /\ r.plan[i] = "pre_open_read" => ~mem'.preopen
                                  /\ r.plan[i] = "close_summary" => ~mem'.close
  BY <1>4, <1>5, <1>6, Zenon
<1> QED BY <1>7, IdleClear

(* A plan is made of what is due at its moment, each task once.            *)
LEMMA DueClear ==
  ASSUME WatcherTypes
  PROVE  /\ \A i, j \in DOMAIN Due : Due[i] = Due[j] => i = j
         /\ \A i \in DOMAIN Due : /\ Due[i] = "pre_open_read" => ~NewDay(mem).preopen
                                  /\ Due[i] = "close_summary" => ~NewDay(mem).close
<1> DEFINE a == now.day \in Weekdays /\ ~NewDay(mem).preopen /\ now.at >= PreOpen
           b == now.day \in Weekdays /\ ~NewDay(mem).close /\ now.at >= Close
<1> DEFINE first == IF a THEN <<"pre_open_read">> ELSE <<>>
           second == IF b THEN <<"close_summary">> ELSE <<>>
           both == first \o second
           S == {"pre_open_read", "close_summary", "heartbeat"}
<1>1. Due = both \o <<"heartbeat">>
  BY DEF Due
<1>2. /\ a => ~NewDay(mem).preopen
      /\ b => ~NewDay(mem).close
  OBVIOUS
<1> HIDE DEF a, b
<1>3. /\ both \in Seq(S) /\ Len(both) \in 0 .. 2
      /\ \A i \in 1 .. Len(both) : \/ a /\ i = 1 /\ both[i] = "pre_open_read"
                                   \/ b /\ i = Len(both) /\ both[i] = "close_summary"
  <2>1. /\ first \in Seq(S) /\ Len(first) = (IF a THEN 1 ELSE 0)
        /\ a => first[1] = "pre_open_read"
    <3>1. CASE a
      BY <3>1
    <3>2. CASE ~a
      BY <3>2
    <3> QED BY <3>1, <3>2
  <2>2. /\ second \in Seq(S) /\ Len(second) = (IF b THEN 1 ELSE 0)
        /\ b => second[1] = "close_summary"
    <3>1. CASE b
      BY <3>1
    <3>2. CASE ~b
      BY <3>2
    <3> QED BY <3>1, <3>2
  <2> HIDE DEF first, second, S
  <2>3. both \in Seq(S) /\ Len(both) = Len(first) + Len(second)
    <3>1. first \in Seq(S) /\ second \in Seq(S)
      BY <2>1, <2>2
    <3>2. both \in Seq(S)
      BY <3>1
    <3>3. Len(both) = Len(first) + Len(second)
      BY <3>1
    <3> QED BY <3>2, <3>3
  <2>4. \A i \in 1 .. Len(first) + Len(second) :
          both[i] = IF i <= Len(first) THEN first[i] ELSE second[i - Len(first)]
    BY <2>1, <2>2
  <2> HIDE DEF both
  <2> QED BY <2>1, <2>2, <2>3, <2>4
<1> HIDE DEF both
<1>4. PICK n \in 0 .. 2 : n = Len(both)
  BY <1>3
<1>5. /\ DOMAIN Due = 1 .. n + 1 /\ Due[n + 1] = "heartbeat"
      /\ \A i \in 1 .. n : Due[i] = both[i]
  BY <1>1, <1>3, <1>4
<1>6. ASSUME NEW i \in 1 .. n + 1
      PROVE  \/ a /\ i = 1 /\ Due[i] = "pre_open_read"
             \/ b /\ i = n /\ Due[i] = "close_summary"
             \/ i = n + 1 /\ Due[i] = "heartbeat"
  BY <1>3, <1>4, <1>5
<1> QED BY <1>2, <1>5, <1>6

(* The clock's steps.                                                      *)
LEMMA PingedClear ==
  ASSUME WatcherTypes, ClockClear(co["clock"]), co["clock"].plan # <<>>,
         NEW trigger \in Triggers, NEW was \in Lean, NEW lean \in Lean, UNCHANGED <<life, outage, heart>>,
         NEW r \in CoShape, r = Pinged("clock", trigger, was, lean),
         Head(co["clock"].plan) # "pre_open_read" => mem'.preopen = mem.preopen,
         Head(co["clock"].plan) # "close_summary" => mem'.close = mem.close,
         trigger = "pre_open_read" => mem'.preopen /\ Untold("pre_open_read")',
         trigger = "close_summary" => mem'.close /\ Untold("close_summary")',
         trigger = "engine_offline" => Unheard(outage)' /\ (heart = "offline" /\ mem'.offline)
  PROVE  ClockClear(r)'
<1>1. /\ r.step = "ping" /\ r.plan = co["clock"].plan
      /\ r.ping.trigger = trigger /\ r.ping.life = life /\ r.ping.outage = outage
  BY PingingFacts DEF Coroutines
<1>2. outage \in Nat /\ DOMAIN r.plan = DOMAIN co["clock"].plan /\ r.plan \in Seq(Tasks)
  BY <1>1 DEF WatcherTypes, CoShape
<1>3. ASSUME NEW i \in DOMAIN r.plan, i > 1
      PROVE  /\ r.plan[i] = "pre_open_read" => ~mem'.preopen
             /\ r.plan[i] = "close_summary" => ~mem'.close
  <2>1. /\ r.plan[i] = "pre_open_read" => ~mem.preopen
        /\ r.plan[i] = "close_summary" => ~mem.close
    BY <1>1, <1>3 DEF ClockClear
  <2>2. Head(r.plan) = r.plan[1] /\ 1 \in DOMAIN r.plan
    BY <1>1, <1>2
  <2>3. r.plan[i] # Head(r.plan)
    BY <1>1, <1>3, <2>2 DEF ClockClear
  <2> QED BY <1>1, <2>1, <2>3
<1>4. \A i, j \in DOMAIN r.plan : r.plan[i] = r.plan[j] => i = j
  BY <1>1 DEF ClockClear
<1> QED BY <1>1, <1>2, <1>3, <1>4 DEF ClockClear, Unheard

WatchInv ==
  /\ mem.day \in Days => mem.day <= now.day
  /\ BookInv /\ ClockClear(co["clock"]) /\ EventClear(co["event"])

(* A step of one coroutine that books nothing leaves the other as clear.   *)
LEMMA ClockMoves ==
  ASSUME WatcherTypes, WatcherTypes', WatchInv, UNCHANGED <<world, life, pings>>, Keeps,
         NEW r \in CoShape, Become("clock", r), r.step # "insert",
         Told' \subseteq Told => ClockClear(r)'
  PROVE  WatchInv'
<1>1. co'["clock"] = r /\ co'["event"] = co["event"]
  BY DEF Become, WatcherTypes, Coroutines
<1>2. BookInv' /\ Told' \subseteq Told
  <2>1. \A c \in Coroutines : co'[c].step = "insert" => co[c].step = "insert" /\ co'[c].ping = co[c].ping
    BY <1>1 DEF Coroutines
  <2> QED BY <2>1, BookKeeps DEF WatchInv
<1>3. ClockClear(co["clock"])'
  <2>1. ClockClear(r)'
    BY <1>2
  <2> QED BY <1>1, <2>1 DEF ClockClear
<1>4. EventClear(co["event"])'
  BY <1>1 DEF WatchInv, EventClear, world
<1>5. (mem.day \in Days => mem.day <= now.day)'
  BY DEF WatchInv, Keeps, world
<1> QED BY <1>2, <1>3, <1>4, <1>5 DEF WatchInv

LEMMA ClockUntouched ==
  ASSUME WatcherTypes, WatchInv, life' = life, mem'.day = mem.day,
         mem'.preopen = mem.preopen, mem'.close = mem.close, co'["clock"] = co["clock"],
         \/ outage' = outage /\ (heart = "offline" => heart' = "offline")
         \/ outage' = outage + 1,
         heart = "offline" /\ mem.offline => mem'.offline,
         \A p \in Told' : p \in Told \/ p.trigger \in Limited
  PROVE  ClockClear(co["clock"])'
<1>1. PICK r \in CoShape : r = co["clock"] /\ CoFits(r) /\ ClockClear(r)
  BY DEF WatcherTypes, WatchInv, Coroutines
<1>2. ClockClear(r)'
  BY <1>1, ClockStays
<1> QED BY <1>1, <1>2 DEF ClockClear

LEMMA EventMoves ==
  ASSUME WatcherTypes, WatcherTypes', WatchInv, UNCHANGED <<world, life, pings>>, Keeps,
         mem'.preopen = mem.preopen, mem'.close = mem.close,
         NEW r \in CoShape, Become("event", r), r.step # "insert", EventClear(r)
  PROVE  WatchInv'
<1>1. co'["event"] = r /\ co'["clock"] = co["clock"]
  BY DEF Become, WatcherTypes, Coroutines
<1>2. BookInv' /\ Told' \subseteq Told
  <2>1. \A c \in Coroutines : co'[c].step = "insert" => co[c].step = "insert" /\ co'[c].ping = co[c].ping
    BY <1>1 DEF Coroutines
  <2> QED BY <2>1, BookKeeps DEF WatchInv
<1>3. ClockClear(co["clock"])'
  BY <1>1, <1>2, ClockUntouched DEF Keeps, world
<1>4. EventClear(co["event"])'
  BY <1>1 DEF EventClear, world
<1>5. (mem.day \in Days => mem.day <= now.day)'
  BY DEF WatchInv, Keeps, world
<1> QED BY <1>2, <1>3, <1>4, <1>5 DEF WatchInv

(* A step that only drops a task.                                          *)
LEMMA DropMoves ==
  ASSUME WatcherTypes, WatcherTypes', WatchInv, NEW c \in Coroutines, co[c].plan # <<>>,
         Become(c, Dropped(c)), UNCHANGED <<world, life, pings>>, Keeps,
         mem'.preopen = mem.preopen, mem'.close = mem.close
  PROVE  WatchInv'
<1>1. PICK r \in CoShape : r = Dropped(c) /\ r.step = "idle" /\ r.plan = Tail(co[c].plan) /\ Become(c, r)
  BY DropFacts
<1>2. CASE c = "clock"
  <2>1. ClockClear(r)'
    BY <1>1, <1>2, DroppedClear DEF WatchInv
  <2> QED BY <1>1, <1>2, <2>1, ClockMoves
<1>3. CASE c = "event"
  <2>1. EventClear(r)
    <3>1. PICK p \in Seq(Tasks) : p = co[c].plan /\ p # <<>> /\ r.plan = Tail(p)
      BY <1>1 DEF WatcherTypes, CoShape
    <3>2. \A i \in DOMAIN p : p[i] \in Limited
      BY <1>3, <3>1 DEF WatchInv, EventClear
    <3>3. \A i \in DOMAIN Tail(p) : Tail(p)[i] \in Limited
      BY <3>1, <3>2
    <3> QED BY <1>1, <3>1, <3>3 DEF EventClear
  <2> QED BY <1>1, <1>3, <2>1, EventMoves
<1> QED BY <1>2, <1>3 DEF Coroutines

(* A step that makes a ping of a limited trigger, for the same plan.       *)
LEMMA LimitedMoves ==
  ASSUME WatcherTypes, WatcherTypes', WatchInv, NEW c \in Coroutines, co[c].plan # <<>>,
         NEW trigger \in Limited, NEW was \in Lean, NEW lean \in Lean,
         Become(c, Pinged(c, trigger, was, lean)), UNCHANGED <<world, life, pings, mem>>
  PROVE  WatchInv'
<1>1. trigger \in Triggers /\ Keeps /\ trigger \notin {"pre_open_read", "close_summary", "engine_offline"}
  BY TriggerFacts DEF Keeps, Triggers
<1>2. PICK r \in CoShape :
        /\ r = Pinged(c, trigger, was, lean) /\ Become(c, r) /\ r.step = "ping" /\ r.plan = co[c].plan
        /\ r.ping.trigger = trigger /\ r.ping.life = life /\ r.ping.outage = outage
  BY <1>1, PingingFacts
<1>3. CASE c = "clock"
  <2>1. ClockClear(r)'
    BY <1>1, <1>2, <1>3, PingedClear DEF WatchInv, world
  <2> QED BY <1>1, <1>2, <1>3, <2>1, ClockMoves
<1>4. CASE c = "event"
  <2>1. EventClear(r)
    <3>1. outage \in Nat
      BY DEF WatcherTypes
    <3> QED BY <1>2, <1>4, <3>1 DEF WatchInv, EventClear
  <2> QED BY <1>1, <1>2, <1>4, <2>1, EventMoves
<1> QED BY <1>3, <1>4 DEF Coroutines

(* The first task of the event loop is limited, the clock's read and close *)
(* are not done when they come up.                                         *)
LEMMA HeadFacts ==
  ASSUME WatcherTypes, WatchInv, NEW c \in Coroutines, co[c].plan # <<>>
  PROVE  /\ c = "event" => Head(co[c].plan) \in Limited
         /\ c = "clock" /\ co[c].step = "idle" =>
              /\ Head(co[c].plan) = "pre_open_read" => ~mem.preopen
              /\ Head(co[c].plan) = "close_summary" => ~mem.close
<1>1. 1 \in DOMAIN co[c].plan /\ Head(co[c].plan) = co[c].plan[1]
  BY DEF WatcherTypes, CoShape
<1> QED BY <1>1 DEF WatchInv, EventClear, ClockClear

LEMMA UntoldFacts ==
  ASSUME WatchInv
  PROVE  /\ ~mem.preopen => Untold("pre_open_read")
         /\ ~mem.close => Untold("close_summary")
         /\ heart # "offline" \/ ~mem.offline => Unheard(outage)
BY DEF WatchInv, BookInv, Known, Remembered, Untold, Unheard

LEMMA AskedFacts ==
  ASSUME WatcherTypes, NEW c \in Coroutines, NEW was \in Lean
  PROVE  Asked(c, was) \in CoShape /\ Asked(c, was).step = "tool" /\ Asked(c, was).plan = co[c].plan
<1>1. co[c] \in CoShape
  BY DEF WatcherTypes
<1> QED BY <1>1 DEF Asked, CoShape

LEMMA CheckingFacts ==
  ASSUME WatcherTypes, NEW c \in Coroutines
  PROVE  /\ Checks(c) \in CoShape /\ Checks(c).step = co[c].step
         /\ Checks(c).plan = <<"event_warning", "governor">>
<1>1. co[c] \in CoShape
  BY DEF WatcherTypes
<1>2. PICK p \in Seq(Tasks) : p = <<"event_warning", "governor">>
  <2>1. <<"event_warning", "governor">> \in Seq(Tasks)
    BY DEF Tasks, Triggers, Limited
  <2> QED BY <2>1
<1>3. Checks(c) = [co[c] EXCEPT !.plan = p]
  BY <1>2 DEF Checks
<1>4. [co[c] EXCEPT !.plan = p] \in CoShape /\ [co[c] EXCEPT !.plan = p].step = co[c].step
      /\ [co[c] EXCEPT !.plan = p].plan = p
  BY <1>1 DEF CoShape
<1> QED BY <1>2, <1>3, <1>4

LEMMA TakeMoves ==
  ASSUME WatcherTypes, WatcherTypes', WatchInv, NEW c \in Coroutines, NEW near \in BOOLEAN, Take(c, near)
  PROVE  WatchInv'
<1> DEFINE task == Head(co[c].plan)
<1>1. /\ co[c].plan # <<>> /\ co[c].step = "idle" /\ UNCHANGED <<world, lastRead, pings, life>>
      /\ None \in Lean /\ co[c] \in CoShape /\ mem \in MemShape /\ co[c].plan \in Seq(Tasks)
  BY TakeEffects DEF Lean, WatcherTypes, CoShape
<1>2. /\ c = "event" => task \in Limited
      /\ c = "clock" => (task = "pre_open_read" => ~mem.preopen) /\ (task = "close_summary" => ~mem.close)
  BY <1>1, HeadFacts
<1>3. ASSUME UNCHANGED mem PROVE Keeps
  BY <1>3 DEF Keeps
<1>4. CASE UNCHANGED mem /\ Become(c, Dropped(c))
  BY <1>1, <1>3, <1>4, DropMoves
<1>5. CASE UNCHANGED mem /\ task \in Limited /\ Become(c, Pinged(c, task, None, None))
  <2>1. PICK trigger \in Limited : trigger = task
    BY <1>5
  <2> QED BY <1>1, <1>5, <2>1, LimitedMoves
<1>6. CASE UNCHANGED mem /\ task = "bias_flip" /\ Become(c, Asked(c, lastRead))
  <2>1. PICK r \in CoShape : /\ r = Asked(c, lastRead) /\ Become(c, r) /\ r.step = "tool"
                             /\ r.plan = co[c].plan
    <3>1. lastRead \in Lean
      BY DEF WatcherTypes
    <3> QED BY <1>6, <3>1, AskedFacts
  <2>2. CASE c = "clock"
    <3>1. ClockClear(r)'
      BY <1>1, <1>6, <2>1, <2>2 DEF WatchInv, ClockClear
    <3> QED BY <1>1, <1>3, <1>6, <2>1, <2>2, <3>1, ClockMoves
  <2>3. CASE c = "event"
    <3>1. EventClear(r)
      BY <2>1, <2>3 DEF WatchInv, EventClear
    <3> QED BY <1>1, <1>3, <1>6, <2>1, <2>3, <3>1, EventMoves
  <2> QED BY <2>2, <2>3 DEF Coroutines
<1>7. CASE /\ task = "pre_open_read" /\ mem' = [mem EXCEPT !.preopen = TRUE]
           /\ Become(c, Asked(c, co[c].was))
  <2>1. PICK r \in CoShape : /\ r = Asked(c, co[c].was) /\ Become(c, r) /\ r.step = "tool"
                             /\ r.plan = co[c].plan
    <3>1. co[c].was \in Lean
      BY <1>1 DEF CoShape
    <3> QED BY <1>7, <3>1, AskedFacts
  <2>2. c = "clock" /\ ~mem.preopen
    BY <1>2, <1>7, TriggerFacts DEF Coroutines
  <2>3. /\ mem'.preopen /\ mem'.close = mem.close /\ mem'.day = mem.day /\ mem'.offline = mem.offline
        /\ mem'.fired = mem.fired /\ mem'.count = mem.count
    BY <1>1, <1>7 DEF MemShape
  <2>4. Keeps
    BY <2>3 DEF Keeps
  <2>5. Untold("pre_open_read")
    BY <2>2, UntoldFacts
  <2>6. ASSUME Told' \subseteq Told PROVE ClockClear(r)'
    <3>1. Untold("pre_open_read")'
      BY <1>1, <2>3, <2>5, <2>6 DEF Untold
    <3>2. ASSUME NEW i \in DOMAIN r.plan, i > 1
          PROVE  r.plan[i] # "pre_open_read" /\ (r.plan[i] = "close_summary" => ~mem'.close)
      <4>1. 1 \in DOMAIN r.plan /\ r.plan[1] = "pre_open_read"
        BY <1>1, <1>7, <2>1
      <4> QED BY <2>1, <2>2, <2>3, <3>2, <4>1 DEF WatchInv, ClockClear
    <3>3. \A i, j \in DOMAIN r.plan : r.plan[i] = r.plan[j] => i = j
      BY <2>1, <2>2 DEF WatchInv, ClockClear
    <3> QED BY <2>1, <2>3, <3>1, <3>2, <3>3 DEF ClockClear
  <2> QED BY <1>1, <2>1, <2>2, <2>4, <2>6, ClockMoves
<1>8. CASE /\ task = "close_summary" /\ mem' = [mem EXCEPT !.close = TRUE]
           /\ Become(c, Pinged(c, "close_summary", None, None))
  <2>1. c = "clock" /\ ~mem.close /\ "close_summary" \in Triggers
    BY <1>2, <1>8, TriggerFacts DEF Coroutines, Triggers, Unlimited
  <2>2. PICK r \in CoShape : /\ r = Pinged("clock", "close_summary", None, None) /\ Become("clock", r)
                             /\ r.step = "ping"
    BY <1>1, <1>8, <2>1, PingingFacts
  <2>3. /\ mem'.close /\ mem'.preopen = mem.preopen /\ mem'.day = mem.day /\ mem'.offline = mem.offline
        /\ mem'.fired = mem.fired /\ mem'.count = mem.count
    BY <1>1, <1>8 DEF MemShape
  <2>4. Keeps
    BY <2>3 DEF Keeps
  <2>5. ASSUME Told' \subseteq Told PROVE ClockClear(r)'
    <3>1. Untold("close_summary")
      BY <2>1, UntoldFacts
    <3>2. Untold("close_summary")'
      BY <1>1, <2>3, <2>5, <3>1 DEF Untold
    <3>3. Head(co["clock"].plan) = "close_summary" /\ co["clock"].plan # <<>>
      BY <1>1, <1>8, <2>1
    <3> QED BY <1>1, <2>1, <2>2, <2>3, <3>2, <3>3, PingedClear DEF WatchInv, world
  <2> QED BY <1>1, <2>2, <2>4, <2>5, ClockMoves
<1>9. CASE /\ task = "heartbeat" /\ heart # "offline"
           /\ mem' = [mem EXCEPT !.offline = FALSE] /\ Become(c, Checks(c))
  <2>1. c = "clock"
    BY <1>2, <1>9, TriggerFacts DEF Coroutines
  <2>2. PICK r \in CoShape : /\ Become("clock", r) /\ r.step = "idle"
                             /\ r.plan = <<"event_warning", "governor">>
    <3>1. Checks(c) \in CoShape /\ Checks(c).step = "idle" /\ Checks(c).plan = <<"event_warning", "governor">>
      BY <1>1, CheckingFacts
    <3> QED BY <1>9, <2>1, <3>1
  <2>4. /\ mem'.close = mem.close /\ mem'.preopen = mem.preopen /\ mem'.day = mem.day
        /\ mem'.fired = mem.fired /\ mem'.count = mem.count
    BY <1>1, <1>9 DEF MemShape
  <2>5. Keeps
    BY <1>9, <2>4 DEF Keeps
  <2>6. ClockClear(r)'
    <3>1. DOMAIN r.plan = 1 .. 2 /\ r.plan[1] = "event_warning" /\ r.plan[2] = "governor"
      BY <2>2
    <3> QED BY <2>2, <3>1, IdleClear
  <2> QED BY <1>1, <2>2, <2>5, <2>6, ClockMoves
<1>10. CASE /\ task = "heartbeat" /\ heart = "offline" /\ ~mem.offline
            /\ mem' = [mem EXCEPT !.offline = TRUE]
            /\ Become(c, Pinged(c, "engine_offline", None, None))
  <2>1. c = "clock" /\ "engine_offline" \in Triggers
    BY <1>2, <1>10, TriggerFacts DEF Coroutines, Triggers, Unlimited
  <2>2. PICK r \in CoShape : /\ r = Pinged("clock", "engine_offline", None, None) /\ Become("clock", r)
                             /\ r.step = "ping"
    BY <1>1, <1>10, <2>1, PingingFacts
  <2>3. /\ mem'.close = mem.close /\ mem'.preopen = mem.preopen /\ mem'.day = mem.day /\ mem'.offline
        /\ mem'.fired = mem.fired /\ mem'.count = mem.count
    BY <1>1, <1>10 DEF MemShape
  <2>4. Keeps
    BY <2>3 DEF Keeps
  <2>5. ASSUME Told' \subseteq Told PROVE ClockClear(r)'
    <3>1. Unheard(outage)
      BY <1>10, UntoldFacts
    <3>2. Unheard(outage)'
      BY <1>1, <2>5, <3>1 DEF Unheard, world
    <3>3. co["clock"].plan # <<>>
      BY <1>1, <2>1
    <3> QED BY <1>1, <1>10, <2>1, <2>2, <2>3, <3>2, <3>3, PingedClear DEF WatchInv, world
  <2> QED BY <1>1, <2>2, <2>4, <2>5, ClockMoves
<1> QED BY <1>4, <1>5, <1>6, <1>7, <1>8, <1>9, <1>10, TakeEffects

(* The morning's read, from its call to its ping.                          *)
LEMMA ReadHeld ==
  ASSUME WatcherTypes, WatchInv, NEW c \in Coroutines, co[c].step \in {"tool", "store"},
         Head(co[c].plan) = "pre_open_read"
  PROVE  c = "clock" /\ co[c].plan # <<>> /\ mem.preopen /\ Untold("pre_open_read")
<1>1. co[c].plan # <<>>
  BY DEF WatcherTypes, CoFits
<1>2. c = "clock"
  BY <1>1, HeadFacts, TriggerFacts DEF Coroutines
<1> QED BY <1>1, <1>2 DEF WatchInv, ClockClear

LEMMA ReadMoves ==
  ASSUME WatcherTypes, WatcherTypes', WatchInv, NEW c \in Coroutines, co[c].step \in {"tool", "store"},
         Head(co[c].plan) = "pre_open_read", NEW was \in Lean, NEW lean \in Lean,
         Become(c, Pinged(c, "pre_open_read", was, lean)), UNCHANGED <<world, life, pings, mem>>
  PROVE  WatchInv'
<1>1. c = "clock" /\ co["clock"].plan # <<>> /\ mem.preopen /\ Untold("pre_open_read")
  BY ReadHeld
<1>2. "pre_open_read" \in Triggers /\ Keeps
  BY DEF Triggers, Unlimited, Keeps
<1>3. PICK r \in CoShape : /\ r = Pinged("clock", "pre_open_read", was, lean) /\ Become("clock", r)
                           /\ r.step = "ping"
  BY <1>1, <1>2, PingingFacts
<1>4. ASSUME Told' \subseteq Told PROVE ClockClear(r)'
  <2>1. Untold("pre_open_read")' /\ mem'.preopen
    BY <1>1, <1>4 DEF Untold
  <2> QED BY <1>1, <1>2, <1>3, <2>1, PingedClear DEF WatchInv, world
<1> QED BY <1>2, <1>3, <1>4, ClockMoves

LEMMA StoredMoves ==
  ASSUME WatcherTypes, WatcherTypes', WatchInv, NEW c \in Coroutines, co[c].step = "tool",
         NEW lean \in Leans, Become(c, Stored(c, lean)), UNCHANGED <<world, life, pings, mem>>
  PROVE  WatchInv'
<1>1. PICK r \in CoShape : r = Stored(c, lean) /\ Become(c, r) /\ r.step = "store" /\ r.plan = co[c].plan
  <2>1. co[c] \in CoShape
    BY DEF WatcherTypes
  <2>2. Stored(c, lean) \in CoShape /\ Stored(c, lean).step = "store" /\ Stored(c, lean).plan = co[c].plan
    BY <2>1 DEF Stored, CoShape, Lean
  <2> QED BY <2>2
<1>2. Keeps
  BY DEF Keeps
<1>3. CASE c = "clock"
  <2>1. ASSUME Told' \subseteq Told PROVE ClockClear(r)'
    BY <1>1, <1>3, <2>1 DEF WatchInv, ClockClear, Untold
  <2> QED BY <1>1, <1>2, <1>3, <2>1, ClockMoves
<1>4. CASE c = "event"
  <2>1. EventClear(r)
    BY <1>1, <1>4 DEF WatchInv, EventClear
  <2> QED BY <1>1, <1>2, <1>4, <2>1, EventMoves
<1> QED BY <1>3, <1>4 DEF Coroutines

LEMMA DayReadMoves ==
  ASSUME WatcherTypes, WatcherTypes', WatchInv, NEW c \in Coroutines, NEW lean \in Lean, DayRead(c, lean)
  PROVE  WatchInv'
<1>1. /\ co[c].plan # <<>> /\ co[c].step = "tool" /\ UNCHANGED <<world, life, pings, mem>> /\ None \in Lean
  BY DayReadEffects DEF Lean
<1>2. CASE Become(c, Dropped(c))
  BY <1>1, <1>2, DropMoves DEF Keeps
<1>3. CASE lean \in Leans /\ Become(c, Stored(c, lean))
  BY <1>1, <1>3, StoredMoves
<1>4. CASE Head(co[c].plan) = "pre_open_read" /\ Become(c, Pinged(c, "pre_open_read", None, None))
  BY <1>1, <1>4, ReadMoves
<1> QED BY <1>2, <1>3, <1>4, DayReadEffects

LEMMA StoreMoves ==
  ASSUME WatcherTypes, WatcherTypes', WatchInv, NEW c \in Coroutines, Store(c)
  PROVE  WatchInv'
<1>1. /\ co[c].plan # <<>> /\ co[c].step = "store" /\ UNCHANGED <<world, life, pings, mem>>
      /\ Head(co[c].plan) \in Reads /\ co[c].was \in Lean /\ co[c].read \in Lean
      /\ Become(c, Pinged(c, Head(co[c].plan), co[c].was, co[c].read))
  BY StoreEffects DEF Lean
<1>2. CASE Head(co[c].plan) = "pre_open_read"
  BY <1>1, <1>2, ReadMoves
<1>3. CASE Head(co[c].plan) = "bias_flip"
  <2>1. PICK trigger \in Limited : trigger = Head(co[c].plan)
    BY <1>3, TriggerFacts
  <2> QED BY <1>1, <2>1, LimitedMoves
<1> QED BY <1>1, <1>2, <1>3 DEF Reads

(* A ping that is sent is booked, and what is left to do does not repeat   *)
(* it.                                                                     *)
LEMMA SendFits ==
  ASSUME WatcherTypes, WatchInv, NEW c \in Coroutines, co[c].step = "ping", RateOk(mem, co[c].ping.trigger)
  PROVE  /\ co[c].ping.life = life /\ co[c].ping.outage <= outage
         /\ Bookable(co[c].ping.trigger, co[c].ping.outage)
         /\ c = "event" => co[c].ping.trigger \in Limited
<1>1. CASE c = "clock"
  BY <1>1 DEF WatchInv, ClockClear, Bookable
<1>2. CASE c = "event"
  BY <1>2, TriggerFacts DEF WatchInv, EventClear, Bookable
<1> QED BY <1>1, <1>2 DEF Coroutines

LEMMA SendMoves ==
  ASSUME WatcherTypes, WatcherTypes', WatchInv, NEW c \in Coroutines, Send(c)
  PROVE  WatchInv'
<1>1. /\ co[c].step = "ping" /\ UNCHANGED <<world, life, pings>> /\ mem \in MemShape
      /\ co[c].plan # <<>> /\ co[c].ping.trigger \in Triggers
  BY SendEffects, SentFacts DEF WatcherTypes
<1>2. CASE Become(c, Dropped(c)) /\ \E n \in Nat : mem' = [mem EXCEPT !.suppressed = n]
  <2>1. /\ mem'.day = mem.day /\ mem'.fired = mem.fired /\ mem'.count = mem.count
        /\ mem'.preopen = mem.preopen /\ mem'.close = mem.close /\ mem'.offline = mem.offline
    BY <1>1, <1>2 DEF MemShape
  <2>2. Keeps
    BY <2>1 DEF Keeps
  <2> QED BY <1>1, <1>2, <2>1, <2>2, DropMoves
<1>3. CASE /\ Become(c, Sent(c)) /\ RateOk(mem, co[c].ping.trigger)
           /\ mem' = Booked(mem, co[c].ping.trigger)
  <2>1. /\ co[c].ping.life = life /\ co[c].ping.outage <= outage
        /\ Bookable(co[c].ping.trigger, co[c].ping.outage)
        /\ c = "event" => co[c].ping.trigger \in Limited
    BY <1>1, <1>3, SendFits
  <2>2. BookInv' /\ \A q \in Told' : q \in Told \/ q.trigger = co[c].ping.trigger
    BY <1>1, <1>3, <2>1, BookSend DEF WatchInv
  <2>3. /\ mem'.day = mem.day /\ mem'.preopen = mem.preopen /\ mem'.close = mem.close
        /\ mem'.offline = mem.offline
    BY <1>1, <1>3, BookedFacts
  <2>4. PICK r \in CoShape : /\ r = Sent(c) /\ Become(c, r) /\ r.step = "insert" /\ r.plan = co[c].plan
                             /\ r.ping.trigger = co[c].ping.trigger
    BY <1>1, <1>3, SentFacts
  <2>5. (mem.day \in Days => mem.day <= now.day)'
    BY <1>1, <2>3 DEF WatchInv, world
  <2>6. CASE c = "clock"
    <3>1. co'["clock"] = r /\ co'["event"] = co["event"]
      BY <2>4, <2>6 DEF Become, WatcherTypes, Coroutines
    <3>2. ClockClear(r)'
      BY <1>1, <2>3, <2>4, <2>6 DEF WatchInv, ClockClear
    <3>3. ClockClear(co["clock"])'
      BY <3>1, <3>2 DEF ClockClear
    <3>4. EventClear(co["event"])'
      BY <1>1, <3>1 DEF WatchInv, EventClear, world
    <3> QED BY <2>2, <2>5, <3>3, <3>4 DEF WatchInv
  <2>7. CASE c = "event"
    <3>1. co'["event"] = r /\ co'["clock"] = co["clock"]
      BY <2>4, <2>7 DEF Become, WatcherTypes, Coroutines
    <3>2. \A q \in Told' : q \in Told \/ q.trigger \in Limited
      BY <2>1, <2>2, <2>7
    <3>3. ClockClear(co["clock"])'
      BY <1>1, <2>3, <3>1, <3>2, ClockUntouched DEF world
    <3>4. EventClear(co["event"])'
      BY <1>1, <2>1, <2>4, <2>7, <3>1 DEF WatchInv, EventClear
    <3> QED BY <2>2, <2>5, <3>3, <3>4 DEF WatchInv
  <2> QED BY <2>6, <2>7 DEF Coroutines
<1> QED BY <1>2, <1>3, SendEffects

LEMMA InsertMoves ==
  ASSUME WatcherTypes, WatcherTypes', WatchInv, NEW c \in Coroutines, Insert(c)
  PROVE  WatchInv'
<1>1. /\ co[c].step = "insert" /\ UNCHANGED <<world, mem, life>>
      /\ Inserted(c) \in CoShape /\ Inserted(c).step = "publish" /\ Inserted(c).plan = co[c].plan
      /\ Become(c, Inserted(c))
  BY InsertEffects
<1>2. PICK r \in CoShape : r = Inserted(c) /\ Become(c, r) /\ r.step = "publish" /\ r.plan = co[c].plan
  BY <1>1
<1>3. BookInv' /\ Told' \subseteq Told
  BY BookInsert DEF WatchInv
<1>4. (mem.day \in Days => mem.day <= now.day)'
  BY <1>1 DEF WatchInv, world
<1>5. CASE c = "clock"
  <2>1. co'["clock"] = r /\ co'["event"] = co["event"]
    BY <1>2, <1>5 DEF Become, WatcherTypes, Coroutines
  <2>2. ClockClear(r)'
    BY <1>1, <1>2, <1>5 DEF WatchInv, ClockClear
  <2>3. ClockClear(co["clock"])'
    BY <2>1, <2>2 DEF ClockClear
  <2>4. EventClear(co["event"])'
    BY <1>1, <2>1 DEF WatchInv, EventClear, world
  <2> QED BY <1>3, <1>4, <2>3, <2>4 DEF WatchInv
<1>6. CASE c = "event"
  <2>1. co'["event"] = r /\ co'["clock"] = co["clock"]
    BY <1>2, <1>6 DEF Become, WatcherTypes, Coroutines
  <2>2. ClockClear(co["clock"])'
    BY <1>1, <1>3, <2>1, ClockUntouched DEF world
  <2>3. EventClear(co["event"])'
    BY <1>2, <1>6, <2>1 DEF WatchInv, EventClear
  <2> QED BY <1>3, <1>4, <2>2, <2>3 DEF WatchInv
<1> QED BY <1>5, <1>6 DEF Coroutines

LEMMA RaiseMoves ==
  ASSUME WatcherTypes, WatchInv, NEW c \in Coroutines, Raise(c)
  PROVE  WatchInv'
<1>1. WatcherTypes' /\ Become(c, Idle) /\ UNCHANGED <<world, mem, pings, life>>
  BY RaiseTypes
<1>2. PICK r \in CoShape : r = Idle /\ Become(c, r) /\ r.step = "idle" /\ r.plan = <<>>
  BY <1>1, IdleFacts
<1>3. Keeps /\ DOMAIN r.plan = {}
  BY <1>1, <1>2 DEF Keeps
<1>4. CASE c = "clock"
  <2>1. ClockClear(r)'
    BY <1>2, <1>3, IdleClear
  <2> QED BY <1>1, <1>2, <1>3, <1>4, <2>1, ClockMoves
<1>5. CASE c = "event"
  <2>1. EventClear(r)
    BY <1>2, <1>3 DEF EventClear
  <2> QED BY <1>1, <1>2, <1>3, <1>5, <2>1, EventMoves
<1> QED BY <1>4, <1>5 DEF Coroutines

LEMMA TickMoves ==
  ASSUME WatcherTypes, WatcherTypes', WatchInv, Tick
  PROVE  WatchInv'
<1>1. /\ co["clock"] = Idle /\ mem' = NewDay(mem) /\ UNCHANGED <<world, life, pings>>
      /\ co' = [co EXCEPT !["clock"] = [Idle EXCEPT !.plan = Due]]
  BY DEF Tick
<1>2. PICK r \in CoShape : Become("clock", r) /\ r.step = "idle" /\ r.plan = Due
  BY <1>1, DueFacts, IdleFacts DEF Become
<1>3. co'["clock"] = r /\ co'["event"] = co["event"]
  BY <1>2 DEF Become, WatcherTypes, Coroutines
<1>4. ClockClear(r)'
  <2>1. /\ \A i, j \in DOMAIN r.plan : r.plan[i] = r.plan[j] => i = j
        /\ \A i \in DOMAIN r.plan : /\ r.plan[i] = "pre_open_read" => ~mem'.preopen
                                    /\ r.plan[i] = "close_summary" => ~mem'.close
    BY <1>1, <1>2, DueClear
  <2> QED BY <1>2, <2>1, IdleClear
<1>5. BookInv'
  <2>1. \A c \in Coroutines : co'[c].step = "insert" => co[c].step = "insert" /\ co'[c].ping = co[c].ping
    BY <1>2, <1>3 DEF Coroutines
  <2>2. CASE mem.day = now.day
    <3>1. Keeps
      BY <1>1, <2>2, NewDayFacts DEF Keeps
    <3> QED BY <1>1, <2>1, <3>1, BookKeeps DEF WatchInv
  <2>3. CASE mem.day # now.day
    BY <1>1, <2>1, <2>3, BookNewDay DEF WatchInv
  <2> QED BY <2>2, <2>3
<1>6. ClockClear(co["clock"])'
  BY <1>3, <1>4 DEF ClockClear
<1>7. EventClear(co["event"])'
  BY <1>1, <1>3 DEF WatchInv, EventClear, world
<1>8. (mem.day \in Days => mem.day <= now.day)'
  <2>1. mem'.day = now.day /\ now' = now /\ now.day \in Int
    BY <1>1, NewDayFacts, ConstantFacts DEF world
  <2> QED BY <2>1
<1> QED BY <1>5, <1>6, <1>7, <1>8 DEF WatchInv

LEMMA EventBegins ==
  ASSUME WatcherTypes, WatcherTypes', WatchInv, NEW kind \in {"bar_1m", "bar_5m"}, Event(kind)
  PROVE  WatchInv'
<1>1. /\ <<"bias_flip", "stop_proximity">> \in Seq(Tasks)
      /\ <<"flow_at_watch", "stop_proximity">> \in Seq(Tasks)
  BY DEF Tasks, Triggers, Limited
<1>2. PICK plan \in Seq(Tasks) :
        /\ co' = [co EXCEPT !["event"] = [co["event"] EXCEPT !.plan = plan]]
        /\ \A i \in DOMAIN plan : plan[i] \in Limited
  <2>1. /\ \A i \in DOMAIN <<"bias_flip", "stop_proximity">> : <<"bias_flip", "stop_proximity">>[i] \in Limited
        /\ \A i \in DOMAIN <<"flow_at_watch", "stop_proximity">> :
             <<"flow_at_watch", "stop_proximity">>[i] \in Limited
    BY TriggerFacts
  <2> QED BY <1>1, <2>1 DEF Event
<1>3. [co["event"] EXCEPT !.plan = plan] = [Idle EXCEPT !.plan = plan]
  BY DEF Event
<1>4. PICK r \in CoShape : r.step = "idle" /\ r.plan = plan /\ Become("event", r)
  BY <1>2, <1>3, IdleFacts DEF Become
<1>5. EventClear(r)
  BY <1>2, <1>4 DEF EventClear
<1>6. UNCHANGED <<world, life, pings, mem>> /\ Keeps
  BY DEF Event, Keeps
<1> QED BY <1>4, <1>5, <1>6, EventMoves

LEMMA RestartMoves ==
  ASSUME WatcherTypes, WatcherTypes', WatchInv, Restart, UNCHANGED world
  PROVE  WatchInv'
<1>1. mem' = Fresh /\ \A c \in Coroutines : co'[c] = Idle
  BY DEF Restart, WatcherTypes
<1>2. PICK r \in CoShape : r = Idle /\ r.step = "idle" /\ r.plan = <<>>
  BY IdleFacts
<1>3. DOMAIN r.plan = {} /\ co'["clock"] = r /\ co'["event"] = r
  BY <1>1, <1>2 DEF Coroutines
<1>4. BookInv'
  BY BookRestart DEF WatchInv
<1>5. ClockClear(r)'
  BY <1>2, <1>3, IdleClear
<1>6. ClockClear(co["clock"])' /\ EventClear(co["event"])'
  BY <1>2, <1>3, <1>5 DEF ClockClear, EventClear
<1>7. mem'.day \notin Days
  BY <1>1, ConstantFacts DEF Fresh
<1> QED BY <1>4, <1>6, <1>7 DEF WatchInv

(* The world moves on: time passes, the engine comes and goes.             *)
LEMMA TimeGoes ==
  ASSUME WatcherTypes, WatcherTypes', WatchInv, UNCHANGED <<mem, co, pings, life>>, WorldMoves,
         now.day <= now'.day
  PROVE  WatchInv'
<1>1. BookInv' /\ Told' \subseteq Told
  BY BookInTime DEF WatchInv
<1>2. ClockClear(co["clock"])'
  BY <1>1, ClockUntouched DEF WorldMoves
<1>3. EventClear(co["event"])'
  <2>1. PICK r \in CoShape : r = co["event"] /\ CoFits(r) /\ EventClear(r)
    BY DEF WatcherTypes, WatchInv, Coroutines
  <2>2. outage \in Nat /\ outage' \in Nat /\ outage <= outage'
    BY DEF WorldMoves, WatcherTypes
  <2>3. EventClear(r)'
    BY <2>1, <2>2, EventStays
  <2> QED BY <2>1, <2>3 DEF EventClear
<1>4. (mem.day \in Days => mem.day <= now.day)'
  <2>1. \A d \in Days : d \in Int
    BY ConstantFacts
  <2>2. now.day \in Int /\ now'.day \in Int
    BY <2>1 DEF WatcherTypes, Moments
  <2> QED BY <2>1, <2>2 DEF WatchInv
<1> QED BY <1>1, <1>2, <1>3, <1>4 DEF WatchInv

LEMMA WorldGoes ==
  ASSUME WatcherTypes, WebTypes, WatchInv,
         \/ Time \/ (\E h \in {"never", "fresh", "behind", "offline"} : Heart(h)) \/ Mute \/ Watch
         \/ \E f \in Forms : Count(f) \/ Enter(f)
         \/ Backlog \/ Subscribe
  PROVE  WatchInv'
<1>1. WatcherTypes' /\ UNCHANGED <<mem, co, pings, life>>
  BY WorldTypes
<1>2. At(now) \in Int /\ now.day \in Int
  BY AtFacts, ConstantFacts DEF WatcherTypes, Moments
<1>3. CASE Time
  <2>1. outage' = outage /\ heart' = heart
    BY <1>3 DEF Time
  <2> QED BY <1>1, <1>3, <2>1, TimeMoves, TimeGoes DEF WorldMoves
<1>4. CASE \E h \in {"never", "fresh", "behind", "offline"} : Heart(h)
  <2>1. now' = now /\ outage' = IF heart = "offline" THEN outage + 1 ELSE outage
    BY <1>4 DEF Heart
  <2> QED BY <1>1, <1>2, <2>1, TimeGoes DEF WorldMoves
<1>5. CASE Mute \/ Watch \/ (\E f \in Forms : Count(f) \/ Enter(f)) \/ Backlog \/ Subscribe
  <2>1. now' = now /\ outage' = outage /\ heart' = heart
    BY <1>5 DEF Mute, Watch, Count, Enter, Backlog, Subscribe, world
  <2> QED BY <1>1, <1>2, <2>1, TimeGoes DEF WorldMoves
<1> QED BY <1>3, <1>4, <1>5

LEMMA WatchKept ==
  ASSUME WatcherTypes, WatchInv, UNCHANGED <<now, heart, outage, lastRead, mem, co, pings, life>>,
         WatcherTypes'
  PROVE  WatchInv'
<1>1. At(now) \in Int /\ now.day \in Int
  BY AtFacts, ConstantFacts DEF WatcherTypes, Moments
<1>2. At(now') = At(now)
  BY DEF At
<1> QED BY <1>1, <1>2, TimeGoes DEF WorldMoves

LEMMA WatchStep ==
  ASSUME WatcherTypes, WatcherTypes', WebTypes, WatchInv, Next
  PROVE  WatchInv'
<1>1. CASE \/ Time \/ (\E h \in {"never", "fresh", "behind", "offline"} : Heart(h)) \/ Mute \/ Watch
           \/ (\E f \in Forms : Count(f) \/ Enter(f)) \/ Backlog \/ Subscribe
  BY <1>1, WorldGoes
<1>2. CASE WatcherStep
  BY <1>2, TakeMoves, DayReadMoves, StoreMoves, SendMoves DEF WatcherStep
<1>3. CASE Begins
  BY <1>3, TickMoves, EventBegins DEF Begins
<1>4. ASSUME NEW c \in Coroutines, Posts(c) PROVE WatchInv'
  BY <1>4, InsertMoves DEF Posts
<1>5. ASSUME NEW c \in Coroutines, Publish(c) PROVE WatchInv'
  <2>1. co[c].plan # <<>> /\ Become(c, Dropped(c)) /\ UNCHANGED <<world, mem, pings, life>>
    BY <1>5, PublishEffects
  <2>2. Keeps
    BY <2>1 DEF Keeps
  <2> QED BY <2>1, <2>2, DropMoves
<1>6. CASE \E c \in DOMAIN co : Raise(c)
  <2>1. DOMAIN co = Coroutines
    BY DEF WatcherTypes
  <2> QED BY <1>6, <2>1, RaiseMoves
<1>7. CASE Restarts
  BY <1>7, RestartMoves DEF Restarts
<1>8. CASE UNCHANGED <<world, watcherVars, pings, life>>
  <2>1. UNCHANGED <<now, heart, outage, lastRead, mem, co, pings, life>>
    BY <1>8 DEF world, watcherVars
  <2> QED BY <2>1, WatchKept
<1>9. Grading => UNCHANGED <<world, watcherVars, pings, life>>
  BY DEF Grading, Aside
<1> QED BY <1>1, <1>2, <1>3, <1>4, <1>5, <1>6, <1>7, <1>8, <1>9, StepCases

-----------------------------------------------------------------------------
(* The checklist: one submission at a time finds what the last one left.   *)
LEMMA FormStep ==
  ASSUME WatcherTypes, WebTypes, FormInv, Next
  PROVE  FormInv'
<1>1. MaxEntries \in Nat /\ now.day \in Days /\ \A d \in Days : entries[d] \in Nat
  BY DeskAssumption DEF WatcherTypes, Moments
<1>2. CASE UNCHANGED <<entries, form>> /\ (hurried => hurried')
  BY <1>2 DEF FormInv
<1>3. ASSUME NEW f \in Forms, Count(f) PROVE FormInv'
  <2>1. /\ form' = [form EXCEPT ![f] = [step |-> IF Blocked(entries[now.day]) THEN "refused" ELSE "insert",
                                        day |-> now.day]]
        /\ hurried' = (hurried \/ \E g \in Forms : form[g].step = "insert")
        /\ entries' = entries
    BY <1>3 DEF Count, world
  <2> SUFFICES ASSUME ~hurried'
               PROVE  /\ \A d \in Days : entries'[d] <= MaxEntries
                      /\ \A g \in Forms : form'[g].step = "insert" => entries'[form'[g].day] < MaxEntries
                      /\ \A g, h \in Forms : form'[g].step = "insert" /\ form'[h].step = "insert" => g = h
    BY DEF FormInv
  <2>2. ~hurried /\ \A g \in Forms : form[g].step # "insert"
    BY <2>1
  <2>3. /\ \A g \in Forms : form'[g].step = "insert" => g = f
        /\ form'[f].step = "insert" => form'[f].day = now.day /\ entries[now.day] < MaxEntries
    BY <1>1, <2>1, <2>2 DEF WebTypes, Blocked
  <2> QED BY <2>1, <2>2, <2>3 DEF FormInv
<1>4. ASSUME NEW f \in Forms, Enter(f) PROVE FormInv'
  <2>1. /\ form[f].step = "insert" /\ entries' = [entries EXCEPT ![form[f].day] = entries[form[f].day] + 1]
        /\ form' = [form EXCEPT ![f].step = "done"] /\ hurried' = hurried /\ form[f].day \in Days
    BY <1>4 DEF Enter, WebTypes
  <2> SUFFICES ASSUME ~hurried'
               PROVE  /\ \A d \in Days : entries'[d] <= MaxEntries
                      /\ \A g \in Forms : form'[g].step # "insert"
    BY DEF FormInv
  <2>2. \A g \in Forms : form'[g].step # "insert"
    <3>1. \A g \in Forms : g # f => form'[g] = form[g] /\ form[g].step # "insert"
      BY <2>1 DEF FormInv, WebTypes
    <3>2. form'[f].step = "done"
      BY <2>1 DEF WebTypes
    <3> QED BY <3>1, <3>2
  <2>3. ASSUME NEW d \in Days PROVE entries'[d] <= MaxEntries
    <3>1. entries[d] <= MaxEntries /\ (d = form[f].day => entries[d] < MaxEntries) /\ entries[d] \in Nat
      BY <1>1, <2>1 DEF FormInv
    <3>2. entries'[d] = IF d = form[f].day THEN entries[d] + 1 ELSE entries[d]
      BY <2>1 DEF WatcherTypes
    <3> QED BY <1>1, <3>1, <3>2
  <2> QED BY <2>2, <2>3
<1>5. CASE Time \/ (\E h \in {"never", "fresh", "behind", "offline"} : Heart(h)) \/ Mute \/ Watch
           \/ Backlog \/ Subscribe
  BY <1>2, <1>5 DEF Time, Heart, Mute, Watch, Backlog, Subscribe, world, webVars
<1>6. ASSUME WatcherStep \/ Begins, UNCHANGED <<agentVars, webVars, bound>> PROVE FormInv'
  BY <1>2, <1>6, WatcherStepTypes DEF world, webVars
<1>7. ASSUME NEW c \in Coroutines, Posts(c) \/ Publish(c) PROVE FormInv'
  BY <1>2, <1>7 DEF Posts, Publish, Insert, world
<1>8. ASSUME \E c \in DOMAIN co : Raise(c), UNCHANGED <<agentVars, webVars, bound>> PROVE FormInv'
  BY <1>2, <1>8 DEF Raise, world, webVars
<1>9. CASE Restarts
  BY <1>2, <1>9 DEF Restarts, world
<1>10. ASSUME UNCHANGED <<world, watcherVars, pings, life, form, page, awaited, bound>>,
              hurried' = hurried \/ \E t \in Turns : Asks(t)
       PROVE  FormInv'
  <2>1. hurried => hurried'
    BY <1>10 DEF Asks
  <2> QED BY <1>2, <1>10, <2>1 DEF world
<1>11. CASE Grading
  BY <1>2, <1>11 DEF Grading, Aside, world, webVars
<1> QED BY <1>3, <1>4, <1>5, <1>6, <1>7, <1>8, <1>9, <1>10, <1>11, StepCases

-----------------------------------------------------------------------------
(* The pings refused: each is counted in one place.                        *)
LEMMA CarriedFacts ==
  ASSUME WatcherTypes
  PROVE  \A c \in Coroutines : Carried(c) \in Nat
<1> SUFFICES ASSUME NEW c \in Coroutines PROVE Carried(c) \in Nat
  OBVIOUS
<1>1. co[c].step = "insert" => co[c].ping \in PingShape
  BY DEF WatcherTypes, CoFits
<1> QED BY <1>1 DEF Carried, PingShape

LEMMA CarriedMoves ==
  ASSUME WatcherTypes, NEW c \in Coroutines, NEW r, Become(c, r)
  PROVE  /\ Carried(c)' = (IF r.step = "insert" THEN r.ping.folded ELSE 0)
         /\ \A d \in Coroutines : d # c => Carried(d)' = Carried(d)
BY DEF WatcherTypes, Become, Carried

(* What a coroutine carries on, what waits and what went, after a step.    *)
LEMMA FoldMoves ==
  ASSUME WatcherTypes, FoldInv, NEW c \in Coroutines, NEW carried \in Int, Carried(c)' = carried,
         \A d \in Coroutines : d # c => Carried(d)' = Carried(d),
         mem'.suppressed \in Int, refused' \in Int, posted' \in Int, gone' \in Int,
         refused' - refused = (posted' - posted) + (carried - Carried(c))
                                + (mem'.suppressed - mem.suppressed) + (gone' - gone)
  PROVE  FoldInv'
<1>1. Carried("clock") \in Nat /\ Carried("event") \in Nat /\ mem.suppressed \in Nat
  BY CarriedFacts DEF Coroutines, WatcherTypes, MemShape
<1>2. /\ refused \in Int /\ posted \in Int /\ gone \in Int
      /\ refused = posted + Carried("clock") + Carried("event") + mem.suppressed + gone
  BY DEF FoldInv, FoldedOnce
<1>3. CASE c = "clock"
  <2>1. Carried("clock")' = carried /\ Carried("event")' = Carried("event")
    BY <1>3 DEF Coroutines
  <2>2. PICK a \in Int, b \in Int : a = Carried("clock") /\ b = Carried("event") /\ a = Carried(c)
    BY <1>1, <1>3
  <2>3. refused = posted + a + b + mem.suppressed + gone
    BY <1>2, <2>2
  <2>4. refused' = posted' + carried + b + mem'.suppressed + gone'
    BY <1>1, <1>2, <2>2, <2>3
  <2> QED BY <2>1, <2>2, <2>4 DEF FoldInv, FoldedOnce
<1>4. CASE c = "event"
  <2>1. Carried("event")' = carried /\ Carried("clock")' = Carried("clock")
    BY <1>4 DEF Coroutines
  <2>2. refused' = posted' + Carried("clock") + carried + mem'.suppressed + gone'
    BY <1>1, <1>2, <1>4
  <2> QED BY <2>1, <2>2 DEF FoldInv, FoldedOnce
<1> QED BY <1>3, <1>4 DEF Coroutines

(* A step that carries nothing and refuses nothing.                        *)
LEMMA FoldsStay ==
  ASSUME WatcherTypes, FoldInv, NEW c \in Coroutines, NEW r, Become(c, r), r.step # "insert",
         co[c].step # "insert", mem'.suppressed = mem.suppressed, UNCHANGED <<refused, posted, gone>>
  PROVE  FoldInv'
<1>1. /\ Carried(c)' = 0 /\ Carried(c) = 0 /\ mem.suppressed \in Nat
      /\ \A d \in Coroutines : d # c => Carried(d)' = Carried(d)
  BY CarriedMoves DEF Carried, WatcherTypes, MemShape
<1>2. refused \in Int /\ posted \in Int /\ gone \in Int
  BY DEF FoldInv
<1> QED BY <1>1, <1>2, FoldMoves

LEMMA SendFolds ==
  ASSUME WatcherTypes, FoldInv, NEW c \in Coroutines, Send(c)
  PROVE  FoldInv'
<1>1. /\ co[c].step = "ping" /\ co[c].plan # <<>> /\ mem \in MemShape /\ mem.suppressed \in Nat
      /\ UNCHANGED <<posted, gone>> /\ Carried(c) = 0
      /\ refused \in Int /\ posted \in Int /\ gone \in Int
  BY SendEffects, SentFacts DEF Send, WatcherTypes, MemShape, Carried, FoldInv
<1>2. Dropped(c).step = "idle" /\ Drop(c) = [co EXCEPT ![c] = Dropped(c)]
  BY <1>1, DropFacts
<1>3. CASE muted
  <2>1. Become(c, Dropped(c)) /\ UNCHANGED <<mem, refused>>
    BY <1>2, <1>3 DEF Send, Become
  <2> QED BY <1>1, <1>2, <2>1, FoldsStay
<1>4. CASE ~muted /\ ~RateOk(mem, co[c].ping.trigger)
  <2>1. Become(c, Dropped(c))
    BY <1>2, <1>4 DEF Send, Become
  <2>2. /\ mem'.suppressed - mem.suppressed = refused' - refused
        /\ mem'.suppressed \in Int /\ refused' \in Int
    BY <1>1, <1>4 DEF Send, MemShape
  <2>3. Carried(c)' = 0 /\ \A d \in Coroutines : d # c => Carried(d)' = Carried(d)
    BY <1>2, <2>1, CarriedMoves
  <2> QED BY <1>1, <2>2, <2>3, FoldMoves
<1>5. CASE ~muted /\ RateOk(mem, co[c].ping.trigger)
  <2>1. Become(c, Sent(c)) /\ mem' = Booked(mem, co[c].ping.trigger) /\ UNCHANGED refused
    BY <1>1, <1>5, SentFacts DEF Send, Become
  <2>2. mem'.suppressed = 0
    BY <1>1, <1>5, <2>1, SentFacts, BookedFacts
  <2>3. Sent(c).step = "insert" /\ Sent(c).ping.folded = mem.suppressed
    <3>1. co[c].ping \in PingShape /\ co[c] \in CoShape
      BY <1>1, SentFacts DEF WatcherTypes
    <3> QED BY <3>1 DEF Sent, CoShape, PingShape
  <2>4. Carried(c)' = mem.suppressed /\ \A d \in Coroutines : d # c => Carried(d)' = Carried(d)
    BY <2>1, <2>3, CarriedMoves
  <2> QED BY <1>1, <2>1, <2>2, <2>4, FoldMoves
<1> QED BY <1>3, <1>4, <1>5

LEMMA RowFolds ==
  ASSUME WatcherTypes, FoldInv, NEW c \in Coroutines, Insert(c) \/ Raise(c)
  PROVE  FoldInv'
<1>1. Carried(c) \in Nat /\ mem.suppressed \in Nat /\ refused \in Int /\ posted \in Int /\ gone \in Int
  BY CarriedFacts DEF WatcherTypes, MemShape, FoldInv
<1>2. CASE Insert(c)
  <2>1. /\ co[c].step = "insert" /\ Become(c, Inserted(c)) /\ Inserted(c).step = "publish"
        /\ mem' = mem /\ posted' = posted + co[c].ping.folded /\ UNCHANGED <<refused, gone>>
    BY <1>2, InsertEffects DEF Insert
  <2>2. /\ Carried(c)' = 0 /\ Carried(c) = co[c].ping.folded
        /\ \A d \in Coroutines : d # c => Carried(d)' = Carried(d)
    BY <2>1, CarriedMoves DEF Carried
  <2> QED BY <1>1, <2>1, <2>2, FoldMoves
<1>3. CASE Raise(c)
  <2>1. Become(c, Idle) /\ mem' = mem /\ UNCHANGED <<refused, posted>> /\ Idle.step = "idle"
    BY <1>3, RaiseTypes, IdleFacts DEF Raise
  <2>2. gone' = gone + Carried(c)
    BY <1>1, <1>3 DEF Raise, Carried
  <2>3. Carried(c)' = 0 /\ \A d \in Coroutines : d # c => Carried(d)' = Carried(d)
    BY <2>1, CarriedMoves
  <2> QED BY <1>1, <2>1, <2>2, <2>3, FoldMoves
<1> QED BY <1>2, <1>3

LEMMA BeginsFold ==
  ASSUME WatcherTypes, FoldInv, Begins
  PROVE  FoldInv'
<1>1. mem.suppressed \in Nat /\ refused \in Int /\ posted \in Int /\ gone \in Int
  BY DEF WatcherTypes, MemShape, FoldInv
<1>2. CASE Tick
  <2>1. /\ co["clock"] = Idle /\ mem' = NewDay(mem) /\ UNCHANGED <<refused, posted>>
        /\ gone' = gone + mem.suppressed - NewDay(mem).suppressed
        /\ Become("clock", [Idle EXCEPT !.plan = Due])
    BY <1>2 DEF Tick, Become
  <2>2. NewDay(mem).suppressed \in Nat
    BY NewDayFacts DEF MemShape
  <2>3. [Idle EXCEPT !.plan = Due].step = "idle" /\ Idle.step = "idle" /\ "clock" \in Coroutines
    BY DueFacts, IdleFacts DEF Coroutines
  <2>4. /\ Carried("clock")' = 0 /\ Carried("clock") = 0
        /\ \A d \in Coroutines : d # "clock" => Carried(d)' = Carried(d)
    BY <2>1, <2>3, CarriedMoves DEF Carried
  <2> QED BY <1>1, <2>1, <2>2, <2>3, <2>4, FoldMoves
<1>3. ASSUME NEW kind \in {"bar_1m", "bar_5m"}, Event(kind) PROVE FoldInv'
  <2>1. \E r : Become("event", r) /\ r.step = "idle"
    <3>1. PICK plan \in Seq(Tasks) : co' = [co EXCEPT !["event"] = [co["event"] EXCEPT !.plan = plan]]
      <4>1. /\ <<"bias_flip", "stop_proximity">> \in Seq(Tasks)
            /\ <<"flow_at_watch", "stop_proximity">> \in Seq(Tasks)
        BY DEF Tasks, Triggers, Limited
      <4> QED BY <1>3, <4>1 DEF Event
    <3>2. [co["event"] EXCEPT !.plan = plan].step = "idle"
      BY <1>3, IdleFacts DEF Event
    <3> QED BY <3>1, <3>2 DEF Become
  <2>2. co["event"].step = "idle" /\ mem' = mem /\ UNCHANGED <<refused, posted, gone>> /\ "event" \in Coroutines
    BY <1>3, IdleFacts DEF Event, Coroutines
  <2> QED BY <2>1, <2>2, FoldsStay
<1> QED BY <1>2, <1>3 DEF Begins

LEMMA TaskFolds ==
  ASSUME WatcherTypes, FoldInv, NEW c \in Coroutines,
         \/ \E near \in BOOLEAN : Take(c, near)
         \/ \E lean \in Lean : DayRead(c, lean)
         \/ Store(c) \/ Publish(c)
  PROVE  FoldInv'
<1>1. UNCHANGED <<refused, posted, gone>> /\ co[c].step # "insert" /\ mem \in MemShape
  BY DEF Take, DayRead, Store, Publish, WatcherTypes
<1>2. mem'.suppressed = mem.suppressed
  <2>1. CASE \E near \in BOOLEAN : Take(c, near)
    BY <1>1, <2>1, TakeEffects DEF MemShape
  <2>2. CASE ~\E near \in BOOLEAN : Take(c, near)
    BY <2>2 DEF DayRead, Store, Publish
  <2> QED BY <2>1, <2>2
<1>3. \E r : Become(c, r) /\ r.step # "insert"
  <2>1. CASE \E near \in BOOLEAN : Take(c, near)
    <3>1. PICK near \in BOOLEAN : Take(c, near)
      BY <2>1
    <3>2. /\ co[c].plan # <<>> /\ co[c].step = "idle" /\ None \in Lean /\ lastRead \in Lean /\ co[c].was \in Lean
          /\ {"close_summary", "engine_offline"} \cup Limited \subseteq Triggers
      BY <3>1, TakeEffects DEF WatcherTypes, CoShape, Lean, Triggers, Unlimited
    <3>3. /\ Dropped(c).step = "idle" /\ Checks(c).step = "idle"
          /\ \A was \in Lean : Asked(c, was).step = "tool"
      BY <3>2, DropFacts, CheckingFacts, AskedFacts
    <3>4. \A trigger \in Triggers : Pinged(c, trigger, None, None).step = "ping"
      BY <3>2, PingingFacts
    <3> QED BY <3>1, <3>2, <3>3, <3>4, TakeEffects
  <2>2. CASE \E lean \in Lean : DayRead(c, lean)
    <3>1. PICK lean \in Lean : DayRead(c, lean)
      BY <2>2
    <3>2. co[c].plan # <<>> /\ co[c] \in CoShape /\ "pre_open_read" \in Triggers /\ None \in Lean
      BY <3>1, DayReadEffects DEF WatcherTypes, Triggers, Unlimited, Lean
    <3>3. Dropped(c).step = "idle" /\ Pinged(c, "pre_open_read", None, None).step = "ping"
      BY <3>2, DropFacts, PingingFacts
    <3>4. Stored(c, lean).step = "store"
      BY <3>2 DEF Stored, CoShape
    <3> QED BY <3>1, <3>3, <3>4, DayReadEffects
  <2>3. CASE Store(c)
    <3>1. PICK trigger \in Triggers, was \in Lean, lean \in Lean : Become(c, Pinged(c, trigger, was, lean))
      BY <2>3, StoreEffects DEF Lean, Reads, Triggers, Unlimited, Limited
    <3>2. Pinged(c, trigger, was, lean).step = "ping"
      BY <2>3, StoreEffects, PingingFacts
    <3> QED BY <3>1, <3>2
  <2>4. CASE Publish(c)
    BY <2>4, PublishEffects, DropFacts
  <2> QED BY <2>1, <2>2, <2>3, <2>4
<1> QED BY <1>1, <1>2, <1>3, FoldsStay

LEMMA FoldStep ==
  ASSUME WatcherTypes, FoldInv, Next
  PROVE  FoldInv'
<1>1. ASSUME UNCHANGED <<mem, co, refused, posted, gone>> PROVE FoldInv'
  BY <1>1 DEF FoldInv, FoldedOnce, Carried
<1>2. CASE \/ Time \/ (\E h \in {"never", "fresh", "behind", "offline"} : Heart(h)) \/ Mute \/ Watch
           \/ (\E f \in Forms : Count(f) \/ Enter(f)) \/ Backlog \/ Subscribe
  BY <1>1, <1>2 DEF Time, Heart, Mute, Watch, Count, Enter, Backlog, Subscribe, watcherVars
<1>3. CASE WatcherStep
  BY <1>3, TaskFolds, SendFolds DEF WatcherStep
<1>4. CASE Begins
  BY <1>4, BeginsFold
<1>5. ASSUME NEW c \in Coroutines, Posts(c) \/ Publish(c) PROVE FoldInv'
  BY <1>5, RowFolds, TaskFolds DEF Posts
<1>6. CASE \E c \in DOMAIN co : Raise(c)
  <2>1. DOMAIN co = Coroutines
    BY DEF WatcherTypes
  <2> QED BY <1>6, <2>1, RowFolds
<1>7. CASE Restarts
  <2>1. /\ mem' = Fresh /\ \A c \in Coroutines : co'[c] = Idle
        /\ refused' = 0 /\ posted' = 0 /\ gone' = 0
    BY <1>7 DEF Restarts, Restart, WatcherTypes
  <2>2. Carried("clock")' = 0 /\ Carried("event")' = 0 /\ mem'.suppressed = 0
    BY <2>1, IdleFacts DEF Carried, Coroutines, Fresh
  <2> QED BY <2>1, <2>2 DEF FoldInv, FoldedOnce
<1>8. CASE UNCHANGED <<world, watcherVars, pings, life>>
  BY <1>1, <1>8 DEF watcherVars
<1>9. Grading => UNCHANGED <<world, watcherVars, pings, life>>
  BY DEF Grading, Aside
<1> QED BY <1>2, <1>3, <1>4, <1>5, <1>6, <1>7, <1>8, <1>9, StepCases

LEMMA LimitStep ==
  TypeInv /\ TurnsSound /\ LimitInv /\ [Next]_vars => TypeInv' /\ TurnsSound' /\ LimitInv'
<1> SUFFICES ASSUME TypeInv, TurnsSound, LimitInv, [Next]_vars
             PROVE  TypeInv' /\ TurnsSound' /\ LimitInv'
  OBVIOUS
<1>1. TypeInv' /\ TurnsSound'
  BY TypeStep
<1>2. WatcherTypes /\ WebTypes /\ WatcherTypes'
  BY <1>1 DEF TypeInv
<1>3. WatchInv
  BY DEF LimitInv, WatchInv
<1>4. CASE Next
  <2>1. WatchInv'
    BY <1>2, <1>3, <1>4, WatchStep
  <2>2. FormInv'
    BY <1>2, <1>4, FormStep DEF LimitInv
  <2>3. FoldInv'
    BY <1>2, <1>4, FoldStep DEF LimitInv
  <2> QED BY <1>1, <2>1, <2>2, <2>3 DEF LimitInv, WatchInv
<1>5. CASE UNCHANGED vars
  <2>1. UNCHANGED <<now, heart, outage, entries, lastRead, mem, co, pings, life, form, hurried,
                    refused, posted, gone>>
    BY <1>5 DEF vars, watcherVars, webVars, world
  <2>2. WatchInv'
    BY <1>2, <1>3, <2>1, WatchKept
  <2>3. FormInv'
    BY <2>1 DEF LimitInv, FormInv
  <2>4. FoldInv'
    BY <2>1 DEF LimitInv, FoldInv, FoldedOnce, Carried
  <2> QED BY <1>1, <2>2, <2>3, <2>4 DEF LimitInv, WatchInv
<1> QED BY <1>4, <1>5

LEMMA LimitInit ==
  Init => TypeInv /\ TurnsSound /\ LimitInv
<1> SUFFICES ASSUME Init PROVE TypeInv /\ TurnsSound /\ LimitInv
  OBVIOUS
<1>1. TypeInv /\ TurnsSound
  BY TypeInit
<1>2. PICK r \in CoShape : r = Idle /\ r.step = "idle" /\ r.plan = <<>>
  BY IdleFacts
<1>3. /\ co["clock"] = r /\ co["event"] = r /\ pings = <<>> /\ mem = Fresh
      /\ DOMAIN r.plan = {} /\ DOMAIN pings = {}
  BY <1>2 DEF Init, WatcherInit
<1>4. \A c \in Coroutines : co[c].step = "idle"
  BY <1>2, <1>3 DEF Coroutines
<1>5. BookInv
  <2>1. Told = {} /\ AllApart
    BY <1>3, <1>4 DEF Told, AllApart, Coroutines
  <2>2. ASSUME NEW alive, NEW session PROVE Sum(alive, session) = 0
    <3>1. Filed(alive, session) = {} /\ Coming(alive, session) = {}
      BY <1>3, <1>4 DEF Filed, Coming
    <3> QED BY <3>1, FS_EmptySet DEF Sum
  <2>3. SessionMax \in Nat /\ mem.count = 0
    BY <1>3, ConstantFacts DEF Fresh
  <2> QED BY <2>1, <2>2, <2>3 DEF BookInv, Counts
<1>6. ClockClear(co["clock"]) /\ EventClear(co["event"])
  BY <1>2, <1>3 DEF ClockClear, EventClear
<1>7. FormInv
  <2>1. MaxEntries \in Nat
    BY DeskAssumption
  <2> QED BY <2>1 DEF Init, FormInv
<1>8. mem.day \notin Days
  BY <1>3, ConstantFacts DEF Fresh
<1>9. FoldInv
  <2>1. Carried("clock") = 0 /\ Carried("event") = 0 /\ mem.suppressed = 0
    BY <1>3, <1>4 DEF Carried, Coroutines, Fresh
  <2>2. refused = 0 /\ posted = 0 /\ gone = 0
    BY DEF Init, WatcherInit
  <2> QED BY <2>1, <2>2 DEF FoldInv, FoldedOnce
<1> QED BY <1>1, <1>5, <1>6, <1>7, <1>8, <1>9 DEF LimitInv

(* The limits follow from what is booked.                                  *)
LEMMA TypeOKHolds ==
  ASSUME TypeInv
  PROVE  TypeOK
<1>1. /\ now \in [day : Days, at : 0 .. LastSlot] /\ heart \in {"never", "fresh", "behind", "offline"}
      /\ muted \in BOOLEAN /\ watching \in BOOLEAN /\ entries \in [Days -> Nat]
      /\ lastRead \in Leans \cup {None}
  BY DEF TypeInv, WatcherTypes, Moments, Lean
<1>2. mem.count \in 0 .. SessionMax /\ mem.suppressed \in Nat /\ mem.day \in Days \cup {None}
  BY DEF TypeInv, WatcherTypes, MemShape
<1>3. ASSUME NEW c \in DOMAIN co
      PROVE  /\ co[c].step \in {"idle", "tool", "store", "ping", "insert", "publish"}
             /\ co[c].step # "idle" => co[c].plan # <<>>
             /\ co[c].step \in {"ping", "insert", "publish"} => co[c].ping.trigger \in Triggers
  <2>1. co[c] \in CoShape /\ CoFits(co[c])
    BY DEF TypeInv, WatcherTypes
  <2> QED BY <2>1, ShapeFacts DEF CoShape, CoFits
<1>4. ASSUME NEW t \in Turns
      PROVE  /\ turn[t].chat \in 0 .. sessions /\ turn[t].opinion \in 0 .. Len(opinions)
             /\ turn[t].rounds \in 0 .. ToolRounds + 1 /\ turn[t].retries \in 0 .. Retries
  <2>1. turn[t] \in TurnShape /\ sessions \in Nat /\ Len(opinions) \in Nat
    BY DEF TypeInv, AgentTypes
  <2> QED BY <2>1 DEF TypeInv, AgentTypes, TurnShape
<1>5. due \subseteq DOMAIN opinions /\ page.shown \subseteq DOMAIN pings
  BY DEF TypeInv, AgentTypes, WebTypes
<1> QED BY <1>1, <1>2, <1>3, <1>4, <1>5 DEF TypeOK

LEMMA LimitHolds ==
  ASSUME TypeInv, LimitInv
  PROVE  LimitsHold
<1>1. WatcherTypes /\ BookInv
  BY DEF TypeInv, LimitInv
<1>2. ASSUME NEW i \in DOMAIN pings
      PROVE  pings[i] \in PingShape /\ At(pings[i].sent) \in Int
  BY <1>1, ToldFacts, AtFacts DEF BookInv, Known
<1>3. RateLimited
  <2>1. ASSUME NEW i \in DOMAIN pings, NEW j \in DOMAIN pings, i # j,
               pings[i].trigger = pings[j].trigger, pings[i].trigger \in Limited,
               pings[i].life = pings[j].life, pings[i].session = pings[j].session
        PROVE  At(pings[i].sent) - At(pings[j].sent) \notin (1 - Cooldown) .. (Cooldown - 1)
    <3>1. \/ At(pings[i].sent) - At(pings[j].sent) >= Cooldown
          \/ At(pings[j].sent) - At(pings[i].sent) >= Cooldown
      BY <1>1, <2>1 DEF BookInv, AllApart, Apart
    <3>2. PICK a \in Int, b \in Int : a = At(pings[i].sent) /\ b = At(pings[j].sent)
      BY <1>2
    <3> QED BY <3>1, <3>2, WatcherAssumption
  <2>2. ASSUME NEW i \in DOMAIN pings
        PROVE  Cardinality({j \in DOMAIN pings : /\ pings[j].trigger \in Limited /\ pings[j].life = pings[i].life
                                                /\ pings[j].session = pings[i].session}) <= SessionMax
    <3>1. PICK p \in PingShape : p = pings[i] /\ p.life \in Nat /\ p.session \in Days \cup {None}
      BY <1>2, ShapeFacts
    <3>2. Filed(p.life, p.session)
            = {j \in DOMAIN pings : /\ pings[j].trigger \in Limited /\ pings[j].life = pings[i].life
                                    /\ pings[j].session = pings[i].session}
      BY <3>1 DEF Filed, OfSession
    <3>3. /\ Sum(p.life, p.session) <= SessionMax
          /\ Sum(p.life, p.session) = Cardinality(Filed(p.life, p.session)) + Cardinality(Coming(p.life, p.session))
      BY <1>1, <3>1 DEF BookInv, Counts, Sum
    <3>4. /\ Cardinality(Filed(p.life, p.session)) \in Nat /\ Cardinality(Coming(p.life, p.session)) \in Nat
          /\ SessionMax \in Nat
      BY <1>1, SumFacts, ConstantFacts
    <3>5. Cardinality(Filed(p.life, p.session)) <= SessionMax
      BY <3>3, <3>4
    <3> QED BY <3>2, <3>5
  <2> QED BY <2>1, <2>2 DEF RateLimited
<1>4. OncePerOccasion
  BY <1>1 DEF BookInv, AllApart, Apart, OncePerOccasion
<1>5. HardBlock
  BY DEF LimitInv, FormInv, HardBlock
<1>6. FoldedOnce
  BY DEF LimitInv, FoldInv
<1> QED BY <1>3, <1>4, <1>5, <1>6, TypeOKHolds DEF LimitsHold

(* The desk's limits hold for every cooldown, session's limit, days and    *)
(* slots: the pings of one trigger and session are a cooldown apart, no    *)
(* session has more than its limit, each occasion is told of once, a ping  *)
(* that is refused is counted once, and no day has more rows than the      *)
(* rule, unless two forms were at work at once.                            *)
THEOREM LimitsAreKept == Spec => []LimitsHold
<1>1. TypeInv /\ LimitInv => LimitsHold
  BY LimitHolds
<1> QED BY LimitInit, LimitStep, <1>1, PTL DEF Spec
=============================================================================
