-------------------------------- MODULE Desk --------------------------------
(***************************************************************************)
(* The desk's brain as one process: the watcher and the agent, the web     *)
(* application beside them (the checklist of the day's trades, the feed of *)
(* pings of an open page), and the world they read: the clock, the         *)
(* engine's heartbeat, the market, the trader's commands.                  *)
(***************************************************************************)
EXTENDS Watcher, Agent

CONSTANTS
  Forms,       \* submissions of the checklist form, numbered
  MaxEntries,  \* the rule of two trades a day
  Scenarios    \* bounds: each with the days and their slots, whether the watcher runs, a
               \* page is open and turns overlap, and how many questions, forms, events
               \* of the engine and of those it pings for, changes of the heartbeat,
               \* commands, calls that fail, opinions that cannot be graded and restarts

VARIABLES
  bound,     \* the scenario of this behaviour
  form,      \* form -> [step, day]: a POST of /api/checklist at work
  page,      \* a page with the feed of pings: [step, shown]
  awaited,   \* history: pings inserted while the page was subscribed
  hurried,   \* history: two turns of the chat, or two forms, were at work at once
  mishap,    \* history: a call failed or the process restarted
  used       \* what has been used of the bound

webVars == <<form, page, awaited, hurried>>
budget == <<bound, used, mishap>>
vars == <<watcherVars, pings, life, world, agentVars, webVars, budget>>

Spend(kind) == used[kind] < bound[kind] /\ used' = [used EXCEPT ![kind] = @ + 1]
Kinds == {"turns", "forms", "events", "hearts", "commands", "fails", "restarts", "nears", "blanks"}

ASSUME DeskAssumption ==
  /\ IsFiniteSet(Forms) /\ MaxEntries \in Nat
  /\ \A s \in Scenarios : /\ Kinds \cup {"days", "slots", "pages", "watcher", "overlap"} \subseteq DOMAIN s
                          /\ s.days \in 1 .. Cardinality(Days) /\ s.slots \in 0 .. LastSlot

Init ==
  /\ bound \in Scenarios
  /\ used = [k \in Kinds |-> 0]
  /\ now = [day |-> 1, at |-> 0] /\ heart = "fresh" /\ muted = FALSE /\ watching = FALSE
  /\ entries = [d \in Days |-> 0] /\ outage = 0
  /\ WatcherInit /\ AgentInit
  /\ form = [f \in Forms |-> [step |-> "blank", day |-> None]]
  /\ page = [step |-> IF bound.pages THEN "closed" ELSE "never", shown |-> {}]
  /\ awaited = {} /\ hurried = FALSE /\ mishap = FALSE

-----------------------------------------------------------------------------
(* The world.                                                              *)
Time ==
  /\ now' = IF now.at < bound.slots THEN [now EXCEPT !.at = @ + 1] ELSE [day |-> now.day + 1, at |-> 0]
  /\ now'.day <= bound.days
  /\ UNCHANGED <<heart, muted, watching, entries, outage, watcherVars, pings, life, agentVars, webVars, budget>>

Heart(h) ==
  /\ h # heart /\ Spend("hearts") /\ heart' = h
  /\ outage' = IF heart = "offline" THEN outage + 1 ELSE outage
  /\ UNCHANGED <<now, muted, watching, entries, watcherVars, pings, life, agentVars, webVars, bound, mishap>>

(* /mute, and its end; /watch and /unwatch.                                *)
Mute ==
  /\ Spend("commands") /\ muted' = ~muted
  /\ UNCHANGED <<now, heart, watching, entries, outage, watcherVars, pings, life, agentVars, webVars, bound, mishap>>

Watch ==
  /\ Spend("commands") /\ watching' = ~watching
  /\ UNCHANGED <<now, heart, muted, entries, outage, watcherVars, pings, life, agentVars, webVars, bound, mishap>>

(* POST /api/checklist: the rows of the day are counted, then one is       *)
(* inserted.                                                               *)
Blocked(count) == count >= MaxEntries

Count(f) ==
  /\ f = used["forms"] + 1 /\ Spend("forms")
  /\ form' = [form EXCEPT ![f] = [step |-> IF Blocked(entries[now.day]) THEN "refused" ELSE "insert", day |-> now.day]]
  /\ hurried' = (hurried \/ \E g \in Forms : form[g].step = "insert")
  /\ UNCHANGED <<world, watcherVars, pings, life, agentVars, page, awaited, bound, mishap>>

Enter(f) ==
  /\ form[f].step = "insert"
  /\ entries' = [entries EXCEPT ![form[f].day] = @ + 1]
  /\ form' = [form EXCEPT ![f].step = "done"]
  /\ UNCHANGED <<now, heart, muted, watching, outage, watcherVars, pings, life, agentVars, page, awaited, hurried, budget>>

(* GET /pings: what is in the table, and then what is published.           *)
Backlog ==
  /\ page.step = "closed"
  /\ page' = [step |-> "read", shown |-> page.shown \cup DOMAIN pings]
  /\ UNCHANGED <<world, watcherVars, pings, life, agentVars, form, awaited, hurried, budget>>

Subscribe ==
  /\ page.step = "read" /\ page' = [page EXCEPT !.step = "live"]
  /\ UNCHANGED <<world, watcherVars, pings, life, agentVars, form, awaited, hurried, budget>>

-----------------------------------------------------------------------------
(* The watcher's steps; a call that fails is one of the budget.            *)
RowTold(c) == co[c].read

Publish(c) ==
  /\ co[c].step = "publish"
  /\ page' = IF page.step = "live" THEN [page EXCEPT !.shown = @ \cup {RowTold(c)}] ELSE page
  /\ co' = Drop(c)
  /\ UNCHANGED <<world, lastRead, mem, pings, life, refused, posted, gone, agentVars, form, awaited, hurried, budget>>

Silent == UNCHANGED <<agentVars, webVars, budget>>

Looks(c) ==
  \/ Take(c, FALSE) /\ Silent
  \/ Take(c, TRUE) /\ Spend("nears") /\ UNCHANGED <<agentVars, webVars, bound, mishap>>

ClockStep ==
  \/ bound.watcher /\ Tick /\ Silent
  \/ Looks("clock")
  \/ \E lean \in Leans : DayRead("clock", lean) /\ Silent
  \/ Store("clock") /\ Silent
  \/ Send("clock") /\ Silent

EventStep ==
  \/ Looks("event")
  \/ \E lean \in Leans \cup {None} : DayRead("event", lean) /\ Silent
  \/ Store("event") /\ Silent
  \/ Send("event") /\ Silent

Posts(c) ==
  /\ Insert(c)
  /\ awaited' = IF page.step = "live" THEN awaited \cup {Len(pings')} ELSE awaited
  /\ UNCHANGED <<agentVars, form, page, hurried, budget>>

Events ==
  \E kind \in {"bar_1m", "bar_5m"} :
    Event(kind) /\ Spend("events") /\ UNCHANGED <<agentVars, webVars, bound, mishap>>

CallFails ==
  /\ Spend("fails") /\ mishap' = TRUE /\ UNCHANGED bound
  /\ \/ \E c \in DOMAIN co : Raise(c) /\ UNCHANGED agentVars
     \/ DayRead("clock", None) /\ UNCHANGED agentVars
     \/ \E t \in Turns : Fails(t) /\ UNCHANGED <<world, watcherVars, pings, life>>
     \/ \E written \in BOOLEAN : Abort(written) /\ UNCHANGED <<world, watcherVars, pings, life>>
  /\ UNCHANGED webVars

(* The process dies: what the turns at work had not written is lost, the   *)
(* page connects again.                                                    *)
Restarts ==
  /\ Spend("restarts") /\ mishap' = TRUE
  /\ Restart
  /\ turn' = [t \in Turns |-> IF turn[t].step \in {"unasked", "final"} THEN turn[t]
                              ELSE [turn[t] EXCEPT !.step = "error"]]
  /\ due' = {}
  /\ page' = IF page.step = "never" THEN page ELSE [page EXCEPT !.step = "closed"]
  /\ awaited' = {}
  /\ UNCHANGED <<world, sessions, rows, summed, opinions, garbled, form, hurried, bound>>

(* The agent's steps.                                                      *)
Asks(t) ==
  /\ t = used["turns"] + 1 /\ Ask(t) /\ Spend("turns")
  /\ bound.overlap \/ \A u \in Turns : turn[u].step \in {"unasked", "final", "error"}
  /\ hurried' = (hurried \/ \E u \in Turns : turn[u].step \notin {"unasked", "final", "error"})
  /\ UNCHANGED <<world, watcherVars, pings, life, form, page, awaited, bound, mishap>>

Behind == heart \in {"never", "behind", "offline"}

Aside == UNCHANGED <<world, watcherVars, pings, life, webVars>>

Uses(t) ==
  /\ \E ok \in BOOLEAN : UseTool(t, ok, Behind)
  /\ Aside /\ UNCHANGED budget

TurnStep(t) ==
  /\ Aside
  /\ \/ Open(t) /\ UNCHANGED budget
     \/ \E view, clean, class \in BOOLEAN : Reply(t, view, clean, class) /\ UNCHANGED budget
     \/ \E view, clean \in BOOLEAN : Regenerate(t, view, clean) /\ UNCHANGED budget
     \/ \E opens \in BOOLEAN : Check(t, FALSE, opens) /\ UNCHANGED budget
     \/ Log(t, TRUE, TRUE) /\ UNCHANGED budget
     \/ Log(t, TRUE, FALSE) /\ Spend("blanks") /\ UNCHANGED <<bound, mishap>>
     \/ Say(t) /\ UNCHANGED budget
     \/ Summarize(t, TRUE) /\ UNCHANGED budget

(* Calls of a turn whose failure the turn survives: the rewriting of a     *)
(* reply, the opinion's row, the summary.                                  *)
TurnStumbles(t) ==
  /\ Aside /\ Spend("fails") /\ mishap' = TRUE /\ UNCHANGED bound
  /\ \/ \E opens \in BOOLEAN : Check(t, TRUE, opens)
     \/ Log(t, FALSE, TRUE)
     \/ Summarize(t, FALSE)

GraderStep == (Night \/ Grade) /\ Aside /\ UNCHANGED budget

Next ==
  \/ Time \/ (\E h \in {"never", "fresh", "behind", "offline"} : Heart(h)) \/ Mute \/ Watch
  \/ (\E f \in Forms : Count(f) \/ Enter(f))
  \/ Backlog \/ Subscribe
  \/ ClockStep \/ EventStep \/ Events
  \/ (\E c \in {"clock", "event"} : Posts(c) \/ Publish(c))
  \/ CallFails \/ Restarts
  \/ (\E t \in Turns : Asks(t) \/ Uses(t) \/ TurnStep(t) \/ TurnStumbles(t))
  \/ GraderStep

Spec == Init /\ [][Next]_vars

(* The process runs: its coroutines, the turns and the grading go on, for  *)
(* every call they make returns or raises.  The world owes nothing.        *)
ClockRuns == ClockStep \/ Posts("clock") \/ Publish("clock")
FairSpec ==
  /\ Spec
  /\ WF_vars(ClockRuns) /\ WF_vars(GraderStep)
  /\ WF_vars(\E t \in Turns : Uses(t) \/ TurnStep(t))
-----------------------------------------------------------------------------
(* Every variable has its type.                                            *)
TypeOK ==
  /\ now \in [day : Days, at : 0 .. LastSlot] /\ heart \in {"never", "fresh", "behind", "offline"}
  /\ muted \in BOOLEAN /\ watching \in BOOLEAN /\ entries \in [Days -> Nat]
  /\ lastRead \in Leans \cup {None}
  /\ mem.count \in 0 .. SessionMax /\ mem.suppressed \in Nat /\ mem.day \in Days \cup {None}
  /\ \A c \in DOMAIN co : /\ co[c].step \in {"idle", "tool", "store", "ping", "insert", "publish"}
                          /\ co[c].step # "idle" => co[c].plan # <<>>
                          /\ co[c].step \in {"ping", "insert", "publish"} => co[c].ping.trigger \in Triggers
  /\ \A t \in Turns : /\ turn[t].chat \in 0 .. sessions /\ turn[t].opinion \in 0 .. Len(opinions)
                      /\ turn[t].rounds \in 0 .. ToolRounds + 1 /\ turn[t].retries \in 0 .. Retries
  /\ due \subseteq DOMAIN opinions /\ page.shown \subseteq DOMAIN pings

(* The rate limit of the watcher (watcher.py:60-83), whichever way its two *)
(* coroutines interleave: of one process and one session, two pings of one *)
(* trigger are a cooldown apart and no more than the limit are posted.     *)
RateLimited ==
  /\ \A i, j \in DOMAIN pings :
       (/\ i # j /\ pings[i].trigger = pings[j].trigger /\ pings[i].trigger \in Limited
        /\ pings[i].life = pings[j].life /\ pings[i].session = pings[j].session)
          => At(pings[i].sent) - At(pings[j].sent) \notin (1 - Cooldown) .. (Cooldown - 1)
  /\ \A i \in DOMAIN pings :
       Cardinality({j \in DOMAIN pings : /\ pings[j].trigger \in Limited /\ pings[j].life = pings[i].life
                                        /\ pings[j].session = pings[i].session}) <= SessionMax

(* A process posts the day read and the close summary once a day and tells *)
(* of an outage of the engine once, though its clock finds them due at     *)
(* every tick and each waits for calls that other steps overtake.          *)
OncePerOccasion ==
  \A i, j \in DOMAIN pings :
    (i # j /\ pings[i].life = pings[j].life /\ pings[i].trigger = pings[j].trigger) =>
      /\ pings[i].trigger \in {"pre_open_read", "close_summary"} => pings[i].session # pings[j].session
      /\ pings[i].trigger = "engine_offline" => pings[i].outage # pings[j].outage

(* Overflow folds into the next ping (watcher.py:4-5): each ping refused   *)
(* by the session's limit is counted in one posted ping, or in one on its  *)
(* way, or still waits to be, or went with the day or a ping that failed.  *)
Carried(c) == IF co[c].step = "insert" THEN co[c].ping.folded ELSE 0

FoldedOnce == refused = posted + Carried("clock") + Carried("event") + mem.suppressed + gone

(* The server's hard block (checklist/route.ts:22): no day has more rows   *)
(* than the rule allows, unless two submissions were at work at once.      *)
HardBlock == hurried \/ \A d \in Days : entries[d] <= MaxEntries

(* A page that was subscribed when a ping was inserted has shown it, or    *)
(* will when the coroutine that inserted it has published it, unless a     *)
(* call failed.                                                            *)
FeedShows ==
  (~mishap /\ page.step = "live") =>
    \A i \in awaited \ page.shown : \E c \in DOMAIN co : co[c].step = "publish" /\ co[c].read = i

(* postcheck.apply_rules, rule 3: whatever is told in a turn that used a   *)
(* stale tool result, the fallback too, begins by saying that the data is  *)
(* behind or not to be seen, in the rule's words or in one of the openings *)
(* it takes for that.                                                      *)
StaleToldFirst ==
  \A t \in Turns : (turn[t].told # "nothing" /\ turn[t].stale) => turn[t].excused

(* Rule 1: a view that is told rests on a tool called in its turn, unless  *)
(* the classifier missed it or it came with a rewriting of the reply.      *)
ViewsRest ==
  \A t \in Turns : (turn[t].told # "nothing" /\ turn[t].view) => turn[t].tools \/ t \in garbled

(* What is recorded for grading is a view that rests on a tool and is the  *)
(* one told, not one the rules took back, unless the reply was rewritten   *)
(* without one after it was classified.  The turn may yet fail before its  *)
(* rows are written: what it recorded is graded all the same.              *)
OpinionsOfReplies ==
  \A t \in Turns : turn[t].opinion # 0 =>
    /\ turn[t].class /\ turn[t].tools /\ turn[t].told = "reply"
    /\ turn[t].view \/ t \in garbled

(* The model is sent the last rows of the chat and its summary             *)
(* (loop.py:7-11): with one turn at a time and no failure, when a question *)
(* is asked each of the last Transcript rows is among those sent or those  *)
(* the summary, as it is now, was written from.  Earlier rows are gone.    *)
Since(i) == Cardinality({j \in i .. Len(rows) : rows[j].chat = rows[i].chat})

ContextKept ==
  (~hurried /\ ~mishap) =>
    \A t \in Turns : turn[t].step = "model" =>
      \A i \in RowsIn(turn[t].chat) : Since(i) <= Transcript => i \in summed \/ Since(i) <= Window

(* On a weekday the day read falls due at 09:20 and is posted, unless the  *)
(* watcher is muted meanwhile, a call fails or the process restarts, or    *)
(* the day ends first.                                                     *)
DayReadPosted ==
  (now.day \in Weekdays /\ now.at >= PreOpen /\ ~(mem.day = now.day /\ mem.preopen))
    ~> \/ muted \/ mishap \/ now.at < PreOpen
       \/ \E i \in DOMAIN pings : pings[i].trigger = "pre_open_read" /\ pings[i].session = now.day

(* A request to the chat is answered, with a reply or with an error: the   *)
(* rounds of tools and the rewritings come to an end.                      *)
TurnEnds == []<>(\A t \in Turns : turn[t].step \in {"unasked", "final", "error"})

(* An opinion that can be graded is graded some night, as long as those    *)
(* that cannot are fewer than a run takes.                                 *)
EveryOpinionGraded == []<>(\A i \in DOMAIN opinions : opinions[i].gradable => opinions[i].graded)

-----------------------------------------------------------------------------
(* The desk's limits hold, however its steps interleave: pings of a        *)
(* session, one per occasion, refused ones folded once, rows of a day.     *)
LimitsHold == TypeOK /\ RateLimited /\ OncePerOccasion /\ FoldedOnce /\ HardBlock

(* What the desk tells is whole and grounded: the feed, the stale note,    *)
(* views and the opinions on record, the context a question is asked with. *)
ToldInFull == FeedShows /\ StaleToldFirst /\ ViewsRest /\ OpinionsOfReplies /\ ContextKept

(* What was begun is ended: a turn is answered, an opinion is graded.      *)
WorkEnds == TurnEnds /\ EveryOpinionGraded
=============================================================================
