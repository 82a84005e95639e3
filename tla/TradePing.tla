----------------------------- MODULE TradePing -----------------------------
(***************************************************************************)
(* scripts/trade_ping.py beside the engine: a process of its own that      *)
(* tails the day's journal and notifies the human of every entry and every *)
(* closed position, composed with the router that appends to that journal. *)
(* An offset counts lines.                                                 *)
(***************************************************************************)
EXTENDS Router

VARIABLES
  ppc,          \* "down", "poll" or "notify"
  saved,        \* trade_ping_state.json: the offset kept for this file, or None
  queue,        \* drained records still to be notified
  next,         \* drain's new offset
  pings,        \* history: line -> how often the human was notified of it
  firstSight,   \* history: the offset the file was first seen at
  pingerDeaths

pinger == <<ppc, saved, queue, next, pings, firstSight, pingerDeaths>>
vars == <<routerVars, pinger>>

Pingable == {"entry", "close"}

PingInit ==
  /\ ppc = "down" /\ saved = None /\ queue = {} /\ next = 0
  /\ pings = <<>> /\ firstSight = None /\ pingerDeaths = 0

(* launchd starts it, and again whenever it has gone.                      *)
Launch ==
  /\ bound.watched
  /\ ppc = "down" /\ ppc' = "poll" /\ queue' = {}
  /\ UNCHANGED <<saved, next, pings, firstSight, pingerDeaths>>

(* watch: at first sight the file's size is the offset, a line that is     *)
(* being written included; what is left of that line does not parse.       *)
FirstSight ==
  /\ ppc = "poll" /\ saved = None /\ (lines # <<>> \/ torn # "no")
  /\ saved' = Len(lines) + (IF torn = "no" THEN 0 ELSE 1) /\ firstSight' = saved'
  /\ UNCHANGED <<ppc, queue, next, pings, pingerDeaths>>

(* drain: the complete lines past the offset; a line still without its     *)
(* newline is left for the next poll, a garbled one is skipped.            *)
ReadTo == Len(lines)

Drained == {k \in DOMAIN lines : k > saved /\ lines[k] \in Pingable}

Drain ==
  /\ ppc = "poll" /\ saved # None /\ ReadTo > saved
  /\ queue' = Drained /\ next' = ReadTo /\ ppc' = "notify"
  /\ UNCHANGED <<saved, pings, firstSight, pingerDeaths>>

Notified(k) == IF k \in DOMAIN pings THEN pings[k] ELSE 0

(* The oldest first.                                                       *)
Notify ==
  /\ ppc = "notify"
  /\ \E k \in queue :
       /\ \A j \in queue : k <= j
       /\ pings' = With(pings, k, Notified(k) + 1)
       /\ queue' = queue \ {k}
  /\ UNCHANGED <<ppc, saved, next, firstSight, pingerDeaths>>

(* The state file is written once everything drained has been notified.    *)
(* Mutant: before that.                                                    *)
SavesAtOnce == ppc = "notify"

Saves == ppc = "notify" /\ queue = {}

SavedOffset == next

Save ==
  /\ Saves
  /\ saved' = SavedOffset /\ queue' = {} /\ ppc' = "poll"
  /\ UNCHANGED <<next, pings, firstSight, pingerDeaths>>

(* A notification that takes more than ten seconds raises, and nothing     *)
(* catches it; or the process is killed.                                   *)
Die ==
  /\ ppc # "down" /\ pingerDeaths < bound.hangs
  /\ pingerDeaths' = pingerDeaths + 1 /\ ppc' = "down" /\ queue' = {}
  /\ UNCHANGED <<saved, next, pings, firstSight>>

PingerNext == Launch \/ FirstSight \/ Drain \/ Notify \/ Save \/ Die

Init == RouterInit /\ PingInit

Next ==
  \/ RouterNext /\ UNCHANGED pinger
  \/ PingerNext /\ UNCHANGED routerVars

Spec == Init /\ [][Next]_vars

FairSpec ==
  /\ Spec /\ RouterFairness
  /\ WF_vars(Launch /\ UNCHANGED routerVars) /\ WF_vars(FirstSight /\ UNCHANGED routerVars)
  /\ WF_vars(Drain /\ UNCHANGED routerVars)
  /\ WF_vars(Notify /\ UNCHANGED routerVars) /\ WF_vars(Save /\ UNCHANGED routerVars)

-----------------------------------------------------------------------------
(* Types of both processes.                                                *)
TypeOK ==
  /\ RouterTypeOK
  /\ ppc \in {"down", "poll", "notify"}
  /\ saved \in {None} \cup 0 .. Len(lines) + 1 /\ next \in 0 .. Len(lines)
  /\ DOMAIN pings \subseteq DOMAIN lines
  /\ pingerDeaths \in 0 .. bound.hangs

(* A restart notifies again only of what had not been saved: nobody hears  *)
(* of a trade more often than once plus once per death of the watcher.     *)
OncePerLife == \A k \in DOMAIN pings : pings[k] <= 1 + pingerDeaths

(* Every trade record past the offset the file was first seen at reaches   *)
(* the human, whatever dies, as long as launchd starts the watcher again.  *)
Unheard ==
  {k \in DOMAIN lines : firstSight # None /\ k > firstSight /\ lines[k] \in Pingable} \ DOMAIN pings

EveryTradePinged == bound.watched /\ Unheard # {} ~> Unheard = {}

(* Every recorded trade is heard of, no more often than the watcher dies.  *)
PingedPerLife == [](TypeOK /\ OncePerLife) /\ EveryTradePinged
=============================================================================
