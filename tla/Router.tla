------------------------------- MODULE Router -------------------------------
(***************************************************************************)
(* What happens to a signal once the strategy has made it: the risk        *)
(* manager's last check, the router's fan-out to the human's notifiers and *)
(* to one executor per order account (router.py), the webhook executor's   *)
(* reading of the broker's answer (execution/webhook.py), the account list *)
(* re-read from disk (risk/accounts.py), and the journal they all write to *)
(* (journal.py).  The engine around it is module Engine.                   *)
(*                                                                         *)
(* An executor that places orders is named by its account.  An order is    *)
(* [leg, sig]; it reaches the broker, or is refused there, whenever the    *)
(* network and the broker please, also after the router has given up on it;*)
(* one that is lost stays on the wire.                                     *)
(***************************************************************************)
EXTENDS Integers, Sequences, FiniteSets

CONSTANTS
  None,
  Absent, Malformed,   \* accounts.yaml when it is not there, or not a mapping
                       \* of account names to booleans
  Notifiers,    \* NotifyExecutors: they have no account
  Hooks,        \* accounts traded through a WebhookExecutor
  Dry,          \* accounts traded through a DryRunExecutor
  PartialFan,   \* router.partial_fan: "continue" or "alert_only"
  HasSource,    \* whether reconcile has a position source to ask
  Scenarios     \* bounds: each with the number of signals, of edits of
                \* accounts.yaml, of processes killed, of watchers that die,
                \* whether the journal is watched while it is written, and
                \* whether a record can be seen, or cut, before it is whole

Accounts == Hooks \cup Dry
Executors == Notifiers \cup Accounts
Outcomes == {"FILLED", "REJECTED", "UNKNOWN"}

ASSUME RouterAssumption ==
  /\ Notifiers \cap Accounts = {} /\ Hooks \cap Dry = {}
  /\ IsFiniteSet(Executors) /\ None \notin Executors \cup Outcomes /\ None \notin Int
  /\ PartialFan \in {"continue", "alert_only"} /\ HasSource \in BOOLEAN
  /\ Scenarios \subseteq [signals : Nat, edits : Nat, deaths : Nat, hangs : Nat, watched : BOOLEAN,
                        halves : BOOLEAN]

VARIABLES
  bound,     \* the scenario of this behaviour
  file,      \* accounts.yaml: absent, malformed, or the accounts switched on
  edits,
  pc,        \* "down", "idle", "emitted", "telling", "ordering", "alerting",
             \* "alerted", "raised" (an exception is on its way out)
  sig,       \* number of the signal being handled, and its intent:
  intent,    \* "ENTRY" or "FLATTEN"
  held,      \* PositionTracker: whether a position is believed in
  told,      \* dispatch: the notifiers, read once
  sent,      \* dispatch: the brokers
  leg,       \* executors still running: "new" or "posted"
  result,    \* OrderResults so far: executor -> outcome
  blocked,   \* RiskManager: reconciliation required
  wire,      \* orders on their way to the broker
  placed,    \* orders the broker acts on
  refused,   \* orders the broker has understood and said no to
  http,      \* hooks whose aiohttp session is open
  stuck,     \* hooks whose close() raised
  pen,       \* records the journal still has to append
  lines,     \* the day's journal: kinds of its complete lines
  torn,      \* its last line lacks a newline: "no", "now" being written, or
             \* "left" by a process that died
  alerts,    \* history: notifiers alerted about the current signal
  deaths

broker == <<wire, placed, refused>>
signal == <<sig, intent>>
fan == <<told, sent, leg, result, alerts>>
journal == <<pen, lines, torn>>
sessions == <<http, stuck>>
routerVars == <<bound, file, edits, pc, signal, held, fan, blocked, broker, sessions, journal, deaths>>

Values(f) == {f[x] : x \in DOMAIN f}
NoLegs == [e \in {} |-> None]
With(f, e, v) == [x \in DOMAIN f \cup {e} |-> IF x = e THEN v ELSE f[x]]
Without(f, e) == [x \in DOMAIN f \ {e} |-> f[x]]

RouterInit ==
  /\ bound \in Scenarios
  /\ file \in {Absent, Accounts} /\ edits = 0
  /\ pc = "down" /\ sig = 0 /\ intent = "ENTRY" /\ held \in BOOLEAN
  /\ told = {} /\ sent = {} /\ leg = NoLegs /\ result = NoLegs
  /\ blocked = FALSE
  /\ wire = {} /\ placed = {} /\ refused = {}
  /\ http = {} /\ stuck = {}
  /\ pen = <<>> /\ lines = <<>> /\ torn = "no"
  /\ alerts = {} /\ deaths = 0

-----------------------------------------------------------------------------
(* AccountRegistry.enabled_accounts and Router.enabled: the file is read   *)
(* on every call; without one every account is on; one that is not a       *)
(* mapping of booleans raises.  A destination without an account is on.    *)
Raises == file = Malformed

Enabled == Notifiers \cup (IF file = Absent THEN Accounts ELSE file)

(* The operator edits accounts.yaml, at any time.                          *)
Edit ==
  /\ edits < bound.edits /\ edits' = edits + 1
  /\ file' \in ({Absent, Malformed} \cup SUBSET Accounts) \ {file}
  /\ UNCHANGED <<bound, pc, signal, held, fan, blocked, broker, sessions, journal, deaths>>

(* Engine.run: the destinations that are on are probed; a probe opens the  *)
(* executor's session and never raises, the read of the file may.          *)
Start ==
  /\ pc = "down" /\ ~Raises
  /\ pc' = "idle"
  /\ http' = Hooks \cap Enabled /\ stuck' = {}
  /\ blocked' = FALSE /\ pen' = <<>>
  /\ told' = {} /\ sent' = {} /\ leg' = NoLegs /\ result' = NoLegs /\ alerts' = {}
  /\ UNCHANGED <<bound, file, edits, signal, held, broker, lines, torn, deaths>>

-----------------------------------------------------------------------------
(* Journal._append, on a worker thread: one record at a time under the     *)
(* write lock.  The bytes can be seen, and the process can die, before the *)
(* newline is there; a record appended to such a line makes one line of    *)
(* two halves, which no reader can parse, but ends it: the record after    *)
(* that is whole again.  Journal.write returns only then.                  *)
(* Mutant: the newline is written only after a line that was begun whole.  *)
Line(kind) == IF torn = "left" THEN "garbled" ELSE kind

EndedIfWhole == IF torn = "left" THEN "left" ELSE "no"

Ended == "no"

Half ==
  /\ bound.halves
  /\ pc # "down" /\ pen # <<>> /\ torn = "no" /\ torn' = "now"
  /\ UNCHANGED <<bound, file, edits, pc, signal, held, fan, blocked, broker, sessions,
                 pen, lines, deaths>>

Write ==
  /\ pc # "down" /\ pen # <<>>
  /\ lines' = Append(lines, Line(Head(pen)))
  /\ torn' = Ended /\ pen' = Tail(pen)
  /\ UNCHANGED <<bound, file, edits, pc, signal, held, fan, blocked, broker, sessions, deaths>>

(* Engine._handle_signal up to Router.dispatch: RiskManager.check counts   *)
(* the enabled destinations and vetoes an entry with the others of its     *)
(* reasons; a FLATTEN passes.  What goes on is on record first.            *)
Goes(from) == pc = from /\ pen = <<>>

Vetoed(i) == i = "ENTRY" /\ (blocked \/ Enabled = {})

Emit(i) ==
  /\ Goes("idle") /\ sig < bound.signals /\ sig' = sig + 1
  /\ i = "FLATTEN" => held
  /\ intent' = i
  /\ told' = {} /\ sent' = {} /\ leg' = NoLegs /\ result' = NoLegs /\ alerts' = {}
  /\ IF Raises THEN pc' = "raised" /\ UNCHANGED pen
     ELSE IF Vetoed(i) THEN pc' = "idle" /\ pen' = <<"other">>
     ELSE pc' = "emitted" /\ pen' = <<IF i = "ENTRY" THEN "entry" ELSE "exit">>
  /\ UNCHANGED <<bound, file, edits, held, blocked, broker, sessions, lines, torn, deaths>>

-----------------------------------------------------------------------------
(* Router.dispatch.  The list of notifiers and the list of brokers are two *)
(* reads of the file, with the notifiers' answers in between.              *)
Running(S) == [e \in S |-> "new"]

Tell ==
  /\ Goes("emitted")
  /\ IF Raises THEN pc' = "raised" /\ UNCHANGED fan
     ELSE /\ pc' = "telling"
          /\ told' = Enabled \cap Notifiers /\ leg' = Running(Enabled \cap Notifiers)
          /\ UNCHANGED <<sent, result, alerts>>
  /\ UNCHANGED <<bound, file, edits, signal, held, blocked, broker, sessions, journal, deaths>>

(* Mutant: what the file says by then is not read.                         *)
ListedUnread == Accounts

Listed == Enabled \cap Accounts

Answered(S) == S \cap DOMAIN leg = {}

OrderOut ==
  /\ pc = "telling" /\ Answered(told)
  /\ IF Raises THEN pc' = "raised" /\ leg' = NoLegs /\ UNCHANGED <<told, sent, result, alerts>>
     ELSE /\ pc' = "ordering" /\ sent' = Listed
          /\ leg' = [e \in DOMAIN leg \cup Listed |-> IF e \in DOMAIN leg THEN leg[e] ELSE "new"]
          /\ UNCHANGED <<told, result, alerts>>
  /\ UNCHANGED <<bound, file, edits, signal, held, blocked, broker, sessions, journal, deaths>>

(* Router._run_one and _run_group: a leg ends by itself; a timeout or an   *)
(* exception of its executor is an UNKNOWN of that leg alone.              *)
Request(h) == [leg |-> h, sig |-> sig]

Ends(e, outcome) ==
  /\ leg' = Without(leg, e) /\ result' = With(result, e, outcome)
  /\ UNCHANGED <<bound, file, edits, pc, signal, held, told, sent, alerts, blocked, journal, deaths>>

(* Mutant: an exception takes the whole group down.                        *)
GroupAfterAll(e) == NoLegs

GroupAfter(e) == Without(leg, e)

AfterTimeout == "UNKNOWN"

Timeout(e) ==
  /\ Ends(e, AfterTimeout)
  /\ UNCHANGED <<broker, sessions>>

Excepts(e) ==
  /\ leg' = GroupAfter(e) /\ result' = With(result, e, "UNKNOWN")
  /\ UNCHANGED <<bound, file, edits, pc, signal, held, told, sent, alerts, blocked, journal, deaths>>
  /\ UNCHANGED <<broker, sessions>>

(* DryRunExecutor, DryRunNotifier: FILLED, always.                         *)
DryRun(e) ==
  /\ e \notin Hooks /\ Ends(e, "FILLED")
  /\ UNCHANGED <<broker, sessions>>

(* WebhookExecutor.execute: the session is opened when there is none, the  *)
(* order posted.                                                           *)
Post(h) ==
  /\ h \in Hooks /\ leg[h] = "new"
  /\ leg' = [leg EXCEPT ![h] = "posted"]
  /\ wire' = wire \cup {Request(h)} /\ http' = http \cup {h}
  /\ UNCHANGED <<bound, file, edits, pc, signal, held, told, sent, result, alerts, blocked,
                 placed, refused, stuck, journal, deaths>>

(* classify, and the broker's part of it: 2xx is an order it acts on, 4xx  *)
(* one it refuses; 408, 429 and 5xx are any.                               *)
Classify(status) ==
  IF status = "2xx" THEN "FILLED" ELSE IF status = "4xx" THEN "REJECTED" ELSE "UNKNOWN"

Responds(h, status) ==
  /\ h \in Hooks /\ leg[h] = "posted"
  /\ status = "2xx" => Request(h) \in placed
  /\ status = "4xx" => Request(h) \in refused
  /\ Ends(h, Classify(status))
  /\ UNCHANGED <<broker, sessions>>

Leg(e) ==
  /\ pc \in {"telling", "ordering"}
  /\ \/ Timeout(e)
     \/ Excepts(e)
     \/ DryRun(e)
     \/ Post(e)
     \/ \E status \in {"2xx", "4xx", "408", "5xx"} : Responds(e, status)

Place(r) == wire' = wire \ {r} /\ placed' = placed \cup {r} /\ UNCHANGED refused

Refuse(r) == wire' = wire \ {r} /\ refused' = refused \cup {r} /\ UNCHANGED placed

Network(r) ==
  /\ Place(r) \/ Refuse(r)
  /\ UNCHANGED <<bound, file, edits, pc, signal, held, fan, blocked, sessions, journal, deaths>>

-----------------------------------------------------------------------------
(* The rest of Router.dispatch: the results journaled (one record stands   *)
(* for them all), then the notifiers that were told of the signal alerted  *)
(* about its failed legs; an alert may raise, and dispatch with it.        *)
Failed == {e \in DOMAIN result : result[e] # "FILLED"}

Record ==
  /\ pc = "ordering" /\ Answered(Executors)
  /\ pen' = <<"other">>
  /\ pc' = "alerting"
  /\ UNCHANGED <<bound, file, edits, signal, held, fan, blocked, broker, sessions, lines, torn, deaths>>

Alert ==
  /\ Goes("alerting")
  /\ IF Failed # {} /\ PartialFan = "alert_only"
     THEN \/ alerts' = told /\ pc' = "alerted" /\ pen' = <<"other">>
          \/ alerts' \in SUBSET told /\ alerts' # told /\ pc' = "raised" /\ UNCHANGED pen
     ELSE pc' = "alerted" /\ UNCHANGED <<alerts, pen>>
  /\ UNCHANGED <<bound, file, edits, signal, held, told, sent, leg, result, blocked, broker,
                 sessions, lines, torn, deaths>>

(* Engine._handle_signal after dispatch: an UNKNOWN leg blocks entries     *)
(* until a reconciliation agrees; without a position source none does.     *)
(* The tracker follows: it opens, refuses a second entry, or closes.       *)
Doubt == \E e \in DOMAIN result : result[e] = "UNKNOWN"

Settle ==
  /\ Goes("alerted")
  /\ pc' = "idle"
  /\ \E agreed \in BOOLEAN :
       /\ agreed => HasSource
       /\ blocked' = IF Doubt THEN ~agreed ELSE blocked
  /\ held' = (intent = "ENTRY")
  /\ pen' = <<IF intent = "FLATTEN" /\ held THEN "close" ELSE "other">>
  /\ UNCHANGED <<bound, file, edits, signal, fan, broker, sessions, lines, torn, deaths>>

(* Engine.reconcile, at an interval of bars.                               *)
Reconcile ==
  /\ Goes("idle") /\ HasSource
  /\ blocked' \in BOOLEAN
  /\ UNCHANGED <<bound, file, edits, pc, signal, held, fan, broker, sessions, journal, deaths>>

-----------------------------------------------------------------------------
(* Router.close, on every executor; one that raises is logged and skipped. *)
(* The feed may end while the engine is between signals; the same teardown *)
(* runs when an exception leaves the bar loop.                             *)
Closed == Executors

Close ==
  /\ Goes("idle") \/ pc = "raised"
  /\ stuck' \in SUBSET http
  /\ http' = (http \ Closed) \cup stuck'
  /\ pc' = "down" /\ leg' = NoLegs /\ pen' = <<>>
  /\ UNCHANGED <<bound, file, edits, signal, held, told, sent, result, alerts, blocked, broker,
                 lines, torn, deaths>>

(* The process is killed: what it held in memory is gone, the requests it  *)
(* sent are not.                                                           *)
Crash ==
  /\ pc # "down" /\ deaths < bound.deaths /\ deaths' = deaths + 1
  /\ pc' = "down" /\ leg' = NoLegs /\ pen' = <<>> /\ http' = {} /\ stuck' = {}
  /\ torn' = IF torn = "now" THEN "left" ELSE torn
  /\ UNCHANGED <<bound, file, edits, signal, held, told, sent, result, alerts, blocked, broker, lines>>

RouterNext ==
  \/ Edit
  \/ Start
  \/ Half
  \/ Write
  \/ \E i \in {"ENTRY", "FLATTEN"} : Emit(i)
  \/ Tell
  \/ OrderOut
  \/ \E e \in DOMAIN leg : Leg(e)
  \/ \E r \in wire : Network(r)
  \/ Record
  \/ Alert
  \/ Settle
  \/ Reconcile
  \/ Close
  \/ Crash

(* What the event loop does by itself: it writes, its timeouts fire, and   *)
(* dispatch goes on.                                                       *)
RouterFairness ==
  /\ WF_routerVars(Write) /\ WF_routerVars(Tell) /\ WF_routerVars(OrderOut)
  /\ WF_routerVars(Record) /\ WF_routerVars(Alert) /\ WF_routerVars(Settle)
  /\ \A e \in Executors : WF_routerVars(e \in DOMAIN leg /\ Timeout(e))

-----------------------------------------------------------------------------
(* Types.                                                                  *)
Orders == [leg : Hooks, sig : 1 .. bound.signals]

RouterTypeOK ==
  /\ file \in {Absent, Malformed} \cup SUBSET Accounts /\ edits \in 0 .. bound.edits
  /\ pc \in {"down", "idle", "emitted", "telling", "ordering", "alerting", "alerted", "raised"}
  /\ sig \in 0 .. bound.signals /\ intent \in {"ENTRY", "FLATTEN"} /\ held \in BOOLEAN
  /\ told \subseteq Notifiers /\ sent \subseteq Accounts /\ alerts \subseteq Notifiers
  /\ DOMAIN leg \subseteq Executors /\ Values(leg) \subseteq {"new", "posted"}
  /\ DOMAIN result \subseteq Executors /\ Values(result) \subseteq Outcomes
  /\ blocked \in BOOLEAN
  /\ wire \subseteq Orders /\ placed \subseteq Orders /\ refused \subseteq Orders
  /\ http \subseteq Hooks /\ stuck \subseteq Hooks
  /\ torn \in {"no", "now", "left"} /\ deaths \in 0 .. bound.deaths

(* One executor that hangs, raises or answers late never takes another     *)
(* with it: dispatch goes on with an answer of every destination it chose, *)
(* the slow ones as UNKNOWN (Router._run_group, which avoids TaskGroup).   *)
EveryLegAnswers ==
  pc \in {"alerting", "alerted"} => DOMAIN result = told \cup sent

(* The human is first: no order of a signal is on its way before every     *)
(* notifier told of it has answered or timed out (Router's docstring).     *)
HumanFirst ==
  pc \in {"telling", "ordering"} /\ (\E r \in wire \cup placed \cup refused : r.sig = sig)
    => told \cap DOMAIN leg = {}

(* A rejection is final: an order reported REJECTED is neither at the      *)
(* broker nor on its way there, whatever arrives late (classify, and the   *)
(* UNKNOWN of Router._run_one).                                            *)
RejectedNeverFills ==
  \A e \in DOMAIN result : result[e] = "REJECTED" => Request(e) \notin wire \cup placed

(* Whoever was told of a signal hears of the legs that failed, UNKNOWN     *)
(* ones included, before the next signal, or the process is on its way out.*)
ToldOfFailure ==
  pc = "idle" /\ PartialFan = "alert_only" /\ (\E e \in DOMAIN result : result[e] # "FILLED")
    => told \subseteq alerts

(* Teardown releases every executor's session, those of accounts that were *)
(* switched off meanwhile too; only one whose own close raised stays open. *)
SessionsReleased == pc = "down" => http \subseteq stuck

(* The journal is ahead of the broker: an order has left only for a signal *)
(* whose signal_emitted record is in the file, whole or cut by a death.    *)
OnRecordFirst ==
  Cardinality({r.sig : r \in wire \cup placed \cup refused})
    <= Cardinality({k \in DOMAIN lines : lines[k] \in {"entry", "exit", "garbled"}})

(* A death costs the journal at most the record it cut and the one after.  *)
OneDeathOneRecord ==
  Cardinality({k \in DOMAIN lines : lines[k] = "garbled"}) <= deaths

(* An account gets no order when the accounts file, read after the         *)
(* notifiers have answered, does not have it switched on.                  *)
SwitchedOffGetsNothing ==
  [][(DOMAIN leg' \ DOMAIN leg) \cap Accounts \subseteq Enabled]_routerVars

(* dispatch comes back: whatever the executors do, a signal that was       *)
(* emitted is settled, or the process ends.                                *)
DispatchReturns == pc = "emitted" ~> pc \in {"idle", "raised", "down"}

(* Of what dispatch sends, nothing is forgotten: every leg is answered and *)
(* tells what its broker did, a failure is told, a session is released.    *)
LegsAccounted ==
  RouterTypeOK /\ EveryLegAnswers /\ RejectedNeverFills /\ ToldOfFailure /\ SessionsReleased

(* The journal leads: an order is preceded by its record, and a death      *)
(* garbles one line of it at most.                                         *)
JournalLeads == OnRecordFirst /\ OneDeathOneRecord

(* Orders go out in turn: to the human, then to the brokers that are on    *)
(* when the human has been told, and dispatch comes to an end.             *)
OrdersInTurn == []HumanFirst /\ SwitchedOffGetsNothing /\ DispatchReturns
=============================================================================
