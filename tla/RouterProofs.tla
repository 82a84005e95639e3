---------------------------- MODULE RouterProofs ----------------------------
(***************************************************************************)
(* The router, for any notifiers, accounts and brokers and any number of   *)
(* signals, edits of the accounts file and deaths: every destination of a  *)
(* signal is answered for, a rejection is final, failures are told, and    *)
(* the journal is ahead of the brokers.                                    *)
(***************************************************************************)
EXTENDS TradePing, SequenceTheorems, FiniteSetTheorems, TLAPS

(* What a journal line, and a record that is to be appended, can be.       *)
Kinds == {"entry", "exit", "close", "other", "garbled"}

Records == {"entry", "exit", "close", "other"}

ControlType ==
  /\ bound \in Scenarios
  /\ file \in {Absent, Malformed} \cup SUBSET Accounts /\ edits \in 0 .. bound.edits
  /\ pc \in {"down", "idle", "emitted", "telling", "ordering", "alerting", "alerted", "raised"}
  /\ sig \in 0 .. bound.signals /\ intent \in {"ENTRY", "FLATTEN"} /\ held \in BOOLEAN
  /\ blocked \in BOOLEAN /\ deaths \in 0 .. bound.deaths
  /\ pc \in {"emitted", "telling", "ordering"} => sig # 0

FanType ==
  /\ told \subseteq Notifiers /\ sent \subseteq Accounts /\ alerts \subseteq Notifiers
  /\ DOMAIN leg \subseteq Executors /\ Values(leg) \subseteq {"new", "posted"}
  /\ DOMAIN result \subseteq Executors /\ Values(result) \subseteq Outcomes

BrokerType ==
  /\ wire \subseteq Orders /\ placed \subseteq Orders /\ refused \subseteq Orders
  /\ http \subseteq Hooks /\ stuck \subseteq Hooks

JournalType ==
  /\ torn \in {"no", "now", "left"} /\ lines \in Seq(Kinds)
  /\ pen = <<>> \/ \E k \in Records : pen = <<k>>

TypeInv == ControlType /\ FanType /\ BrokerType /\ JournalType

LEMMA TypeImplies == TypeInv => RouterTypeOK
BY DEF TypeInv, ControlType, FanType, BrokerType, JournalType, RouterTypeOK

LEMMA BoundFacts ==
  ASSUME TypeInv
  PROVE  /\ bound.signals \in Nat /\ bound.edits \in Nat /\ bound.deaths \in Nat
         /\ sig \in Nat /\ edits \in Nat /\ deaths \in Nat
<1>1. bound.signals \in Nat /\ bound.edits \in Nat /\ bound.deaths \in Nat
  BY RouterAssumption DEF TypeInv, ControlType
<1> QED BY <1>1 DEF TypeInv, ControlType

LEMMA SetFacts ==
  /\ Hooks \subseteq Accounts /\ Dry \subseteq Accounts /\ Accounts \subseteq Executors
  /\ Notifiers \subseteq Executors /\ Notifiers \cap Accounts = {}
  /\ Enabled \cap Notifiers = Notifiers
BY RouterAssumption DEF Accounts, Executors, Enabled

(* Functions from executors, as they gain, lose and change a value.        *)
LEMMA WithFacts ==
  ASSUME NEW f, NEW e, NEW v
  PROVE  /\ DOMAIN With(f, e, v) = DOMAIN f \cup {e}
         /\ With(f, e, v)[e] = v
         /\ \A x \in DOMAIN f : x # e => With(f, e, v)[x] = f[x]
         /\ Values(With(f, e, v)) \subseteq Values(f) \cup {v}
BY DEF With, Values

LEMMA WithoutFacts ==
  ASSUME NEW f, NEW e
  PROVE  /\ DOMAIN Without(f, e) = DOMAIN f \ {e}
         /\ \A x \in DOMAIN f \ {e} : Without(f, e)[x] = f[x]
         /\ Values(Without(f, e)) \subseteq Values(f)
BY DEF Without, Values

LEMMA NoLegsFacts ==
  DOMAIN NoLegs = {} /\ Values(NoLegs) = {}
BY DEF NoLegs, Values

LEMMA PenFacts ==
  ASSUME TypeInv, pen # <<>>
  PROVE  /\ \E k \in Records : pen = <<k>> /\ Head(pen) = k /\ Line(Head(pen)) \in {k, "garbled"}
         /\ Tail(pen) = <<>>
         /\ Line(Head(pen)) \in Kinds
<1>1. PICK k \in Records : pen = <<k>>
  BY DEF TypeInv, JournalType
<1>2. Head(pen) = k /\ Tail(pen) = <<>>
  BY <1>1
<1> QED BY <1>1, <1>2 DEF Line, Kinds, Records

LEMMA TypeInit == Init => TypeInv
<1> SUFFICES ASSUME RouterInit PROVE TypeInv
  BY DEF Init
<1>1. bound \in Scenarios /\ bound.deaths \in Nat /\ bound.edits \in Nat /\ bound.signals \in Nat
  BY RouterAssumption DEF RouterInit
<1>2. lines \in Seq(Kinds) /\ pen = <<>>
  BY DEF RouterInit
<1>3. DOMAIN leg = {} /\ Values(leg) = {} /\ DOMAIN result = {} /\ Values(result) = {}
  BY NoLegsFacts DEF RouterInit
<1>4. ControlType
  <2>1. file \in {Absent, Malformed} \cup SUBSET Accounts
    BY DEF RouterInit
  <2>2. edits \in 0 .. bound.edits /\ sig \in 0 .. bound.signals /\ deaths \in 0 .. bound.deaths
    BY <1>1 DEF RouterInit
  <2> QED BY <1>1, <2>1, <2>2 DEF RouterInit, ControlType
<1>5. FanType
  BY <1>3 DEF RouterInit, FanType
<1>6. BrokerType /\ JournalType
  BY <1>2 DEF RouterInit, BrokerType, JournalType
<1> QED BY <1>4, <1>5, <1>6 DEF TypeInv

-----------------------------------------------------------------------------
(* One step of the composition is one of the router's, or leaves it alone. *)
LEMMA Steps ==
  ASSUME [Next]_vars
  PROVE  \/ UNCHANGED routerVars
         \/ Edit \/ Start \/ Half \/ Write
         \/ \E i \in {"ENTRY", "FLATTEN"} : Emit(i)
         \/ Tell \/ OrderOut
         \/ \E e \in DOMAIN leg : Leg(e)
         \/ \E r \in wire : Network(r)
         \/ Record \/ Alert \/ Settle \/ Reconcile \/ Close \/ Crash
<1>1. CASE UNCHANGED vars
  BY <1>1 DEF vars
<1>2. CASE RouterNext
  BY <1>2 DEF RouterNext
<1>3. CASE PingerNext /\ UNCHANGED routerVars
  BY <1>3
<1> QED BY <1>1, <1>2, <1>3 DEF Next

(* What the legs leave alone, and how they change what they do change.     *)
LEMMA LegSteps ==
  ASSUME NEW e \in DOMAIN leg, Leg(e)
  PROVE  /\ pc \in {"telling", "ordering"}
         /\ UNCHANGED <<bound, file, edits, pc, sig, intent, held, told, sent, alerts, blocked,
                        placed, refused, stuck, pen, lines, torn, deaths>>
         /\ \/ /\ DOMAIN leg' = DOMAIN leg \ {e} /\ DOMAIN result' = DOMAIN result \cup {e}
               /\ Values(leg') \subseteq Values(leg) /\ Values(result') \subseteq Values(result) \cup Outcomes
               /\ \A x \in DOMAIN leg' : leg'[x] = leg[x]
               /\ \A x \in DOMAIN result : x # e => result'[x] = result[x]
               /\ result'[e] = "REJECTED" => e \in Hooks /\ Request(e) \in refused
               /\ UNCHANGED <<wire, http>>
            \/ /\ Post(e) /\ leg[e] = "new" /\ leg' = [leg EXCEPT ![e] = "posted"] /\ result' = result
               /\ e \in Hooks /\ wire' = wire \cup {Request(e)} /\ http' = http \cup {e}
<1>0. pc \in {"telling", "ordering"}
  BY DEF Leg
<1>1. ASSUME NEW o \in Outcomes,
             leg' = Without(leg, e), result' = With(result, e, o)
      PROVE  /\ DOMAIN leg' = DOMAIN leg \ {e} /\ DOMAIN result' = DOMAIN result \cup {e}
             /\ Values(leg') \subseteq Values(leg) /\ Values(result') \subseteq Values(result) \cup Outcomes
             /\ \A x \in DOMAIN leg' : leg'[x] = leg[x]
             /\ \A x \in DOMAIN result : x # e => result'[x] = result[x]
             /\ result'[e] = o
  <2>1. /\ DOMAIN leg' = DOMAIN leg \ {e} /\ Values(leg') \subseteq Values(leg)
        /\ \A x \in DOMAIN leg' : leg'[x] = leg[x]
    BY <1>1, WithoutFacts
  <2>2. /\ DOMAIN result' = DOMAIN result \cup {e} /\ result'[e] = o
        /\ Values(result') \subseteq Values(result) \cup {o}
        /\ \A x \in DOMAIN result : x # e => result'[x] = result[x]
    <3>1. result' = [x \in DOMAIN result \cup {e} |-> IF x = e THEN o ELSE result[x]]
      BY <1>1 DEF With
    <3> QED BY <3>1 DEF Values
  <2> QED BY <2>1, <2>2
<1>2. CASE Timeout(e)
  <2>1. "UNKNOWN" \in Outcomes
    BY DEF Outcomes
  <2> QED BY <1>0, <1>1, <1>2, <2>1 DEF Timeout, Ends, AfterTimeout, broker, sessions, journal, signal
<1>3. CASE Excepts(e)
  <2>1. "UNKNOWN" \in Outcomes
    BY DEF Outcomes
  <2> QED BY <1>0, <1>1, <1>3, <2>1 DEF Excepts, GroupAfter, broker, sessions, journal, signal
<1>4. CASE DryRun(e)
  <2>1. "FILLED" \in Outcomes
    BY DEF Outcomes
  <2> QED BY <1>0, <1>1, <1>4, <2>1 DEF DryRun, Ends, broker, sessions, journal, signal
<1>5. CASE Post(e)
  BY <1>0, <1>5 DEF Post, journal, signal
<1>6. ASSUME NEW status \in {"2xx", "4xx", "408", "5xx"}, Responds(e, status)
      PROVE  /\ DOMAIN leg' = DOMAIN leg \ {e} /\ DOMAIN result' = DOMAIN result \cup {e}
             /\ Values(leg') \subseteq Values(leg) /\ Values(result') \subseteq Values(result) \cup Outcomes
             /\ \A x \in DOMAIN leg' : leg'[x] = leg[x]
             /\ \A x \in DOMAIN result : x # e => result'[x] = result[x]
             /\ result'[e] = "REJECTED" => e \in Hooks /\ Request(e) \in refused
             /\ UNCHANGED <<bound, file, edits, pc, sig, intent, held, told, sent, alerts, blocked,
                            wire, placed, refused, http, stuck, pen, lines, torn, deaths>>
  <2>1. Classify(status) \in Outcomes /\ (Classify(status) = "REJECTED" => status = "4xx")
    BY DEF Outcomes, Classify
  <2>2. leg' = Without(leg, e) /\ result' = With(result, e, Classify(status))
    BY <1>6 DEF Responds, Ends
  <2>3. /\ e \in Hooks /\ (status = "4xx" => Request(e) \in refused)
        /\ UNCHANGED <<bound, file, edits, pc, sig, intent, held, told, sent, alerts, blocked,
                       wire, placed, refused, http, stuck, pen, lines, torn, deaths>>
    BY <1>6 DEF Responds, Ends, broker, sessions, journal, signal
  <2>4. result'[e] = Classify(status)
    BY <1>1, <2>1, <2>2
  <2>5. /\ DOMAIN leg' = DOMAIN leg \ {e} /\ DOMAIN result' = DOMAIN result \cup {e}
        /\ Values(leg') \subseteq Values(leg) /\ Values(result') \subseteq Values(result) \cup Outcomes
        /\ \A x \in DOMAIN leg' : leg'[x] = leg[x]
        /\ \A x \in DOMAIN result : x # e => result'[x] = result[x]
    BY <1>1, <2>1, <2>2
  <2> QED BY <2>1, <2>3, <2>4, <2>5
<1> QED BY <1>0, <1>2, <1>3, <1>4, <1>5, <1>6 DEF Leg

LEMMA ControlNext == ASSUME TypeInv, [Next]_vars PROVE ControlType'
<1>0. /\ bound.signals \in Nat /\ bound.edits \in Nat /\ bound.deaths \in Nat
      /\ sig \in Nat /\ edits \in Nat /\ deaths \in Nat
  BY BoundFacts
<1>1. ControlType
  BY DEF TypeInv
<1>2. CASE Edit
  <2>1. file' \in {Absent, Malformed} \cup SUBSET Accounts
    BY <1>2 DEF Edit
  <2>2. edits' \in 0 .. bound.edits
    BY <1>0, <1>2 DEF Edit
  <2> QED BY <1>1, <1>2, <2>1, <2>2 DEF Edit, ControlType, signal
<1>3. CASE Start \/ Half \/ Write \/ Tell \/ OrderOut \/ Record \/ Alert \/ Settle \/ Reconcile \/ Close
  <2>1. UNCHANGED <<bound, file, edits, sig, intent, deaths>>
    BY <1>3 DEF Start, Half, Write, Tell, OrderOut, Record, Alert, Settle, Reconcile, Close, signal
  <2>2. pc' \in {"down", "idle", "emitted", "telling", "ordering", "alerting", "alerted", "raised"}
    BY <1>1, <1>3 DEF Start, Half, Write, Tell, OrderOut, Record, Alert, Settle, Reconcile, Close,
                      ControlType
  <2>3. held' \in BOOLEAN /\ blocked' \in BOOLEAN
    <3>1. CASE Settle
      <4>1. held' = (intent = "ENTRY")
        BY <3>1 DEF Settle
      <4>2. PICK agreed \in BOOLEAN : blocked' = IF Doubt THEN ~agreed ELSE blocked
        BY <3>1 DEF Settle
      <4>3. held' \in BOOLEAN
        BY <4>1
      <4>4. blocked' \in BOOLEAN
        BY <1>1, <4>2 DEF ControlType
      <4> QED BY <4>3, <4>4
    <3>2. CASE Reconcile
      BY <1>1, <3>2 DEF Reconcile, ControlType
    <3>3. CASE Start
      BY <1>1, <3>3 DEF Start, ControlType
    <3>4. CASE Half \/ Write \/ Tell \/ OrderOut \/ Record \/ Alert \/ Close
      BY <1>1, <3>4 DEF Half, Write, Tell, OrderOut, Record, Alert, Close, ControlType
    <3> QED BY <1>3, <3>1, <3>2, <3>3, <3>4
  <2>4. pc' \in {"emitted", "telling", "ordering"} => pc \in {"emitted", "telling", "ordering"}
    BY <1>3 DEF Start, Half, Write, Tell, OrderOut, Record, Alert, Settle, Reconcile, Close, Goes
  <2> QED BY <1>1, <2>1, <2>2, <2>3, <2>4 DEF ControlType
<1>4. ASSUME NEW i \in {"ENTRY", "FLATTEN"}, Emit(i) PROVE ControlType'
  <2>1. sig' \in 0 .. bound.signals /\ intent' = i /\ sig' # 0
    BY <1>0, <1>4 DEF Emit
  <2>2. pc' \in {"raised", "idle", "emitted"}
    BY <1>4 DEF Emit
  <2>3. UNCHANGED <<bound, file, edits, held, blocked, deaths>>
    BY <1>4 DEF Emit
  <2> QED BY <1>1, <2>1, <2>2, <2>3 DEF ControlType
<1>5. ASSUME NEW e \in DOMAIN leg, Leg(e) PROVE ControlType'
  BY <1>1, <1>5, LegSteps DEF ControlType
<1>6. ASSUME NEW r \in wire, Network(r) PROVE ControlType'
  BY <1>1, <1>6 DEF Network, ControlType, signal
<1>7. CASE Crash
  <2>1. deaths' \in 0 .. bound.deaths /\ pc' = "down"
    BY <1>0, <1>7 DEF Crash
  <2>2. UNCHANGED <<bound, file, edits, sig, intent, held, blocked>>
    BY <1>7 DEF Crash, signal
  <2> QED BY <1>1, <2>1, <2>2 DEF ControlType
<1>8. CASE UNCHANGED routerVars
  BY <1>1, <1>8 DEF routerVars, ControlType, signal
<1> QED BY Steps, <1>2, <1>3, <1>4, <1>5, <1>6, <1>7, <1>8

LEMMA FanNext == ASSUME TypeInv, [Next]_vars PROVE FanType'
<1>1. FanType
  BY DEF TypeInv
<1>2. DOMAIN NoLegs = {} /\ Values(NoLegs) = {}
  BY NoLegsFacts
<1>3. CASE Start \/ \E i \in {"ENTRY", "FLATTEN"} : Emit(i)
  <2>1. told' = {} /\ sent' = {} /\ leg' = NoLegs /\ result' = NoLegs /\ alerts' = {}
    BY <1>3 DEF Start, Emit
  <2> QED BY <1>2, <2>1 DEF FanType
<1>4. CASE Tell
  <2>1. CASE Raises
    BY <1>1, <1>4, <2>1 DEF Tell, FanType, fan
  <2>2. CASE ~Raises
    <3>1. /\ told' = Enabled \cap Notifiers /\ leg' = [e \in Enabled \cap Notifiers |-> "new"]
          /\ UNCHANGED <<sent, result, alerts>>
      BY <1>4, <2>2 DEF Tell, Running
    <3>2. DOMAIN leg' \subseteq Executors /\ Values(leg') \subseteq {"new"}
      BY <3>1, SetFacts DEF Values
    <3> QED BY <1>1, <3>1, <3>2 DEF FanType
  <2> QED BY <2>1, <2>2
<1>5. CASE OrderOut
  <2>1. CASE Raises
    BY <1>1, <1>2, <1>5, <2>1 DEF OrderOut, FanType
  <2>2. CASE ~Raises
    <3>1. /\ sent' = Listed /\ UNCHANGED <<told, result, alerts>>
          /\ leg' = [e \in DOMAIN leg \cup Listed |-> IF e \in DOMAIN leg THEN leg[e] ELSE "new"]
      BY <1>5, <2>2 DEF OrderOut
    <3>2. Listed \subseteq Accounts
      BY DEF Listed
    <3>3. DOMAIN leg' \subseteq Executors /\ Values(leg') \subseteq {"new"} \cup Values(leg)
      BY <1>1, <3>1, <3>2, SetFacts DEF FanType, Values
    <3> QED BY <1>1, <3>1, <3>2, <3>3 DEF FanType
  <2> QED BY <2>1, <2>2
<1>6. ASSUME NEW e \in DOMAIN leg, Leg(e) PROVE FanType'
  <2>1. UNCHANGED <<told, sent, alerts>>
    BY <1>6, LegSteps
  <2>2. CASE /\ DOMAIN leg' = DOMAIN leg \ {e} /\ DOMAIN result' = DOMAIN result \cup {e}
             /\ Values(leg') \subseteq Values(leg) /\ Values(result') \subseteq Values(result) \cup Outcomes
    BY <1>1, <2>1, <2>2 DEF FanType
  <2>3. CASE leg' = [leg EXCEPT ![e] = "posted"] /\ result' = result
    <3>1. DOMAIN leg' = DOMAIN leg /\ Values(leg') \subseteq Values(leg) \cup {"posted"}
      BY <2>3 DEF Values
    <3> QED BY <1>1, <2>1, <2>3, <3>1 DEF FanType
  <2> QED BY <1>6, <2>2, <2>3, LegSteps
<1>7. CASE Alert
  BY <1>1, <1>7 DEF Alert, FanType
<1>8. CASE Close \/ Crash
  <2>1. leg' = NoLegs /\ UNCHANGED <<told, sent, result, alerts>>
    BY <1>8 DEF Close, Crash
  <2> QED BY <1>1, <1>2, <2>1 DEF FanType
<1>9. CASE UNCHANGED fan
  BY <1>1, <1>9 DEF fan, FanType
<1>10. UNCHANGED routerVars \/ Edit \/ Half \/ Write \/ Record \/ Settle \/ Reconcile => UNCHANGED fan
  BY DEF routerVars, Edit, Half, Write, Record, Settle, Reconcile
<1>11. \A r \in wire : Network(r) => UNCHANGED fan
  BY DEF Network
<1> QED BY Steps, <1>3, <1>4, <1>5, <1>6, <1>7, <1>8, <1>9, <1>10, <1>11

(* An order posted is one of the current signal.                           *)
LEMMA RequestFacts ==
  ASSUME TypeInv, NEW e \in Executors
  PROVE  /\ Request(e).leg = e /\ Request(e).sig = sig
         /\ e \in Hooks /\ sig # 0 => Request(e) \in Orders
<1>1. sig \in 0 .. bound.signals /\ bound.signals \in Nat
  BY BoundFacts DEF TypeInv, ControlType
<1> QED BY <1>1 DEF Request, Orders

LEMMA BrokerNext == ASSUME TypeInv, [Next]_vars PROVE BrokerType'
<1>1. BrokerType
  BY DEF TypeInv
<1>2. bound' = bound => Orders' = Orders
  BY DEF Orders
<1>3. UNCHANGED bound
  <2>1. \A e \in DOMAIN leg : Leg(e) => UNCHANGED bound
    BY LegSteps
  <2> QED BY Steps, <2>1 DEF routerVars, Edit, Start, Half, Write, Emit, Tell, OrderOut, Network,
                             Record, Alert, Settle, Reconcile, Close, Crash
<1>4. CASE UNCHANGED <<broker, sessions>>
  BY <1>1, <1>2, <1>3, <1>4 DEF broker, sessions, BrokerType
<1>5. CASE Start
  <2>1. http' = Hooks \cap Enabled /\ stuck' = {} /\ UNCHANGED broker
    BY <1>5 DEF Start
  <2> QED BY <1>1, <1>2, <1>3, <2>1 DEF BrokerType, broker
<1>6. ASSUME NEW e \in DOMAIN leg, Leg(e) PROVE BrokerType'
  <2>1. e \in Executors /\ sig # 0
    BY <1>6, LegSteps DEF TypeInv, ControlType, FanType
  <2>2. CASE UNCHANGED <<wire, http>>
    BY <1>1, <1>2, <1>3, <1>6, <2>2, LegSteps DEF BrokerType
  <2>3. CASE e \in Hooks /\ wire' = wire \cup {Request(e)} /\ http' = http \cup {e}
    <3>1. Request(e) \in Orders
      BY <2>1, <2>3, RequestFacts
    <3> QED BY <1>1, <1>2, <1>3, <1>6, <2>3, <3>1, LegSteps DEF BrokerType
  <2> QED BY <1>6, <2>2, <2>3, LegSteps
<1>7. ASSUME NEW r \in wire, Network(r) PROVE BrokerType'
  <2>1. UNCHANGED sessions
    BY <1>7 DEF Network
  <2>2. /\ wire' = wire \ {r}
        /\ placed' \subseteq placed \cup {r} /\ refused' \subseteq refused \cup {r}
    BY <1>7 DEF Network, Place, Refuse
  <2> QED BY <1>1, <1>2, <1>3, <2>1, <2>2 DEF BrokerType, sessions
<1>8. CASE Close
  <2>1. stuck' \subseteq http /\ http' \subseteq http \cup stuck' /\ UNCHANGED broker
    BY <1>8 DEF Close
  <2> QED BY <1>1, <1>2, <1>3, <2>1 DEF BrokerType, broker
<1>9. CASE Crash
  <2>1. stuck' = {} /\ http' = {} /\ UNCHANGED broker
    BY <1>9 DEF Crash
  <2> QED BY <1>1, <1>2, <1>3, <2>1 DEF BrokerType, broker
<1>10. \/ UNCHANGED routerVars \/ Edit \/ Half \/ Write
       \/ (\E i \in {"ENTRY", "FLATTEN"} : Emit(i))
       \/ Tell \/ OrderOut \/ Record \/ Alert \/ Settle \/ Reconcile
       => UNCHANGED <<broker, sessions>>
  BY DEF routerVars, Edit, Half, Write, Emit, Tell, OrderOut, Record, Alert, Settle, Reconcile
<1> QED BY Steps, <1>4, <1>5, <1>6, <1>7, <1>8, <1>9, <1>10

LEMMA JournalNext == ASSUME TypeInv, [Next]_vars PROVE JournalType'
<1>1. JournalType
  BY DEF TypeInv
<1>2. {<<>>, <<"entry">>, <<"exit">>, <<"close">>, <<"other">>}
      \subseteq {<<>>} \cup {<<k>> : k \in Records}
  BY DEF Records
<1>3. CASE Write
  <2>1. pen # <<>> /\ lines' = Append(lines, Line(Head(pen))) /\ torn' = "no" /\ pen' = Tail(pen)
    BY <1>3 DEF Write, Ended
  <2>2. Line(Head(pen)) \in Kinds /\ Tail(pen) = <<>>
    BY <2>1, PenFacts
  <2>3. lines' \in Seq(Kinds)
    BY <1>1, <2>1, <2>2, AppendProperties DEF JournalType
  <2> QED BY <2>1, <2>2, <2>3 DEF JournalType
<1>4. CASE Half \/ Crash
  <2>1. torn' \in {"no", "now", "left"} /\ lines' = lines /\ (pen' = pen \/ pen' = <<>>)
    BY <1>1, <1>4 DEF Half, Crash, JournalType
  <2> QED BY <1>1, <2>1 DEF JournalType
<1>5. CASE UNCHANGED <<lines, torn>> /\ pen' \in {pen, <<>>, <<"entry">>, <<"exit">>, <<"close">>, <<"other">>}
  BY <1>1, <1>2, <1>5 DEF JournalType
<1>6. \/ UNCHANGED routerVars \/ Edit \/ Start
      \/ Tell \/ OrderOut \/ Record \/ Alert \/ Reconcile \/ Close
      => UNCHANGED <<lines, torn>> /\ pen' \in {pen, <<>>, <<"other">>}
  BY DEF routerVars, journal, Edit, Start, Tell, OrderOut, Record, Alert, Reconcile, Close
<1>7. Settle => UNCHANGED <<lines, torn>> /\ pen' \in {<<"close">>, <<"other">>}
  BY DEF Settle
<1>8. ASSUME NEW i \in {"ENTRY", "FLATTEN"}, Emit(i)
      PROVE  UNCHANGED <<lines, torn>> /\ pen' \in {pen, <<"other">>, <<"entry">>, <<"exit">>}
  <2>1. pen' = pen \/ pen' = <<"other">> \/ pen' = <<IF i = "ENTRY" THEN "entry" ELSE "exit">>
    BY <1>8 DEF Emit
  <2> QED BY <1>8, <2>1 DEF Emit
<1>9. ASSUME NEW e \in DOMAIN leg, Leg(e) PROVE UNCHANGED <<lines, torn, pen>>
  BY <1>9, LegSteps
<1>10. ASSUME NEW r \in wire, Network(r) PROVE UNCHANGED <<lines, torn, pen>>
  BY <1>10 DEF Network, journal
<1> QED BY Steps, <1>3, <1>4, <1>5, <1>6, <1>7, <1>8, <1>9, <1>10

LEMMA TypeNext == TypeInv /\ [Next]_vars => TypeInv'
BY ControlNext, FanNext, BrokerNext, JournalNext DEF TypeInv

-----------------------------------------------------------------------------
(* Every destination chosen is either still running or has answered: the   *)
(* notifiers first, and the brokers once they have.                        *)
LegInv ==
  /\ pc \in {"telling", "ordering"} \/ DOMAIN leg = {}
  /\ DOMAIN leg \cap DOMAIN result = {}
  /\ pc = "emitted" => told = {} /\ sent = {} /\ DOMAIN result = {}
  /\ pc = "telling" => sent = {}
  /\ pc \in {"telling", "ordering"} => DOMAIN leg \cup DOMAIN result = told \cup sent
  /\ pc = "ordering" => told \cap DOMAIN leg = {}
  /\ EveryLegAnswers

LEMMA LegInit == Init => LegInv
<1> SUFFICES ASSUME RouterInit PROVE LegInv
  BY DEF Init
<1>1. DOMAIN leg = {} /\ pc = "down"
  BY NoLegsFacts DEF RouterInit
<1> QED BY <1>1 DEF LegInv, EveryLegAnswers

LEMMA LegNext == ASSUME TypeInv, LegInv, [Next]_vars PROVE LegInv'
<1>1. DOMAIN NoLegs = {}
  BY NoLegsFacts
<1>2. told \subseteq Notifiers /\ sent \subseteq Accounts /\ Notifiers \cap Accounts = {}
  BY SetFacts DEF TypeInv, FanType
<1>3. ASSUME NEW i \in {"ENTRY", "FLATTEN"}, Emit(i) PROVE LegInv'
  <2>1. /\ told' = {} /\ sent' = {} /\ leg' = NoLegs /\ result' = NoLegs
        /\ pc' \in {"raised", "idle", "emitted"}
    BY <1>3 DEF Emit
  <2> QED BY <1>1, <2>1 DEF LegInv, EveryLegAnswers
<1>4. CASE Tell
  <2>1. pc = "emitted" /\ DOMAIN leg = {} /\ sent = {} /\ DOMAIN result = {}
    BY <1>4 DEF Tell, Goes, LegInv
  <2>2. CASE Raises
    BY <1>4, <2>1, <2>2 DEF Tell, fan, LegInv, EveryLegAnswers
  <2>3. CASE ~Raises
    <3>1. /\ told' = Enabled \cap Notifiers /\ DOMAIN leg' = told' /\ pc' = "telling"
          /\ UNCHANGED <<sent, result>>
      BY <1>4, <2>3 DEF Tell, Running
    <3> QED BY <2>1, <3>1 DEF LegInv, EveryLegAnswers
  <2> QED BY <2>2, <2>3
<1>5. CASE OrderOut
  <2>1. pc = "telling" /\ told \cap DOMAIN leg = {} /\ sent = {}
    BY <1>5 DEF OrderOut, Answered, LegInv
  <2>2. DOMAIN leg = {} /\ DOMAIN result = told
    BY <2>1 DEF LegInv
  <2>3. CASE Raises
    BY <1>1, <1>5, <2>2, <2>3 DEF OrderOut, LegInv, EveryLegAnswers
  <2>4. CASE ~Raises
    <3>1. /\ pc' = "ordering" /\ sent' = Listed /\ DOMAIN leg' = DOMAIN leg \cup Listed
          /\ UNCHANGED <<told, result>>
      BY <1>5, <2>4 DEF OrderOut
    <3>2. Listed \subseteq Accounts
      BY DEF Listed
    <3> QED BY <1>2, <2>2, <3>1, <3>2 DEF LegInv, EveryLegAnswers
  <2> QED BY <2>3, <2>4
<1>6. ASSUME NEW e \in DOMAIN leg, Leg(e) PROVE LegInv'
  <2>1. pc \in {"telling", "ordering"} /\ UNCHANGED <<pc, told, sent>>
    BY <1>6, LegSteps
  <2>2. CASE DOMAIN leg' = DOMAIN leg \ {e} /\ DOMAIN result' = DOMAIN result \cup {e}
    BY <2>1, <2>2 DEF LegInv, EveryLegAnswers
  <2>3. CASE leg' = [leg EXCEPT ![e] = "posted"] /\ result' = result
    <3>1. DOMAIN leg' = DOMAIN leg
      BY <2>3
    <3> QED BY <2>1, <2>3, <3>1 DEF LegInv, EveryLegAnswers
  <2> QED BY <1>6, <2>2, <2>3, LegSteps
<1>7. CASE Record
  <2>1. pc = "ordering" /\ Executors \cap DOMAIN leg = {} /\ pc' = "alerting" /\ UNCHANGED fan
    BY <1>7 DEF Record, Answered
  <2>2. DOMAIN leg = {}
    BY <2>1 DEF TypeInv, FanType
  <2> QED BY <2>1, <2>2 DEF fan, LegInv, EveryLegAnswers
<1>8. CASE Alert \/ Settle
  <2>1. /\ pc \in {"alerting", "alerted"} /\ pc' \in {"alerted", "raised", "idle"}
        /\ UNCHANGED <<told, sent, leg, result>>
    BY <1>8 DEF Alert, Settle, Goes, fan
  <2> QED BY <2>1 DEF LegInv, EveryLegAnswers
<1>9. CASE Start \/ Close \/ Crash
  <2>1. leg' = NoLegs /\ pc' \in {"idle", "down"}
    BY <1>9 DEF Start, Close, Crash
  <2> QED BY <1>1, <2>1 DEF LegInv, EveryLegAnswers
<1>10. CASE UNCHANGED <<pc, fan>>
  BY <1>10 DEF fan, LegInv, EveryLegAnswers
<1>11. UNCHANGED routerVars \/ Edit \/ Half \/ Write \/ Reconcile => UNCHANGED <<pc, fan>>
  BY DEF routerVars, Edit, Half, Write, Reconcile
<1>12. ASSUME NEW r \in wire, Network(r) PROVE UNCHANGED <<pc, fan>>
  BY <1>12 DEF Network
<1> QED BY Steps, <1>3, <1>4, <1>5, <1>6, <1>7, <1>8, <1>9, <1>10, <1>11, <1>12

-----------------------------------------------------------------------------
(* An order is in one place, is of a signal so far, and of the current one *)
(* only once dispatch has come to the brokers; what is new has not been    *)
(* posted, and what was reported rejected the broker has refused.          *)
Sent == wire \cup placed \cup refused

PlaceInv ==
  /\ wire \cap placed = {} /\ wire \cap refused = {} /\ placed \cap refused = {}
  /\ \A r \in Sent : r.sig <= sig
  /\ pc \in {"emitted", "telling"} => \A r \in Sent : r.sig # sig
  /\ \A e \in DOMAIN leg : leg[e] = "new" => Request(e) \notin Sent
  /\ \A e \in DOMAIN result : result[e] = "REJECTED" => Request(e) \in refused

LEMMA PlaceInit == Init => PlaceInv
<1> SUFFICES ASSUME RouterInit PROVE PlaceInv
  BY DEF Init
<1>1. DOMAIN leg = {} /\ DOMAIN result = {} /\ pc = "down"
  BY NoLegsFacts DEF RouterInit
<1>2. wire = {} /\ placed = {} /\ refused = {}
  BY DEF RouterInit
<1> QED BY <1>1, <1>2 DEF PlaceInv, Sent

LEMMA SentFacts ==
  ASSUME TypeInv, NEW r \in Sent
  PROVE  r.leg \in Hooks /\ r.sig \in Nat
<1>1. r \in Orders
  BY DEF Sent, TypeInv, BrokerType
<1> QED BY <1>1 DEF Orders

LEMMA PlaceNext == ASSUME TypeInv, LegInv, PlaceInv, [Next]_vars PROVE PlaceInv'
<1>1. DOMAIN NoLegs = {} /\ sig \in Nat
  BY NoLegsFacts, BoundFacts
<1>2. ASSUME NEW i \in {"ENTRY", "FLATTEN"}, Emit(i) PROVE PlaceInv'
  <2>1. /\ leg' = NoLegs /\ result' = NoLegs /\ UNCHANGED <<wire, placed, refused>> /\ sig' = sig + 1
    BY <1>2 DEF Emit, broker
  <2>2. \A r \in Sent : r.sig <= sig' /\ r.sig # sig'
    BY <1>1, <2>1, SentFacts DEF PlaceInv
  <2> QED BY <1>1, <2>1, <2>2 DEF PlaceInv, Sent
<1>3. CASE Tell
  <2>1. /\ pc = "emitted" /\ UNCHANGED <<wire, placed, refused, sig, result>>
        /\ leg' = leg \/ \A e \in DOMAIN leg' : leg'[e] = "new"
    BY <1>3 DEF Tell, Running, broker, signal, fan, Goes
  <2>2. \A e : Request(e)' = Request(e) /\ Request(e).sig = sig
    BY <2>1 DEF Request
  <2>3. \A e : Request(e) \notin Sent
    BY <2>1, <2>2 DEF PlaceInv
  <2> QED BY <2>1, <2>2, <2>3 DEF PlaceInv, Sent
<1>4. CASE OrderOut
  <2>1. pc = "telling" /\ UNCHANGED <<wire, placed, refused, sig, result>> /\ pc' \notin {"emitted", "telling"}
    BY <1>4 DEF OrderOut, broker, signal
  <2>2. \A e : Request(e)' = Request(e) /\ Request(e).sig = sig
    BY <2>1 DEF Request
  <2>3. \A e : Request(e) \notin Sent
    BY <2>1, <2>2 DEF PlaceInv
  <2> QED BY <2>1, <2>2, <2>3 DEF PlaceInv, Sent
<1>5. ASSUME NEW e \in DOMAIN leg, Leg(e) PROVE PlaceInv'
  <2>1. /\ pc \in {"telling", "ordering"}
        /\ UNCHANGED <<pc, sig, placed, refused>>
    BY <1>5, LegSteps
  <2>2. \A x : Request(x)' = Request(x) /\ Request(x).sig = sig /\ Request(x).leg = x
    BY <2>1 DEF Request
  <2>3. CASE /\ DOMAIN leg' = DOMAIN leg \ {e} /\ DOMAIN result' = DOMAIN result \cup {e}
             /\ \A x \in DOMAIN leg' : leg'[x] = leg[x]
             /\ \A x \in DOMAIN result : x # e => result'[x] = result[x]
             /\ result'[e] = "REJECTED" => e \in Hooks /\ Request(e) \in refused
             /\ UNCHANGED <<wire, http>>
    <3>1. Sent' = Sent
      BY <2>1, <2>3 DEF Sent
    <3>2. \A x \in DOMAIN leg' : leg'[x] = "new" => Request(x) \notin Sent
      BY <2>3 DEF PlaceInv
    <3>3. \A x \in DOMAIN result' : result'[x] = "REJECTED" => Request(x) \in refused
      BY <2>3 DEF PlaceInv
    <3> QED BY <2>1, <2>2, <2>3, <3>1, <3>2, <3>3 DEF PlaceInv
  <2>4. CASE /\ leg[e] = "new" /\ leg' = [leg EXCEPT ![e] = "posted"] /\ result' = result
             /\ e \in Hooks /\ wire' = wire \cup {Request(e)}
    <3>1. Sent' = Sent \cup {Request(e)} /\ Request(e) \notin Sent
      BY <2>1, <2>4 DEF Sent, PlaceInv
    <3>2. pc = "ordering"
      <4>1. e \in Accounts
        BY <2>4, SetFacts
      <4>2. pc = "telling" => e \in Notifiers
        BY DEF LegInv, TypeInv, FanType
      <4> QED BY <2>1, <4>1, <4>2, SetFacts
    <3>3. \A x \in DOMAIN leg' : leg'[x] = "new" => x # e /\ leg[x] = "new" /\ x \in DOMAIN leg
      BY <2>4
    <3>4. \A x \in DOMAIN leg' : leg'[x] = "new" => Request(x) \notin Sent'
      BY <2>2, <3>1, <3>3 DEF PlaceInv
    <3>5. \A r \in Sent' : r.sig <= sig
      BY <1>1, <2>2, <3>1 DEF PlaceInv
    <3>6. wire' \cap placed' = {} /\ wire' \cap refused' = {} /\ placed' \cap refused' = {}
      BY <2>1, <2>4, <3>1 DEF PlaceInv, Sent
    <3> QED BY <2>1, <2>2, <2>4, <3>2, <3>4, <3>5, <3>6 DEF PlaceInv
  <2> QED BY <1>5, <2>3, <2>4, LegSteps
<1>6. ASSUME NEW r \in wire, Network(r) PROVE PlaceInv'
  <2>1. UNCHANGED <<pc, sig, leg, result>>
    BY <1>6 DEF Network, signal, fan
  <2>2. /\ wire' = wire \ {r}
        /\ \/ placed' = placed \cup {r} /\ refused' = refused
           \/ placed' = placed /\ refused' = refused \cup {r}
    BY <1>6 DEF Network, Place, Refuse
  <2>3. Sent' = Sent /\ refused \subseteq refused'
    BY <2>2 DEF Sent
  <2>4. \A e : Request(e)' = Request(e)
    BY <2>1 DEF Request
  <2>5. wire' \cap placed' = {} /\ wire' \cap refused' = {} /\ placed' \cap refused' = {}
    BY <2>2 DEF PlaceInv
  <2> QED BY <2>1, <2>3, <2>4, <2>5 DEF PlaceInv
<1>7. CASE Start
  <2>1. leg' = NoLegs /\ result' = NoLegs /\ UNCHANGED <<wire, placed, refused, sig>> /\ pc' = "idle"
    BY <1>7 DEF Start, broker, signal
  <2> QED BY <1>1, <2>1 DEF PlaceInv, Sent
<1>8. CASE Close \/ Crash
  <2>1. leg' = NoLegs /\ UNCHANGED <<wire, placed, refused, sig, result>> /\ pc' = "down"
    BY <1>8 DEF Close, Crash, broker, signal
  <2> QED BY <1>1, <2>1 DEF PlaceInv, Sent, Request
<1>9. CASE UNCHANGED <<wire, placed, refused, sig, leg, result>> /\ (pc' = pc \/ pc' \notin {"emitted", "telling"})
  BY <1>9 DEF PlaceInv, Sent, Request
<1>10. UNCHANGED routerVars \/ Edit \/ Half \/ Write \/ Record \/ Alert \/ Settle \/ Reconcile
       => /\ UNCHANGED <<wire, placed, refused, sig, leg, result>>
          /\ pc' = pc \/ pc' \notin {"emitted", "telling"}
  BY DEF routerVars, broker, signal, fan, Edit, Half, Write, Record, Alert, Settle, Reconcile
<1> QED BY Steps, <1>2, <1>3, <1>4, <1>5, <1>6, <1>7, <1>8, <1>9, <1>10

-----------------------------------------------------------------------------
(* Failures are told before dispatch ends, and teardown leaves no session. *)
ToldInv ==
  pc \in {"alerted", "idle"} /\ PartialFan = "alert_only" /\ Failed # {} => told \subseteq alerts

LEMMA ToldNext == ASSUME ToldInv, [Next]_vars PROVE ToldInv'
<1>1. DOMAIN NoLegs = {}
  BY NoLegsFacts
<1>2. CASE Start \/ \E i \in {"ENTRY", "FLATTEN"} : Emit(i)
  <2>1. result' = NoLegs
    BY <1>2 DEF Start, Emit
  <2> QED BY <1>1, <2>1 DEF ToldInv, Failed
<1>3. CASE Alert
  <2>1. CASE Failed # {} /\ PartialFan = "alert_only"
    <3>1. \/ alerts' = told
          \/ pc' = "raised"
      BY <1>3, <2>1 DEF Alert
    <3> QED BY <1>3, <3>1 DEF Alert, ToldInv
  <2>2. CASE ~(Failed # {} /\ PartialFan = "alert_only")
    <3>1. Failed' = Failed
      BY <1>3 DEF Alert, Failed
    <3> QED BY <2>2, <3>1 DEF ToldInv
  <2> QED BY <2>1, <2>2
<1>4. CASE Tell \/ OrderOut \/ Record \/ Close \/ Crash
  <2>1. pc' \notin {"alerted", "idle"}
    BY <1>4 DEF Tell, OrderOut, Record, Close, Crash
  <2> QED BY <2>1 DEF ToldInv
<1>5. ASSUME NEW e \in DOMAIN leg, Leg(e) PROVE ToldInv'
  <2>1. pc' \notin {"alerted", "idle"}
    BY <1>5, LegSteps
  <2> QED BY <2>1 DEF ToldInv
<1>6. CASE /\ UNCHANGED <<told, alerts, result>>
           /\ pc' \in {"alerted", "idle"} => pc \in {"alerted", "idle"}
  BY <1>6 DEF ToldInv, Failed
<1>7. UNCHANGED routerVars \/ Edit \/ Half \/ Write \/ Settle \/ Reconcile
      => /\ UNCHANGED <<told, alerts, result>>
         /\ pc' \in {"alerted", "idle"} => pc \in {"alerted", "idle"}
  BY DEF routerVars, fan, Edit, Half, Write, Settle, Reconcile, Goes
<1>8. ASSUME NEW r \in wire, Network(r) PROVE UNCHANGED <<told, alerts, result, pc>>
  BY <1>8 DEF Network, fan
<1> QED BY Steps, <1>2, <1>3, <1>4, <1>5, <1>6, <1>7, <1>8

LEMMA SessionsNext == ASSUME TypeInv, SessionsReleased, [Next]_vars PROVE SessionsReleased'
<1>1. CASE Close
  <2>1. http' = (http \ Executors) \cup stuck'
    BY <1>1 DEF Close, Closed
  <2>2. http \subseteq Executors
    BY SetFacts DEF TypeInv, BrokerType
  <2> QED BY <2>1, <2>2 DEF SessionsReleased
<1>2. CASE Crash
  BY <1>2 DEF Crash, SessionsReleased
<1>3. CASE pc' # "down"
  BY <1>3 DEF SessionsReleased
<1>4. CASE UNCHANGED <<pc, sessions>>
  BY <1>4 DEF SessionsReleased, sessions
<1>5. Start \/ Tell \/ OrderOut \/ Record \/ Alert \/ Settle => pc' # "down"
  BY DEF Start, Tell, OrderOut, Record, Alert, Settle
<1>6. ASSUME NEW i \in {"ENTRY", "FLATTEN"}, Emit(i) PROVE pc' # "down"
  BY <1>6 DEF Emit
<1>7. ASSUME NEW e \in DOMAIN leg, Leg(e) PROVE pc' # "down"
  BY <1>7, LegSteps
<1>8. UNCHANGED routerVars \/ Edit \/ Half \/ Write \/ Reconcile => UNCHANGED <<pc, sessions>>
  BY DEF routerVars, Edit, Half, Write, Reconcile
<1>9. ASSUME NEW r \in wire, Network(r) PROVE UNCHANGED <<pc, sessions>>
  BY <1>9 DEF Network
<1> QED BY Steps, <1>1, <1>2, <1>3, <1>4, <1>5, <1>6, <1>7, <1>8, <1>9

RouterInv == TypeInv /\ LegInv /\ PlaceInv /\ ToldInv /\ SessionsReleased

LEMMA RouterInvInit == Init => RouterInv
<1> SUFFICES ASSUME Init PROVE RouterInv
  OBVIOUS
<1>1. pc = "down" /\ http = {}
  BY DEF Init, RouterInit
<1>2. ToldInv /\ SessionsReleased
  BY <1>1 DEF ToldInv, SessionsReleased
<1> QED BY <1>2, TypeInit, LegInit, PlaceInit DEF RouterInv

LEMMA RouterInvNext == RouterInv /\ [Next]_vars => RouterInv'
BY TypeNext, LegNext, PlaceNext, ToldNext, SessionsNext DEF RouterInv

LEMMA RejectedFacts == TypeInv /\ PlaceInv => RejectedNeverFills
BY DEF PlaceInv, RejectedNeverFills

(* With any notifiers, accounts and brokers, however they answer, hang,    *)
(* refuse or are killed: dispatch ends with an answer of every destination *)
(* it chose, an order reported rejected never fills, whoever was told of a *)
(* signal is told of its failures, and teardown leaves no session open but *)
(* one whose own close raised.                                             *)
THEOREM NothingForgotten == Spec => []LegsAccounted
<1>1. RouterInv => LegsAccounted
  <2> SUFFICES ASSUME RouterInv PROVE LegsAccounted
    OBVIOUS
  <2>1. RouterTypeOK /\ EveryLegAnswers /\ RejectedNeverFills /\ SessionsReleased
    BY TypeImplies, RejectedFacts DEF RouterInv, LegInv
  <2>2. ToldOfFailure
    BY DEF RouterInv, ToldInv, ToldOfFailure, Failed
  <2> QED BY <2>1, <2>2 DEF LegsAccounted
<1> QED BY <1>1, RouterInvInit, RouterInvNext, PTL DEF Spec

(* No order of a signal leaves before every notifier told of it has        *)
(* answered or timed out.                                                  *)
THEOREM HumanBeforeBroker == Spec => []HumanFirst
<1>1. RouterInv => HumanFirst
  <2> SUFFICES ASSUME RouterInv, pc \in {"telling", "ordering"},
                      NEW r \in wire \cup placed \cup refused, r.sig = sig
               PROVE  told \cap DOMAIN leg = {}
    BY DEF HumanFirst
  <2>1. pc = "ordering"
    BY DEF RouterInv, PlaceInv, Sent
  <2> QED BY <2>1 DEF RouterInv, LegInv
<1> QED BY <1>1, RouterInvInit, RouterInvNext, PTL DEF Spec

(* A step that sets an account's executor off finds the account switched   *)
(* on in the file as it is then, not as it was when the signal came.       *)
THEOREM OnlySwitchedOn == Spec => SwitchedOffGetsNothing
<1>1. RouterInv /\ [Next]_vars => [(DOMAIN leg' \ DOMAIN leg) \cap Accounts \subseteq Enabled]_routerVars
  <2> SUFFICES ASSUME RouterInv, [Next]_vars
               PROVE  (DOMAIN leg' \ DOMAIN leg) \cap Accounts \subseteq Enabled
    OBVIOUS
  <2>1. DOMAIN NoLegs = {} /\ Notifiers \cap Accounts = {}
    BY NoLegsFacts, SetFacts
  <2>2. CASE Tell
    <3>1. leg' = leg \/ DOMAIN leg' = Enabled \cap Notifiers
      BY <2>2 DEF Tell, Running, fan
    <3> QED BY <2>1, <3>1
  <2>3. CASE OrderOut
    <3>1. leg' = NoLegs \/ DOMAIN leg' = DOMAIN leg \cup (Enabled \cap Accounts)
      BY <2>3 DEF OrderOut, Listed
    <3> QED BY <2>1, <3>1
  <2>4. ASSUME NEW e \in DOMAIN leg, Leg(e) PROVE DOMAIN leg' \subseteq DOMAIN leg
    BY <2>4, LegSteps
  <2>5. CASE leg' = leg \/ leg' = NoLegs
    BY <2>1, <2>5
  <2>6. \/ UNCHANGED routerVars \/ Edit \/ Start \/ Half \/ Write
        \/ (\E i \in {"ENTRY", "FLATTEN"} : Emit(i))
        \/ Record \/ Alert \/ Settle \/ Reconcile \/ Close \/ Crash
        => leg' = leg \/ leg' = NoLegs
    BY DEF routerVars, fan, Edit, Start, Half, Write, Emit, Record, Alert, Settle, Reconcile, Close, Crash
  <2>7. ASSUME NEW r \in wire, Network(r) PROVE leg' = leg
    BY <2>7 DEF Network, fan
  <2> QED BY Steps, <2>2, <2>3, <2>4, <2>5, <2>6, <2>7
<1> QED BY <1>1, RouterInvInit, RouterInvNext, PTL DEF Spec, SwitchedOffGetsNothing

-----------------------------------------------------------------------------
(* The journal.                                                            *)
Lines(S) == {k \in DOMAIN lines : lines[k] \in S}

LEMMA LinesFacts ==
  ASSUME TypeInv, NEW S
  PROVE  IsFiniteSet(Lines(S)) /\ Cardinality(Lines(S)) \in Nat
<1>1. lines \in Seq(Kinds)
  BY DEF TypeInv, JournalType
<1>2. DOMAIN lines = 1 .. Len(lines) /\ Len(lines) \in Nat
  BY <1>1, LenProperties
<1>3. IsFiniteSet(1 .. Len(lines))
  BY <1>2, FS_Interval
<1>4. Lines(S) \in SUBSET (1 .. Len(lines))
  BY <1>2 DEF Lines
<1> QED BY <1>3, <1>4, FS_Subset, FS_CardinalityType

LEMMA LinesWritten ==
  ASSUME TypeInv, Write, NEW S, NEW c, c = Cardinality(Lines(S))
  PROVE  /\ Line(Head(pen)) \in S => Cardinality(Lines(S))' = c + 1
         /\ Line(Head(pen)) \notin S => Cardinality(Lines(S))' = c
<1>1. lines \in Seq(Kinds) /\ Line(Head(pen)) \in Kinds /\ lines' = Append(lines, Line(Head(pen)))
  BY PenFacts DEF Write, TypeInv, JournalType
<1>2. DOMAIN lines = 1 .. Len(lines) /\ Len(lines) \in Nat
  BY <1>1, LenProperties
<1>3. lines' \in Seq(Kinds) /\ Len(lines') = Len(lines) + 1
  BY <1>1, AppendProperties
<1>4. /\ \A k \in 1 .. Len(lines) : lines'[k] = lines[k]
      /\ lines'[Len(lines) + 1] = Line(Head(pen))
  BY <1>1, AppendProperties
<1>5. DOMAIN lines' = 1 .. Len(lines) + 1
  BY <1>3, LenProperties
<1>6. Len(lines) + 1 \notin Lines(S)
  BY <1>2 DEF Lines
<1>7. \A k : k \in 1 .. Len(lines) + 1 <=> k \in 1 .. Len(lines) \/ k = Len(lines) + 1
  BY <1>2
<1>8. CASE Line(Head(pen)) \in S
  <2>1. Lines(S)' = Lines(S) \cup {Len(lines) + 1}
    BY <1>2, <1>4, <1>5, <1>7, <1>8 DEF Lines
  <2>2. Cardinality(Lines(S) \cup {Len(lines) + 1}) = c + 1
    BY <1>6, LinesFacts, FS_AddElement
  <2> QED BY <1>8, <2>1, <2>2
<1>9. CASE Line(Head(pen)) \notin S
  <2>1. Lines(S)' = Lines(S)
    BY <1>2, <1>4, <1>5, <1>7, <1>9 DEF Lines
  <2> QED BY <1>9, <2>1
<1> QED BY <1>8, <1>9

(* The deaths pay for what is garbled, the line cut last included.         *)
Owed == IF torn = "left" THEN 1 ELSE 0

DeathInv == Cardinality(Lines({"garbled"})) + Owed <= deaths

LEMMA DeathNext == ASSUME TypeInv, DeathInv, [Next]_vars PROVE DeathInv'
<1> DEFINE c == Cardinality(Lines({"garbled"}))
<1>1. c \in Nat /\ deaths \in Nat
  BY LinesFacts, BoundFacts
<1>2. lines' = lines => c' = c
  BY DEF Lines
<1>3. CASE Write
  <2>1. torn' = "no" /\ deaths' = deaths /\ pen # <<>>
    BY <1>3 DEF Write, Ended
  <2>2. CASE torn = "left"
    <3>1. c' = c + 1
      <4>1. Line(Head(pen)) \in {"garbled"}
        BY <2>2 DEF Line
      <4> QED BY <1>3, <4>1, LinesWritten
    <3>2. c + 1 <= deaths
      BY <2>2 DEF DeathInv, Owed
    <3> QED BY <1>1, <2>1, <3>1, <3>2 DEF DeathInv, Owed
  <2>3. CASE torn # "left"
    <3>1. c' = c
      <4>1. Line(Head(pen)) \notin {"garbled"}
        BY <2>1, <2>3, PenFacts DEF Line, Records
      <4> QED BY <1>3, <4>1, LinesWritten
    <3>2. c <= deaths
      BY <1>1, <2>3 DEF DeathInv, Owed
    <3> QED BY <1>1, <2>1, <3>1, <3>2 DEF DeathInv, Owed
  <2> QED BY <2>2, <2>3
<1>4. CASE Crash
  <2>1. deaths' = deaths + 1 /\ lines' = lines /\ Owed' \in 0 .. 1
    BY <1>4 DEF Crash, Owed
  <2>2. c <= deaths
    BY <1>1 DEF DeathInv, Owed
  <2>3. c' + Owed' <= deaths'
    BY <1>1, <1>2, <2>1, <2>2
  <2> QED BY <2>3 DEF DeathInv
<1>5. CASE UNCHANGED <<lines, deaths>> /\ (torn' = torn \/ torn' = "now")
  <2>1. c <= deaths /\ (torn = "left" => c + 1 <= deaths)
    BY <1>1 DEF DeathInv, Owed
  <2>2. c' = c
    BY <1>2, <1>5
  <2> QED BY <1>1, <1>5, <2>1, <2>2 DEF DeathInv, Owed
<1>6. \/ UNCHANGED routerVars \/ Edit \/ Start \/ Half
      \/ (\E i \in {"ENTRY", "FLATTEN"} : Emit(i))
      \/ Tell \/ OrderOut \/ Record \/ Alert \/ Settle \/ Reconcile \/ Close
      => UNCHANGED <<lines, deaths>> /\ (torn' = torn \/ torn' = "now")
  BY DEF routerVars, journal, Edit, Start, Half, Emit, Tell, OrderOut, Record, Alert, Settle, Reconcile, Close
<1>7. ASSUME NEW e \in DOMAIN leg, Leg(e) PROVE UNCHANGED <<lines, torn, deaths>>
  BY <1>7, LegSteps
<1>8. ASSUME NEW r \in wire, Network(r) PROVE UNCHANGED <<lines, torn, deaths>>
  BY <1>8 DEF Network, journal
<1> QED BY Steps, <1>3, <1>4, <1>5, <1>6, <1>7, <1>8

(* The signals that an order is of, with the current one once its record   *)
(* is in the file and orders may leave, are no more than the records.      *)
OutSigs == {r.sig : r \in Sent}

Ahead ==
  IF pc \in {"telling", "ordering"} \/ (pc = "emitted" /\ pen = <<>>)
  THEN OutSigs \cup {sig} ELSE OutSigs

RecordKinds == {"entry", "exit", "garbled"}

RecordInv ==
  /\ pc = "emitted" => pen \in {<<>>, <<"entry">>, <<"exit">>}
  /\ Cardinality(Ahead) <= Cardinality(Lines(RecordKinds))

LEMMA AheadFacts ==
  ASSUME TypeInv
  PROVE  /\ IsFiniteSet(OutSigs) /\ IsFiniteSet(OutSigs \cup {sig}) /\ IsFiniteSet(Ahead)
         /\ OutSigs \subseteq Ahead /\ Ahead \subseteq OutSigs \cup {sig}
         /\ Cardinality(OutSigs) \in Nat /\ Cardinality(Ahead) \in Nat
         /\ Cardinality(OutSigs \cup {sig}) \in Nat
         /\ Cardinality(OutSigs \cup {sig}) <= Cardinality(OutSigs) + 1
<1>1. bound.signals \in Nat
  BY BoundFacts
<1>2. OutSigs \in SUBSET (1 .. bound.signals)
  BY DEF OutSigs, Sent, TypeInv, BrokerType, Orders
<1>3. IsFiniteSet(1 .. bound.signals)
  BY <1>1, FS_Interval
<1>4. IsFiniteSet(OutSigs) /\ Cardinality(OutSigs) \in Nat
  BY <1>2, <1>3, FS_Subset, FS_CardinalityType
<1>5. /\ IsFiniteSet(OutSigs \cup {sig}) /\ Cardinality(OutSigs \cup {sig}) \in Nat
      /\ Cardinality(OutSigs \cup {sig}) <= Cardinality(OutSigs) + 1
  <2>1. /\ IsFiniteSet(OutSigs \cup {sig})
        /\ Cardinality(OutSigs \cup {sig})
           = IF sig \in OutSigs THEN Cardinality(OutSigs) ELSE Cardinality(OutSigs) + 1
    BY <1>4, FS_AddElement
  <2> QED BY <1>4, <2>1
<1> QED BY <1>4, <1>5 DEF Ahead

(* A step that writes no line and brings no order out of turn.             *)
LEMMA RecordShrinks ==
  ASSUME TypeInv, RecordInv, lines' = lines, Ahead' \subseteq Ahead,
         pc' = "emitted" => pen' \in {<<>>, <<"entry">>, <<"exit">>}
  PROVE  RecordInv'
<1> DEFINE c == Cardinality(Lines(RecordKinds))  a == Cardinality(Ahead)
<1>1. c' = c
  BY DEF Lines
<1>2. Cardinality(Ahead') <= a
  <2>1. Ahead' \in SUBSET Ahead
    OBVIOUS
  <2> QED BY <2>1, AheadFacts, FS_Subset
<1>3. Cardinality(Ahead') \in Nat
  <2>1. Ahead' \in SUBSET Ahead
    OBVIOUS
  <2> QED BY <2>1, AheadFacts, FS_Subset, FS_CardinalityType
<1>4. a \in Nat /\ c \in Nat /\ a <= c
  BY AheadFacts, LinesFacts DEF RecordInv
<1>5. Cardinality(Ahead') <= c
  BY <1>2, <1>3, <1>4
<1> QED BY <1>1, <1>5 DEF RecordInv

LEMMA RecordWrite == ASSUME TypeInv, RecordInv, Write PROVE RecordInv'
<1> DEFINE c == Cardinality(Lines(RecordKinds))  a == Cardinality(Ahead)
<1>1. a \in Nat /\ c \in Nat /\ a <= c
  BY AheadFacts, LinesFacts DEF RecordInv
<1>2. /\ pen # <<>> /\ pen' = <<>> /\ UNCHANGED <<pc, wire, placed, refused, sig>>
  BY PenFacts DEF Write, broker, signal
<1>3. OutSigs' = OutSigs /\ sig' = sig /\ pc' = pc
  BY <1>2 DEF OutSigs, Sent
<1>4. c' = c \/ c' = c + 1
  BY LinesWritten
<1>5. CASE pc = "emitted"
  <2>1. Line(Head(pen)) \in RecordKinds
    <3>1. pen \in {<<"entry">>, <<"exit">>}
      BY <1>2, <1>5 DEF RecordInv
    <3>2. Head(pen) \in {"entry", "exit"}
      BY <3>1
    <3> QED BY <3>2 DEF Line, RecordKinds
  <2>2. c' = c + 1
    BY <2>1, LinesWritten
  <2>3. Ahead = OutSigs /\ Ahead' = OutSigs \cup {sig}
    BY <1>2, <1>3, <1>5 DEF Ahead
  <2>4. Cardinality(OutSigs \cup {sig}) \in Nat /\ Cardinality(OutSigs \cup {sig}) <= a + 1
    BY <2>3, AheadFacts
  <2>5. Cardinality(Ahead)' <= c'
    <3>1. Cardinality(Ahead)' = Cardinality(OutSigs \cup {sig})
      BY <2>3
    <3> QED BY <1>1, <2>2, <2>4, <3>1
  <2> QED BY <1>2, <2>5 DEF RecordInv
<1>6. CASE pc # "emitted"
  <2>1. Ahead' = Ahead
    BY <1>3, <1>6 DEF Ahead
  <2>2. Cardinality(Ahead)' <= c'
    <3>1. Cardinality(Ahead)' = a
      BY <2>1
    <3> QED BY <1>1, <1>4, <3>1
  <2> QED BY <1>2, <2>2 DEF RecordInv
<1> QED BY <1>5, <1>6

LEMMA RecordNext == ASSUME TypeInv, LegInv, PlaceInv, RecordInv, [Next]_vars PROVE RecordInv'
<1>1. CASE Write
  BY <1>1, RecordWrite
<1>2. ASSUME NEW i \in {"ENTRY", "FLATTEN"}, Emit(i) PROVE RecordInv'
  <2>1. UNCHANGED <<wire, placed, refused, lines>>
    BY <1>2 DEF Emit, broker
  <2>2. /\ pc' = "emitted" => pen' \in {<<"entry">>, <<"exit">>}
        /\ pc' \notin {"telling", "ordering"}
    BY <1>2 DEF Emit
  <2>3. pc' = "emitted" => pen' # <<>>
    BY <2>2
  <2>4. Ahead' = OutSigs
    BY <2>1, <2>2, <2>3 DEF Ahead, OutSigs, Sent
  <2> QED BY <2>1, <2>2, <2>4, RecordShrinks, AheadFacts
<1>3. CASE Tell \/ OrderOut
  <2>1. /\ UNCHANGED <<wire, placed, refused, lines, pen, sig>>
        /\ Ahead = OutSigs \cup {sig} /\ pc' # "emitted"
    BY <1>3 DEF Tell, OrderOut, Goes, broker, journal, signal, Ahead
  <2>2. Ahead' \subseteq Ahead
    BY <2>1 DEF Ahead, OutSigs, Sent
  <2> QED BY <2>1, <2>2, RecordShrinks
<1>4. ASSUME NEW e \in DOMAIN leg, Leg(e) PROVE RecordInv'
  <2>1. /\ pc \in {"telling", "ordering"}
        /\ UNCHANGED <<pc, sig, placed, refused, lines>>
        /\ wire' \subseteq wire \cup {Request(e)}
    BY <1>4, LegSteps
  <2>2. Ahead = OutSigs \cup {sig} /\ Request(e).sig = sig
    BY <2>1 DEF Ahead, Request
  <2>3. OutSigs' \subseteq OutSigs \cup {sig}
    BY <2>1, <2>2 DEF OutSigs, Sent
  <2>4. Ahead' \subseteq Ahead
    BY <2>1, <2>2, <2>3 DEF Ahead
  <2>5. pc' # "emitted"
    BY <2>1
  <2> QED BY <2>1, <2>4, <2>5, RecordShrinks
<1>5. ASSUME NEW r \in wire, Network(r) PROVE RecordInv'
  <2>1. UNCHANGED <<pc, sig, pen, lines>>
    BY <1>5 DEF Network, signal, journal
  <2>2. Sent' = Sent
    BY <1>5 DEF Network, Place, Refuse, Sent
  <2>3. Ahead' = Ahead
    BY <2>1, <2>2 DEF Ahead, OutSigs
  <2>4. pc' = "emitted" => pen' \in {<<>>, <<"entry">>, <<"exit">>}
    BY <2>1 DEF RecordInv
  <2> QED BY <2>1, <2>3, <2>4, RecordShrinks
<1>6. CASE Start \/ Record \/ Alert \/ Settle \/ Reconcile \/ Close \/ Crash
  <2>1. /\ UNCHANGED <<wire, placed, refused, lines>>
        /\ pc' \notin {"emitted", "telling", "ordering"}
    BY <1>6 DEF Start, Record, Alert, Settle, Reconcile, Close, Crash, broker, journal, Goes
  <2>2. Ahead' \subseteq Ahead
    BY <2>1 DEF Ahead, OutSigs, Sent
  <2> QED BY <2>1, <2>2, RecordShrinks
<1>7. CASE UNCHANGED <<pc, sig, pen, lines, wire, placed, refused>>
  <2>1. Ahead' = Ahead
    BY <1>7 DEF Ahead, OutSigs, Sent
  <2>2. pc' = "emitted" => pen' \in {<<>>, <<"entry">>, <<"exit">>}
    BY <1>7 DEF RecordInv
  <2> QED BY <1>7, <2>1, <2>2, RecordShrinks
<1>8. UNCHANGED routerVars \/ Edit \/ Half => UNCHANGED <<pc, sig, pen, lines, wire, placed, refused>>
  BY DEF routerVars, signal, broker, journal, Edit, Half
<1> QED BY Steps, <1>1, <1>2, <1>3, <1>4, <1>5, <1>6, <1>7, <1>8

LEMMA JournalInit == Init => DeathInv /\ RecordInv
<1> SUFFICES ASSUME RouterInit PROVE DeathInv /\ RecordInv
  BY DEF Init
<1>1. /\ lines = <<>> /\ torn = "no" /\ deaths = 0 /\ pc = "down"
      /\ wire = {} /\ placed = {} /\ refused = {}
  BY DEF RouterInit
<1>2. \A S : Lines(S) = {}
  BY <1>1 DEF Lines
<1>3. Cardinality({}) = 0
  BY FS_EmptySet
<1>4. Ahead = {}
  BY <1>1 DEF Ahead, OutSigs, Sent
<1>5. Cardinality(Lines({"garbled"})) = 0 /\ Cardinality(Lines(RecordKinds)) = 0
  BY <1>2, <1>3
<1>6. DeathInv
  BY <1>1, <1>5 DEF DeathInv, Owed
<1>7. RecordInv
  BY <1>1, <1>3, <1>4, <1>5 DEF RecordInv
<1> QED BY <1>6, <1>7

(* However often the process dies, also in the middle of a line, an order  *)
(* has left only for a signal whose record is in the journal, and a death  *)
(* garbles no more than one line: the record it cut, with the next one.    *)
THEOREM RecordBeforeOrder == Spec => []JournalLeads
<1> DEFINE Inv == RouterInv /\ DeathInv /\ RecordInv
<1>1. Init => Inv
  BY RouterInvInit, JournalInit
<1>2. Inv /\ [Next]_vars => Inv'
  BY RouterInvNext, DeathNext, RecordNext DEF RouterInv
<1>3. Inv => JournalLeads
  <2> SUFFICES ASSUME Inv PROVE JournalLeads
    OBVIOUS
  <2>1. OneDeathOneRecord
    <3>1. Lines({"garbled"}) = {k \in DOMAIN lines : lines[k] = "garbled"}
      BY DEF Lines
    <3>2. Cardinality(Lines({"garbled"})) <= deaths
      BY LinesFacts, BoundFacts DEF RouterInv, DeathInv, Owed
    <3> QED BY <3>1, <3>2 DEF OneDeathOneRecord
  <2>2. OnRecordFirst
    <3>1. Cardinality(OutSigs) <= Cardinality(Ahead)
      <4>1. OutSigs \in SUBSET Ahead /\ IsFiniteSet(Ahead)
        BY AheadFacts DEF RouterInv
      <4> QED BY <4>1, FS_Subset
    <3>2. /\ Cardinality(OutSigs) \in Nat /\ Cardinality(Ahead) \in Nat
          /\ Cardinality(Lines(RecordKinds)) \in Nat
          /\ Cardinality(Ahead) <= Cardinality(Lines(RecordKinds))
      BY AheadFacts, LinesFacts DEF RouterInv, RecordInv
    <3>3. Cardinality(OutSigs) <= Cardinality(Lines(RecordKinds))
      BY <3>1, <3>2
    <3>4. /\ OutSigs = {r.sig : r \in wire \cup placed \cup refused}
          /\ Lines(RecordKinds) = {k \in DOMAIN lines : lines[k] \in {"entry", "exit", "garbled"}}
      BY DEF OutSigs, Sent, Lines, RecordKinds
    <3> QED BY <3>3, <3>4 DEF OnRecordFirst
  <2> QED BY <2>1, <2>2 DEF JournalLeads
<1> QED BY <1>1, <1>2, <1>3, PTL DEF Spec

-----------------------------------------------------------------------------
(* The watcher.  What lies past the saved offset it has notified of in     *)
(* earlier lives only; of a batch that is being notified, what is still    *)
(* queued, and what lies past the batch.                                   *)
PingType ==
  /\ ppc \in {"down", "poll", "notify"} /\ pingerDeaths \in 0 .. bound.hangs
  /\ saved \in {None} \cup 0 .. Len(lines) + 1 /\ next \in 0 .. Len(lines)
  /\ DOMAIN pings \subseteq DOMAIN lines
  /\ \A k \in DOMAIN pings : pings[k] \in Nat

PingInv ==
  /\ OncePerLife
  /\ saved = None => DOMAIN pings = {} /\ ppc # "notify"
  /\ saved # None /\ ppc # "notify" => \A k \in DOMAIN pings : k > saved => pings[k] <= pingerDeaths
  /\ ppc = "notify" =>
       /\ queue \subseteq 1 .. next
       /\ \A k \in DOMAIN pings : k \in queue \/ k > next => pings[k] <= pingerDeaths

LEMMA PingFacts ==
  ASSUME TypeInv, PingType
  PROVE  /\ Len(lines) \in Nat /\ DOMAIN lines = 1 .. Len(lines) /\ pingerDeaths \in Nat
         /\ bound.hangs \in Nat /\ next \in Nat /\ None \notin Int
         /\ saved # None => saved \in Nat
<1>1. lines \in Seq(Kinds) /\ bound \in Scenarios
  BY DEF TypeInv, JournalType, ControlType
<1>2. Len(lines) \in Nat /\ DOMAIN lines = 1 .. Len(lines)
  BY <1>1, LenProperties
<1>3. bound.hangs \in Nat /\ None \notin Int
  BY <1>1, RouterAssumption
<1> QED BY <1>2, <1>3 DEF PingType

(* The router leaves the watcher alone, and the journal only grows.        *)
LEMMA LinesGrow ==
  ASSUME TypeInv, [Next]_vars
  PROVE  /\ bound' = bound /\ Len(lines) \in Nat /\ Len(lines') \in Nat /\ Len(lines) <= Len(lines')
         /\ DOMAIN lines = 1 .. Len(lines) /\ DOMAIN lines' = 1 .. Len(lines')
<1>1. lines \in Seq(Kinds) /\ lines' \in Seq(Kinds)
  BY JournalNext DEF TypeInv, JournalType
<1>2. /\ Len(lines) \in Nat /\ Len(lines') \in Nat
      /\ DOMAIN lines = 1 .. Len(lines) /\ DOMAIN lines' = 1 .. Len(lines')
  BY <1>1, LenProperties
<1>3. bound' = bound /\ (lines' = lines \/ Write)
  <2>1. \A e \in DOMAIN leg : Leg(e) => UNCHANGED <<bound, lines>>
    BY LegSteps
  <2> QED BY Steps, <2>1 DEF routerVars, journal, Edit, Start, Half, Write, Emit, Tell, OrderOut,
                             Network, Record, Alert, Settle, Reconcile, Close, Crash
<1>4. Write => Len(lines') = Len(lines) + 1
  <2> SUFFICES ASSUME Write PROVE Len(lines') = Len(lines) + 1
    OBVIOUS
  <2>1. lines' = Append(lines, Line(Head(pen))) /\ Line(Head(pen)) \in Kinds
    BY PenFacts DEF Write
  <2> QED BY <1>1, <2>1, AppendProperties
<1>5. Len(lines) <= Len(lines')
  <2>1. CASE lines' = lines
    BY <1>2, <2>1
  <2>2. CASE Write
    BY <1>2, <1>4, <2>2
  <2> QED BY <1>3, <2>1, <2>2
<1>6. bound' = bound
  BY <1>3
<1>7. Len(lines) \in Nat /\ Len(lines') \in Nat
  BY <1>2
<1>8. DOMAIN lines = 1 .. Len(lines) /\ DOMAIN lines' = 1 .. Len(lines')
  BY <1>2
<1> QED BY <1>5, <1>6, <1>7, <1>8

LEMMA PingKept ==
  ASSUME TypeInv, PingType, PingInv, [Next]_vars, UNCHANGED pinger
  PROVE  PingType' /\ PingInv'
<1>1. /\ bound' = bound /\ Len(lines) \in Nat /\ Len(lines') \in Nat /\ Len(lines) <= Len(lines')
      /\ DOMAIN lines = 1 .. Len(lines) /\ DOMAIN lines' = 1 .. Len(lines')
  BY LinesGrow
<1>2. PingInv'
  BY DEF PingInv, OncePerLife, pinger
<1>3. saved' \in {None} \cup 0 .. Len(lines') + 1 /\ next' \in 0 .. Len(lines')
  BY <1>1 DEF PingType, pinger
<1>4. DOMAIN pings' \subseteq DOMAIN lines'
  BY <1>1 DEF PingType, pinger
<1> QED BY <1>1, <1>2, <1>3, <1>4 DEF PingType, pinger

LEMMA NotifyKeeps ==
  ASSUME TypeInv, PingType, PingInv, Notify, UNCHANGED routerVars
  PROVE  PingType' /\ PingInv'
<1>1. PICK k \in queue : /\ pings' = With(pings, k, Notified(k) + 1) /\ queue' = queue \ {k}
                         /\ ppc = "notify" /\ UNCHANGED <<ppc, saved, next, pingerDeaths>>
  BY DEF Notify
<1>2. bound' = bound /\ lines' = lines
  BY DEF routerVars, journal
<1>3. /\ Len(lines) \in Nat /\ DOMAIN lines = 1 .. Len(lines) /\ pingerDeaths \in Nat /\ next \in Nat
  BY PingFacts
<1>4. /\ DOMAIN pings' = DOMAIN pings \cup {k}
      /\ \A j \in DOMAIN pings' : pings'[j] = IF j = k THEN Notified(k) + 1 ELSE pings[j]
  BY <1>1 DEF With
<1>5. queue \subseteq 1 .. next /\ next \in 0 .. Len(lines) /\ saved # None
  BY <1>1 DEF PingInv, PingType
<1>6. Notified(k) \in Nat /\ Notified(k) <= pingerDeaths
  BY <1>1, <1>3 DEF Notified, PingInv, PingType
<1>7. \A j \in DOMAIN pings' : pings'[j] \in Nat /\ pings'[j] <= 1 + pingerDeaths
  BY <1>3, <1>4, <1>6 DEF PingType, PingInv, OncePerLife
<1>8. DOMAIN pings' \subseteq DOMAIN lines
  BY <1>3, <1>4, <1>5 DEF PingType
<1>9. \A j \in DOMAIN pings' : j \in queue' \/ j > next => pings'[j] <= pingerDeaths
  <2> SUFFICES ASSUME NEW j \in DOMAIN pings', j \in queue' \/ j > next
               PROVE  pings'[j] <= pingerDeaths
    OBVIOUS
  <2>1. j # k
    BY <1>1, <1>3, <1>5
  <2> QED BY <1>1, <1>4, <2>1 DEF PingInv
<1>10. PingType'
  BY <1>1, <1>2, <1>7, <1>8 DEF PingType
<1>11. PingInv'
  BY <1>1, <1>5, <1>7, <1>9 DEF PingInv, OncePerLife
<1> QED BY <1>10, <1>11

LEMMA PingNext ==
  ASSUME TypeInv, PingType, PingInv, [Next]_vars
  PROVE  PingType' /\ PingInv'
<1>0. /\ Len(lines) \in Nat /\ DOMAIN lines = 1 .. Len(lines) /\ pingerDeaths \in Nat /\ next \in Nat
      /\ bound.hangs \in Nat /\ None \notin Int /\ (saved # None => saved \in Nat)
      /\ \A k \in DOMAIN pings : pings[k] \in Nat /\ k \in Nat
  BY PingFacts DEF PingType
<1>1. CASE UNCHANGED pinger
  BY <1>1, PingKept
<1> SUFFICES ASSUME PingerNext, UNCHANGED routerVars PROVE PingType' /\ PingInv'
  BY <1>1 DEF Next, vars
<1>2. bound' = bound /\ lines' = lines
  BY DEF routerVars, journal
<1>3. CASE Launch
  <2>1. ppc = "down" /\ ppc' = "poll" /\ UNCHANGED <<saved, next, pings, pingerDeaths>>
    BY <1>3 DEF Launch
  <2> QED BY <1>2, <2>1 DEF PingType, PingInv, OncePerLife
<1>4. CASE FirstSight
  <2>1. ppc = "poll" /\ saved = None /\ UNCHANGED <<ppc, next, pings, pingerDeaths>>
        /\ saved' \in 0 .. Len(lines) + 1 /\ DOMAIN pings = {}
    BY <1>0, <1>4 DEF FirstSight, PingInv
  <2> QED BY <1>0, <1>2, <2>1 DEF PingType, PingInv, OncePerLife
<1>5. CASE Drain
  <2>1. /\ ppc = "poll" /\ saved # None /\ next' = Len(lines) /\ ppc' = "notify" /\ Len(lines) > saved
        /\ queue' = {k \in DOMAIN lines : k > saved /\ lines[k] \in Pingable}
        /\ UNCHANGED <<saved, pings, pingerDeaths>>
    BY <1>5 DEF Drain, ReadTo, Drained
  <2>2. queue' \subseteq 1 .. next' /\ \A k \in queue' : k > saved
    BY <1>0, <2>1
  <2>3. \A k \in DOMAIN pings : k \in queue' \/ k > next' => pings[k] <= pingerDeaths
    <3> SUFFICES ASSUME NEW k \in DOMAIN pings, k \in queue' \/ k > next' PROVE k > saved
      BY <2>1 DEF PingInv
    <3> QED BY <1>0, <2>1, <2>2
  <2>4. next' \in 0 .. Len(lines)
    BY <1>0, <2>1
  <2> QED BY <1>2, <2>1, <2>2, <2>3, <2>4 DEF PingType, PingInv, OncePerLife
<1>6. CASE Notify
  BY <1>6, NotifyKeeps
<1>7. CASE Save
  <2>1. /\ ppc = "notify" /\ queue = {} /\ saved' = next /\ ppc' = "poll"
        /\ UNCHANGED <<next, pings, pingerDeaths>>
    BY <1>7 DEF Save, Saves, SavedOffset
  <2>2. saved' # None /\ saved' \in 0 .. Len(lines) + 1
    BY <1>0, <2>1 DEF PingType
  <2> QED BY <1>2, <2>1, <2>2 DEF PingType, PingInv, OncePerLife
<1>8. CASE Die
  <2>1. /\ ppc' = "down" /\ pingerDeaths' = pingerDeaths + 1 /\ pingerDeaths < bound.hangs
        /\ UNCHANGED <<saved, next, pings>>
    BY <1>8 DEF Die
  <2>2. \A k \in DOMAIN pings : pings[k] <= pingerDeaths' /\ pings[k] <= 1 + pingerDeaths'
    BY <1>0, <2>1 DEF PingInv, OncePerLife
  <2>3. pingerDeaths' \in 0 .. bound.hangs
    BY <1>0, <2>1
  <2> QED BY <1>2, <2>1, <2>2, <2>3 DEF PingType, PingInv, OncePerLife
<1> QED BY <1>3, <1>4, <1>5, <1>6, <1>7, <1>8 DEF PingerNext

(* Whatever dies, and wherever in a batch: nobody is notified of a trade   *)
(* more often than once plus once for each death of the watcher.           *)
THEOREM OncePlusDeaths == Spec => [](TypeOK /\ OncePerLife)
<1> DEFINE Inv == TypeInv /\ PingType /\ PingInv
<1>1. Init => Inv
  <2> SUFFICES ASSUME Init PROVE PingType /\ PingInv
    BY TypeInit
  <2>1. /\ ppc = "down" /\ saved = None /\ next = 0 /\ pings = <<>> /\ pingerDeaths = 0
        /\ bound \in Scenarios /\ lines = <<>>
    BY DEF Init, PingInit, RouterInit
  <2>2. bound.hangs \in Nat /\ DOMAIN pings = {} /\ Len(lines) = 0
    BY <2>1, RouterAssumption
  <2>3. PingType
    BY <2>1, <2>2 DEF PingType
  <2>4. PingInv
    BY <2>1, <2>2 DEF PingInv, OncePerLife
  <2> QED BY <2>3, <2>4
<1>2. Inv /\ [Next]_vars => Inv'
  BY TypeNext, PingNext
<1>3. Inv => TypeOK /\ OncePerLife
  BY TypeImplies DEF PingType, PingInv, TypeOK
<1> QED BY <1>1, <1>2, <1>3, PTL DEF Spec
====
