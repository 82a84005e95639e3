------------------------------- MODULE Agent -------------------------------
(***************************************************************************)
(* The desk's agent: a turn of the chat (agent/loop.py) from the question  *)
(* to the rows it leaves in the transcript and the table of opinions, the  *)
(* checks its reply passes through (agent/postcheck.py, agent/voice.py),   *)
(* the chat's memory (agent/memory.py), and the nightly grading of the     *)
(* opinions (grader.py).                                                   *)
(*                                                                         *)
(* A reply is what the checks tell apart: whether it holds a view and      *)
(* whether it keeps to the voice.  The model (external) may answer         *)
(* anything, and rewrite a reply into anything.                            *)
(***************************************************************************)
EXTENDS Integers, Sequences, FiniteSets, SequencesExt, FiniteSetsExt

CONSTANTS
  Turns,         \* requests to /chat
  ToolRounds,    \* MAX_TOOL_ROUNDS
  Retries,       \* MAX_VOICE_RETRIES
  Window,        \* turns of the transcript a question is sent with (20)
  Every,         \* rows between two summaries (20)
  Transcript,    \* rows a summary is written from (40)
  Batch          \* opinions a grading run takes (200)

ASSUME AgentAssumption ==
  /\ ToolRounds \in Nat /\ Retries \in Nat /\ Batch \in Nat \ {0}
  /\ Every \in Nat /\ \E exchanges \in 1 .. Every : Every = 2 * exchanges
  /\ Window \in Nat /\ Every <= Window /\ Transcript \in Nat /\ Every <= Transcript

VARIABLES
  turn,       \* turn -> a request at work
  sessions,   \* table chat_sessions of today: number of rows
  rows,       \* table chat_messages: [chat, role]
  summed,     \* the rows that the chats' summaries, as they are, were written from
  opinions,   \* table opinions: sequence of [turn, gradable, graded]
  due,        \* the grader's run: opinions it still has to grade
  garbled     \* history: turns in which a reply held a view and was not classified as an
              \* opinion, or the other way round

agentVars == <<turn, sessions, rows, summed, opinions, due, garbled>>

NoTurn ==
  [step |-> "unasked", chat |-> 0, rounds |-> 0, retries |-> 0, tools |-> FALSE, stale |-> FALSE,
   view |-> FALSE, clean |-> TRUE, class |-> FALSE, opinion |-> 0, told |-> "nothing", excused |-> FALSE]

RowsIn(chat) == {i \in DOMAIN rows : rows[i].chat = chat}
Put(t, r) == turn' = [turn EXCEPT ![t] = r]

-----------------------------------------------------------------------------
(* chat_session: the newest of today's chats, or a new one.                *)
Ask(t) ==
  /\ turn[t].step = "unasked"
  /\ Put(t, [turn[t] EXCEPT !.step = IF sessions = 0 THEN "open" ELSE "model", !.chat = sessions])
  /\ UNCHANGED <<sessions, rows, summed, opinions, due, garbled>>

Open(t) ==
  /\ turn[t].step = "open"
  /\ sessions' = sessions + 1
  /\ Put(t, [turn[t] EXCEPT !.step = "model", !.chat = sessions + 1])
  /\ UNCHANGED <<rows, summed, opinions, due, garbled>>

(* A round of the model that asks for a tool; after the last round allowed *)
(* what the model said beside its last call is the reply.                  *)
UseTool(t, ok, behind) ==
  /\ turn[t].step = "model" /\ turn[t].rounds <= ToolRounds
  /\ Put(t, [turn[t] EXCEPT !.rounds = @ + 1, !.tools = TRUE, !.stale = @ \/ (ok /\ behind)])
  /\ UNCHANGED <<sessions, rows, summed, opinions, due, garbled>>

(* The reply, and postcheck.classify of it: the view it sees, unless the   *)
(* classifier fails.                                                       *)
Reply(t, view, clean, class) ==
  /\ turn[t].step = "model" /\ (class => view)
  /\ Put(t, [turn[t] EXCEPT !.step = "check", !.view = view, !.clean = clean, !.class = class])
  /\ garbled' = IF view # class THEN garbled \cup {t} ELSE garbled
  /\ UNCHANGED <<sessions, rows, summed, opinions, due>>

(* The voice check: a reply that breaks it is written again; the           *)
(* classification stays that of the first one, whether the new one holds a *)
(* view or not.  A call that fails ends the retries.                       *)
Retry(r) == r + 1

Regenerate(t, view, clean) ==
  /\ turn[t].step = "check" /\ ~turn[t].clean /\ turn[t].retries < Retries
  /\ Put(t, [turn[t] EXCEPT !.retries = Retry(@), !.view = view, !.clean = clean])
  /\ garbled' = IF view # turn[t].class THEN garbled \cup {t} ELSE garbled
  /\ UNCHANGED <<sessions, rows, summed, opinions, due>>

(* apply_rules, after the fallback has taken the place of a reply that     *)
(* would not come clean.  What is told is excused if it begins by saying   *)
(* that the data is behind or not to be seen: the line for a view without  *)
(* tools does, the fallback does not, a reply may begin with one of the    *)
(* openings that count as saying so (which matters in a stale turn only);  *)
(* all else is given the stale line.                                       *)
Voiced(r) ==
  IF r.clean THEN r ELSE [r EXCEPT !.view = FALSE, !.class = FALSE, !.told = "fallback", !.excused = FALSE]

Grounded(r) ==
  IF r.class /\ ~r.tools THEN [r EXCEPT !.view = FALSE, !.class = FALSE, !.told = "offline", !.excused = TRUE]
  ELSE r
StaleFirst(r) == IF r.stale /\ ~r.excused THEN [r EXCEPT !.excused = TRUE] ELSE r

Logs(before, after) == after.class

Check(t, failed, opens) ==
  LET said == [turn[t] EXCEPT !.told = "reply", !.excused = opens]
      checked == StaleFirst(Grounded(Voiced(said)))
  IN /\ turn[t].step = "check" /\ (opens => turn[t].stale)
     /\ IF failed THEN ~said.clean /\ said.retries < Retries ELSE said.clean \/ said.retries = Retries
     /\ Put(t, [checked EXCEPT !.step = IF Logs(said, checked) THEN "log" ELSE "user"])
     /\ UNCHANGED <<sessions, rows, summed, opinions, due, garbled>>

(* _log_opinion: an insert that fails is only logged.                      *)
Log(t, ok, gradable) ==
  /\ turn[t].step = "log"
  /\ opinions' = IF ok THEN Append(opinions, [turn |-> t, gradable |-> gradable, graded |-> FALSE]) ELSE opinions
  /\ Put(t, [turn[t] EXCEPT !.step = "user", !.opinion = IF ok THEN Len(opinions) + 1 ELSE 0])
  /\ UNCHANGED <<sessions, rows, summed, due, garbled>>

Say(t) ==
  /\ turn[t].step \in {"user", "assistant"}
  /\ rows' = Append(rows, [chat |-> turn[t].chat, role |-> turn[t].step])
  /\ Put(t, [turn[t] EXCEPT !.step = IF @ = "user" THEN "assistant" ELSE "sum"])
  /\ UNCHANGED <<sessions, summed, opinions, due, garbled>>

(* _maybe_summarize: every Every rows the summary is written anew from the *)
(* last rows of the chat, and what the old one had of earlier rows is      *)
(* gone; a call that fails, or says nothing, leaves the old one.  The turn *)
(* has ended: nothing of it is used or changed any more.                   *)
(* Mutant: the summary is written when the window is already full.         *)
SummaryDueLate(count) == count > 0 /\ count % (2 * Every) = 0
SummaryDue(count) == count > 0 /\ count % Every = 0

Written(chat) ==
  {i \in DOMAIN rows : /\ rows[i].chat = chat
                       /\ Cardinality({j \in i .. Len(rows) : rows[j].chat = chat}) <= Transcript}

Summarize(t, ok) ==
  /\ turn[t].step = "sum"
  /\ summed' = IF ok /\ SummaryDue(Cardinality(RowsIn(turn[t].chat)))
               THEN (summed \ RowsIn(turn[t].chat)) \cup Written(turn[t].chat) ELSE summed
  /\ Put(t, [NoTurn EXCEPT !.step = "final"])
  /\ UNCHANGED <<sessions, rows, opinions, due, garbled>>

(* An exception anywhere in the turn: the stream ends with "buddy error".  *)
(* An opinion it has logged stays on record, though the reply is not told. *)
Fails(t) ==
  /\ turn[t].step \notin {"unasked", "final", "error"}
  /\ Put(t, [turn[t] EXCEPT !.step = "error"])
  /\ UNCHANGED <<sessions, rows, summed, opinions, due, garbled>>

-----------------------------------------------------------------------------
(* grade_pending: the oldest ungraded opinions, one at a time; one that    *)
(* cannot be graded stays as it is and is taken again the next night.      *)
Ungraded == {i \in DOMAIN opinions : ~opinions[i].graded}

Pending == {i \in Ungraded : Cardinality({j \in Ungraded : j < i}) < Batch}

Night ==
  /\ due = {} /\ Ungraded # {} /\ due' = Pending
  /\ UNCHANGED <<turn, sessions, rows, summed, opinions, garbled>>

(* Mutant: an opinion that cannot be graded ends the run.                  *)
LeftAborted(i) == IF opinions[i].gradable THEN due \ {i} ELSE {}
Left(i) == due \ {i}

Grade ==
  /\ due # {}
  /\ LET i == Min(due)
     IN /\ due' = Left(i)
        /\ opinions' = [opinions EXCEPT ![i].graded = opinions[i].gradable]
  /\ UNCHANGED <<turn, sessions, rows, summed, garbled>>

(* The update of a row raises and ends the run, the row written or not.    *)
Abort(written) ==
  /\ due # {} /\ due' = {}
  /\ LET i == Min(due)
     IN /\ opinions[i].gradable
        /\ opinions' = [opinions EXCEPT ![i].graded = written]
  /\ UNCHANGED <<turn, sessions, rows, summed, garbled>>

AgentInit ==
  /\ turn = [t \in Turns |-> NoTurn]
  /\ sessions = 0 /\ rows = <<>> /\ summed = {} /\ opinions = <<>> /\ due = {} /\ garbled = {}
=============================================================================
