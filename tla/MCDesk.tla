------------------------------- MODULE MCDesk -------------------------------
(* The desk, with: the watcher over two days; its coroutines at its rate   *)
(* limits; a page and failures; the checklist; chats, alone and at once.   *)
EXTENDS Desk

CONSTANTS bull, bear

Nothing == [days |-> 1, slots |-> 0, turns |-> 0, forms |-> 0, events |-> 0, hearts |-> 0,
            commands |-> 0, fails |-> 0, restarts |-> 0, nears |-> 0, blanks |-> 0,
            pages |-> FALSE, watcher |-> FALSE, overlap |-> FALSE]
Watching == [Nothing EXCEPT !.watcher = TRUE, !.slots = 1]

TwoDays == [Watching EXCEPT !.days = 2, !.slots = LastSlot, !.commands = 1]
Outages == [Watching EXCEPT !.hearts = 3, !.restarts = 1]
Busy == [Watching EXCEPT !.slots = 2, !.events = 1, !.forms = 1, !.nears = 1]
Muted == [Watching EXCEPT !.events = 1, !.nears = 1, !.commands = 2]
Flips == [Watching EXCEPT !.events = 2, !.slots = 2, !.fails = 1]
Shown == [Watching EXCEPT !.events = 1, !.nears = 1, !.pages = TRUE]
Checklist == [Nothing EXCEPT !.forms = 3]
Alone == [Nothing EXCEPT !.turns = 5]
AtOnce == [Nothing EXCEPT !.turns = 2, !.overlap = TRUE]
BehindOnce == [Nothing EXCEPT !.turns = 1, !.hearts = 1, !.fails = 2]
Graded == [Nothing EXCEPT !.turns = 2, !.blanks = 1]

MCScenarios == {TwoDays, Outages, Busy, Muted, Flips, Shown, Checklist, Alone, AtOnce, BehindOnce, Graded}
=============================================================================
