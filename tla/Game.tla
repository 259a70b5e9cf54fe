---------------------------------- MODULE Game ----------------------------------
(****************************************************************************)
(* The game, the client for which the server is made: callers who walk      *)
(* through rooms and hear each other (actor/caller.py, location.py and the  *)
(* World of actor.py over actor/sequencer.py).                              *)
(*                                                                          *)
(* There is a Caller for each line of the trunk.  It listens, and again as  *)
(* soon as its call is accepted.  The reactor is a single thread: handling  *)
(* an event is one action.  Commands and events travel in order, but they   *)
(* cross; what the server makes of a command is a summary of the modules    *)
(* Line and Exchange.  Callers and devices (lines) are numbered, 0 stands   *)
(* for None.  What is only heard is left out, so are dialogs (module Mail). *)
(****************************************************************************)
EXTENDS Naturals, Sequences, FiniteSets, SequencesExt

CONSTANTS Lines,      \* of the trunk, and Callers
          Rooms, ConferenceRooms, Entry,
          Doors,      \* pairs of rooms
          Shortcuts,  \* the rooms that have one
          MaxCalls,   \* bound on the calls that arrive
          MaxInputs,  \* bound on keys and calls, which count twice
          MaxTalks,   \* bound on the messages that are recorded
          MaxOpened,  \* bound on the background channels that are opened
          NoRoom,     \* None
          Troubles    \* what may go wrong

(* "busy": a Caller that is in a call is given another                      *)
(* "crossed": a call is hung up before ACPT has reached the server          *)
(* "refused": ACPT is answered with an error, which nobody looks at         *)
(* "timeout": the timer between the digits of a shortcut, which is started  *)
(*    without its argument                                                  *)
(* "doubled": a second caller enters a conference before BGRO is answered   *)
(* "empty": the last caller has left when BGRO is answered                  *)
(* "closing": a caller enters before BGRC is answered                       *)
AllTroubles ==
    {"busy", "crossed", "refused", "timeout", "doubled", "empty", "closing"}

ASSUME GameAssumption ==
    /\ Lines \in Nat \ {0}
    /\ ConferenceRooms \cup Shortcuts \cup {Entry} \subseteq Rooms
    /\ Doors \subseteq Rooms \X Rooms /\ NoRoom \notin Rooms
    /\ {MaxCalls, MaxInputs, MaxTalks, MaxOpened} \subseteq Nat
    /\ Troubles \subseteq AllTroubles

VARIABLES game,     \* the Callers, the World, the rooms, and what was sent
          server,   \* its lines, its queue of listeners, background channels
          events,   \* what the server has sent
          talks,    \* the messages recorded so far, by number
          heard,    \* the messages with the rooms they were played in (history)
          counts,   \* calls and keys so far
          error,    \* a handler has raised an exception (history)
          troubles  \* the troubles there were so far (history)

vars == <<game, server, events, talks, heard, counts, error, troubles>>

Line == 1..Lines
Caller == 1..Lines
CallerOrNone == 0..Lines
Sender == 0..Lines \* of a transaction: 0 is the game's Sequencer itself

(* star: tm_starhash, which "first" waits for the first digit, "digit" for  *)
(* the next and is "stale" when the latter timer has failed; key: the       *)
(* digits (bf_starhash, which is never cleared) have not been looked up yet *)
Data == [move : BOOLEAN, star : {"none", "first", "digit", "stale"},
         key : BOOLEAN, talk : 0..MaxTalks]
FreshData == [move |-> FALSE, star |-> "none", key |-> FALSE, talk |-> 0]
NoData == [FreshData EXCEPT !.talk = MaxTalks + 1]

CallerType == [device : 0..Lines, is_disconnected : BOOLEAN,
               room : Rooms \cup {NoRoom}, data : Data \cup {NoData}]

Commands ==
    [cmd : {"LSTN"}, device : {0}, sender : Caller]
    \cup [cmd : {"ACPT", "DISC"}, device : Line, sender : Sender]
    \cup [cmd : {"BGRO"}, room : ConferenceRooms, device : {0}]
    \cup [cmd : {"BGRC"}, room : ConferenceRooms, device : 1..MaxOpened]

Events ==
    [action : {"LSTN", "ACPT", "DISC", "RDIS"}, device : Line, sender : Sender]
    \cup [action : {"BGRO", "BGRC"}, room : ConferenceRooms,
          device : 1..MaxOpened]
    \cup [action : {"MLCA"}, talk : 1..MaxTalks]

LineType == [phase : {"free", "offered", "accepting", "up", "hungup", "ending",
                      "dead"},
             sender : Sender] \* of LSTN, ACPT or DISC

TypeOK ==
    /\ game \in [caller : [Caller -> CallerType],
                 devices : [Line -> CallerOrNone],
                 callers : [0..Lines -> CallerOrNone],
                 rooms : [Rooms -> Seq(Caller)],
                 bg_dev : [ConferenceRooms -> 0..MaxOpened],
                 sent : Seq(Commands)]
    /\ server \in [line : [Line -> LineType], listening : Seq(Caller),
                   open : [ConferenceRooms -> SUBSET (1..MaxOpened)],
                   opened : 0..MaxOpened]
    /\ events \in Seq(Events)
    /\ talks \in Seq([caller : Caller, device : Line, room : Rooms,
                      on : BOOLEAN])
    /\ heard \subseteq (1..MaxTalks) \X Rooms
    /\ counts \in [calls : 0..MaxCalls, keys : 0..MaxInputs]
    /\ error \in BOOLEAN
    /\ troubles \subseteq Troubles

(* World.start: everybody listens.                                          *)
Init ==
    /\ game = [caller |-> [c \in Caller |->
                   [device |-> 0, is_disconnected |-> FALSE, room |-> NoRoom,
                    data |-> NoData]],
               devices |-> [l \in Line |-> 0],
               callers |-> [l \in 0..Lines |-> 0],
               rooms |-> [r \in Rooms |-> << >>],
               bg_dev |-> [r \in ConferenceRooms |-> 0],
               sent |-> << >>]
    /\ server = [line |-> [l \in Line |-> [phase |-> "free", sender |-> 0]],
                 listening |-> [c \in Caller |-> c],
                 open |-> [r \in ConferenceRooms |-> {}], opened |-> 0]
    /\ events = << >>
    /\ talks = << >>
    /\ heard = {}
    /\ counts = [calls |-> 0, keys |-> 0]
    /\ error = FALSE
    /\ troubles = {}

Troubled(what) == what \subseteq Troubles /\ troubles' = troubles \cup what

TroubleIf(condition, what) == Troubled(IF condition THEN {what} ELSE {})

----------------------------------------------------------------------------
(*          The server (Line and Exchange) and the callers' phones          *)

(* A call is given to the Caller that has listened longest.  Without any it *)
(* is rejected.                                                             *)
Arrives(l) ==
    LET c == Head(server.listening)
    IN /\ counts.calls < MaxCalls
       /\ 2 * counts.calls + counts.keys + 2 <= MaxInputs
       /\ server.line[l].phase = "free" /\ server.listening # << >>
       /\ server' = [server EXCEPT !.line[l] = [phase |-> "offered", sender |-> c],
                                   !.listening = Tail(@)]
       /\ events' = Append(events, [action |-> "LSTN", device |-> l, sender |-> c])
       /\ counts' = [counts EXCEPT !.calls = @ + 1]
       /\ TroubleIf(\E k \in Line \ {l} : /\ server.line[k].sender = c
                                         /\ server.line[k].phase # "free", "busy")
       /\ UNCHANGED <<game, talks, heard, error>>

(* RDIS; a recording is stopped, and completed later.                       *)
HangsUp(l) ==
    /\ server.line[l].phase \in {"offered", "up"}
    /\ server' = [server EXCEPT !.line[l].phase = "hungup"]
    /\ events' = Append(events, [action |-> "RDIS", device |-> l, sender |-> 0])
    /\ TroubleIf(server.line[l].phase = "offered", "crossed")
    /\ UNCHANGED <<game, talks, heard, counts, error>>

Reply(action, l) == [action |-> action, device |-> l,
                     sender |-> server.line[l].sender]

AcceptDone(l) ==
    /\ server.line[l].phase = "accepting"
    /\ \E ok \in BOOLEAN :
        /\ server' = [server EXCEPT !.line[l].phase = IF ok THEN "up" ELSE "free"]
        /\ TroubleIf(~ok, "refused")
    /\ events' = Append(events, Reply("ACPT", l))
    /\ UNCHANGED <<game, talks, heard, counts, error>>

(* When all channels are idle                                               *)
DisconnectDone(l) ==
    /\ server.line[l].phase = "ending"
    /\ \A t \in DOMAIN talks : talks[t].device = l => ~talks[t].on
    /\ server' = [server EXCEPT !.line[l].phase = "free"]
    /\ events' = Append(events, Reply("DISC", l))
    /\ UNCHANGED <<game, talks, heard, counts, error, troubles>>

(* The recording is long enough, or it is stopped.                          *)
Recorded(t) ==
    /\ talks[t].on
    /\ talks' = [talks EXCEPT ![t].on = FALSE]
    /\ events' = Append(events, [action |-> "MLCA", talk |-> t])
    /\ UNCHANGED <<game, server, heard, counts, error, troubles>>

(* ACPT and DISC are refused while one of them is pending, in words that    *)
(* the game does not understand and ignores.  An ACPT that comes too late   *)
(* is pending ever after.                                                   *)
Accepts(command) ==
    LET l == command.device
        phase == server.line[l].phase
    IN /\ server' = CASE phase = "offered" ->
                           [server EXCEPT !.line[l] = [phase |-> "accepting",
                                                       sender |-> command.sender]]
                      [] phase = "hungup" ->
                           [server EXCEPT !.line[l].phase = "dead"]
                      [] OTHER -> server
       /\ events' = IF phase = "hungup"
                    THEN Append(events, [action |-> "ACPT", device |-> l,
                                         sender |-> command.sender])
                    ELSE events

HangsUpLine(command) ==
    LET l == command.device
    IN /\ IF server.line[l].phase \in {"offered", "up", "hungup"}
          THEN server' = [server EXCEPT !.line[l] = [phase |-> "ending",
                                                     sender |-> command.sender]]
          ELSE UNCHANGED server
       /\ UNCHANGED events

Opens(command) ==
    /\ server.opened < MaxOpened
    /\ server' = [server EXCEPT !.open[command.room] = @ \cup {server.opened + 1},
                                !.opened = @ + 1]
    /\ events' = Append(events, [action |-> "BGRO", room |-> command.room,
                                 device |-> server.opened + 1])

(* A channel that is unknown is answered in other words.                    *)
Closes(command) ==
    /\ server' = [server EXCEPT !.open[command.room] = @ \ {command.device}]
    /\ events' = IF command.device \in server.open[command.room]
                 THEN Append(events, [action |-> "BGRC", room |-> command.room,
                                      device |-> command.device])
                 ELSE events

Serves ==
    /\ game.sent # << >>
    /\ LET command == Head(game.sent)
       IN \/ command.cmd = "LSTN"
             /\ server' = [server EXCEPT !.listening = Append(@, command.sender)]
             /\ UNCHANGED events
          \/ command.cmd = "ACPT" /\ Accepts(command)
          \/ command.cmd = "DISC" /\ HangsUpLine(command)
          \/ command.cmd = "BGRO" /\ Opens(command)
          \/ command.cmd = "BGRC" /\ Closes(command)
    /\ game' = [game EXCEPT !.sent = Tail(@)]
    /\ UNCHANGED <<talks, heard, counts, error, troubles>>

----------------------------------------------------------------------------
(*            Locations: what a handler makes of game, in parts             *)

Sends(g, command) == [g EXCEPT !.sent = Append(@, command)]

(* Sequencer.send forgets the device of a DISC.                             *)
SendsDISC(g, device, sender) ==
    Sends([g EXCEPT !.devices = [l \in Line |-> IF l = device THEN 0 ELSE @[l]]],
          [cmd |-> "DISC", device |-> device, sender |-> sender])

Background(cmd, room, device) == [cmd |-> cmd, room |-> room, device |-> device]

(* ConferenceRoom.leave                                                     *)
ClosesBackground(g, r) ==
    IF r \in ConferenceRooms /\ g.bg_dev[r] # 0 /\ g.rooms[r] = << >>
    THEN Sends(g, Background("BGRC", r, g.bg_dev[r])) ELSE g

(* Location.leave; list.remove takes the first of its kind.                 *)
Leaves(g, c) ==
    LET r == g.caller[c].room
    IN ClosesBackground(
           [g EXCEPT !.rooms[r] = RemoveFirst(@, c),
                     !.caller[c].room = NoRoom,
                     !.caller[c].data = NoData], r)

(* Room.enter and ConferenceRoom.enter                                      *)
Enters(g, c, r) ==
    LET inside == [g EXCEPT !.rooms[r] = Append(@, c),
                            !.caller[c].room = r,
                            !.caller[c].data = FreshData]
    IN IF r \in ConferenceRooms /\ g.bg_dev[r] = 0
       THEN Sends(inside, Background("BGRO", r, 0)) ELSE inside

(* leave() asks everybody who is in the room for an iterator, ...           *)
LeaveFails(g, c) ==
    /\ g.caller[c].room # NoRoom
    /\ \E i \in DOMAIN g.rooms[g.caller[c].room] :
           g.caller[g.rooms[g.caller[c].room][i]].data = NoData

(* ... and World.leave deletes the device.                                  *)
DisconnectFails(g, c) ==
    /\ ~g.caller[c].is_disconnected
    /\ LeaveFails(g, c) \/ g.callers[g.caller[c].device] = 0

Forgets(g, c) == [g EXCEPT !.caller[c].device = 0, !.caller[c].room = NoRoom]

\* Variant: leaves the world, but not the room
DisconnectedInPlace(g, c) ==
    LET gone == [g EXCEPT !.caller[c].is_disconnected = TRUE]
    IN Forgets([gone EXCEPT !.callers[g.caller[c].device] = 0], c)

(* Caller.disconnected, as far as it comes                                  *)
Disconnected(g, c) ==
    LET gone == [g EXCEPT !.caller[c].is_disconnected = TRUE]
        left == IF g.caller[c].room = NoRoom THEN gone ELSE Leaves(gone, c)
    IN Forgets(IF g.caller[c].is_disconnected \/ LeaveFails(g, c) THEN gone
               ELSE [left EXCEPT !.callers[g.caller[c].device] = 0], c)

(* An exception: Sequencer.parse sends DISC and disconnects the receiver,   *)
(* which does not fail a second time.                                       *)
Rescued(g, c, device) == Disconnected(SendsDISC(g, device, 0), c)

(* Troubles with the background channel, seen from what was sent            *)
IsPending(g, cmd, r) ==
    \/ \E i \in DOMAIN g.sent : g.sent[i].cmd = cmd /\ g.sent[i].room = r
    \/ \E i \in DOMAIN events : events[i].action = cmd /\ events[i].room = r

BackgroundTroubles(g, from, to) ==
    {"doubled" : x \in {r \in {to} \cap ConferenceRooms :
        g.bg_dev[r] = 0 /\ IsPending(g, "BGRO", r)}}
    \cup
    {"closing" : x \in {r \in {to} \cap ConferenceRooms :
        g.bg_dev[r] # 0 /\ \/ IsPending(g, "BGRC", r)
                           \/ from = r /\ Len(g.rooms[r]) = 1}}

----------------------------------------------------------------------------
(*                               The handlers                               *)

Handles(action) == events # << >> /\ Head(events).action = action

Handled == events' = Tail(events)

(* Sequencer.parse knows the device from now on; Caller.LSTN                *)
LSTN ==
    LET l == Head(events).device
        c == Head(events).sender
    IN /\ Handles("LSTN") /\ Handled
       /\ game' = Sends([game EXCEPT !.devices[l] = c,
                                     !.caller[c].device = l,
                                     !.caller[c].is_disconnected = FALSE],
                        [cmd |-> "ACPT", device |-> l, sender |-> c])
       /\ UNCHANGED <<server, talks, heard, counts, error, troubles>>

\* Variant: listens when the call is over
ListensNot(g, c) == g

(* Caller.send says nothing for a caller that is disconnected.              *)
ListensAgain(g, c) ==
    IF g.caller[c].is_disconnected THEN g
    ELSE Sends(g, [cmd |-> "LSTN", device |-> 0, sender |-> c])

(* Caller.ACPT, whatever the status; World.enter                            *)
ACPT ==
    LET c == Head(events).sender
        g == ListensAgain(game, c)
    IN /\ Handles("ACPT") /\ Handled
       /\ game' = Enters([g EXCEPT !.callers[g.caller[c].device] = c], c, Entry)
       /\ Troubled(BackgroundTroubles(game, NoRoom, Entry))
       /\ UNCHANGED <<server, talks, heard, counts, error>>

(* disconnected() of a handler, with the exception it may raise              *)
Parted(g, c, device) ==
    IF DisconnectFails(g, c) THEN Rescued(Disconnected(g, c), c, device)
    ELSE Disconnected(g, c)

\* Variant: forgets the device before it hangs up
HangsUpNothing(g, c) == g

HangsUpOn(g, c) ==
    IF g.caller[c].is_disconnected THEN g
    ELSE SendsDISC(g, g.caller[c].device, c)

(* Caller.RDIS, of the caller that has the device                           *)
RDIS ==
    LET l == Head(events).device
        c == game.devices[l]
    IN /\ Handles("RDIS") /\ Handled
       /\ IF c = 0 THEN UNCHANGED <<game, error>>
          ELSE LET g == HangsUpOn(game, c)
               IN /\ game' = Parted(g, c, l)
                  /\ error' = (error \/ DisconnectFails(g, c))
       /\ UNCHANGED <<server, talks, heard, counts, troubles>>

(* Caller.DISC; the answer to a DISC of Sequencer.parse is Sequencer.DISC.  *)
DISC ==
    LET l == Head(events).device
        c == Head(events).sender
    IN /\ Handles("DISC") /\ Handled
       /\ IF c = 0 THEN UNCHANGED <<game, error>>
          ELSE /\ game' = Parted(game, c, l)
               /\ error' = (error \/ DisconnectFails(game, c))
       /\ UNCHANGED <<server, talks, heard, counts, troubles>>

(* Caller.MLCA and Room.MLCA: the talk is played to the others in the room. *)
MLCA ==
    LET t == Head(events).talk
        c == talks[t].caller
        r == game.caller[c].room
    IN /\ Handles("MLCA") /\ Handled
       /\ IF r \in Rooms \ ConferenceRooms /\ game.caller[c].data.talk = t
          THEN /\ game' = [game EXCEPT !.caller[c].data.talk = 0]
               /\ heard' = heard \cup {<<t, r>>}
          ELSE UNCHANGED <<game, heard>>
       /\ UNCHANGED <<server, talks, counts, error, troubles>>

(* ConferenceRoom.BGRO: parse knows the channel, and it joins the           *)
(* conference.                                                              *)
BGRO ==
    LET e == Head(events)
    IN /\ Handles("BGRO") /\ Handled
       /\ game' = [game EXCEPT !.bg_dev[e.room] = e.device]
       /\ TroubleIf(game.rooms[e.room] = << >>, "empty")
       /\ UNCHANGED <<server, talks, heard, counts, error>>

(* ConferenceRoom.BGRC                                                      *)
BGRC ==
    /\ Handles("BGRC") /\ Handled
    /\ game' = [game EXCEPT !.bg_dev[Head(events).room] = 0]
    /\ UNCHANGED <<server, talks, heard, counts, error, troubles>>


----------------------------------------------------------------------------
(*                       The keys (Location.DTMF), timers                   *)

(* A key is handled when nothing else is said of its line: what others do   *)
(* in between comes before it, what its line does after it comes later.     *)
(* Nothing new begins once there was trouble, but the keys that follow a    *)
(* timeout.                                                                 *)
Presses(l) ==
    /\ 2 * counts.calls + counts.keys < MaxInputs
    /\ troubles \subseteq {"timeout"}
    /\ server.line[l].phase = "up" /\ game.devices[l] # 0
    /\ game.caller[game.devices[l]].data # NoData
    /\ \A i \in DOMAIN events :
           events[i].action \in {"LSTN", "ACPT", "DISC", "RDIS"} =>
               events[i].device # l
    /\ counts' = [counts EXCEPT !.keys = @ + 1]

DataOf(l) == game.caller[game.devices[l]].data

IsIdle(d) == ~d.move /\ d.star = "none"

SetsData(l, d) == game' = [game EXCEPT !.caller[game.devices[l]].data = d]

\* Variant: the caller keeps what it was doing
MovesWithData(g, c, dest) ==
    [Enters(Leaves(g, c), c, dest) EXCEPT !.caller[c].data = g.caller[c].data]

Moves(g, c, dest) == Enters(Leaves(g, c), c, dest)

(* Location.move, unless leave() raises an exception                        *)
MovesTo(g, l, dest) ==
    LET c == game.devices[l]
    IN IF LeaveFails(g, c)
       THEN /\ game' = Rescued(g, c, l)
            /\ error' = TRUE
            /\ UNCHANGED troubles
       ELSE /\ game' = Moves(g, c, dest)
            /\ Troubled(BackgroundTroubles(game, game.caller[c].room, dest))
            /\ UNCHANGED error

Stays(g) == game' = g /\ UNCHANGED <<error, troubles>>

\* 5, and * when nothing is pending; a second * gives the shortcut up
Five(l) ==
    /\ Presses(l) /\ IsIdle(DataOf(l))
    /\ SetsData(l, [DataOf(l) EXCEPT !.move = TRUE])
    /\ UNCHANGED <<server, events, talks, heard, error, troubles>>

Star(l) ==
    /\ Presses(l)
    /\ \/ /\ IsIdle(DataOf(l))
          /\ SetsData(l, [DataOf(l) EXCEPT !.star = "first"])
       \/ /\ DataOf(l).star \in {"first", "digit"}
          /\ SetsData(l, [DataOf(l) EXCEPT !.star = "none"])
    /\ UNCHANGED <<server, events, talks, heard, error, troubles>>

\* After 5: through a door, or there is none
Direction(l) ==
    LET c == game.devices[l]
        g == [game EXCEPT !.caller[c].data.move = FALSE]
    IN /\ Presses(l) /\ DataOf(l).move
       /\ \/ \E door \in Doors : /\ door[1] = game.caller[c].room
                                 /\ MovesTo(g, l, door[2])
          \/ Stays(g)
       /\ UNCHANGED <<server, events, talks, heard>>

\* After *: the digits of the shortcut ...
Digit(l) ==
    /\ Presses(l) /\ DataOf(l).star = "first"
    /\ SetsData(l, [DataOf(l) EXCEPT !.star = "digit", !.key = TRUE])
    /\ UNCHANGED <<server, events, talks, heard, error, troubles>>

\* ... and its end: to the room of that number, or there is none.  Digits of
\* an earlier shortcut count, even if no other has followed.
Hash(l) ==
    LET c == game.devices[l]
        g == [game EXCEPT !.caller[c].data.star = "none",
                          !.caller[c].data.key = FALSE]
    IN /\ Presses(l) /\ DataOf(l).star \in {"first", "digit"}
       /\ \/ DataOf(l).key /\ \E dest \in Shortcuts : MovesTo(g, l, dest)
          \/ Stays(g)
       /\ UNCHANGED <<server, events, talks, heard>>

(* cancel() raises AlreadyCalled; Sequencer.parse hangs up.                 *)
StaleKey(l) ==
    LET c == game.devices[l]
    IN /\ Presses(l) /\ DataOf(l).star = "stale"
       /\ game' = Rescued([game EXCEPT !.caller[c].data.star = "none"], c, l)
       /\ error' = TRUE
       /\ UNCHANGED <<server, events, talks, heard, troubles>>

(* Room.DTMF: 4 records a talk.  MLCA reaches the server before anything    *)
(* else that is sent about the line.                                        *)
Four(l) ==
    LET c == game.devices[l]
        r == game.caller[c].room
    IN /\ Presses(l) /\ IsIdle(DataOf(l)) /\ DataOf(l).talk = 0
       /\ r \in Rooms \ ConferenceRooms /\ Len(talks) < MaxTalks
       /\ talks' = Append(talks, [caller |-> c, device |-> l, room |-> r,
                                  on |-> TRUE])
       /\ SetsData(l, [DataOf(l) EXCEPT !.talk = Len(talks) + 1])
       /\ UNCHANGED <<server, events, heard, error, troubles>>

Key(l) ==
    \/ Five(l) \/ Star(l) \/ Direction(l) \/ Digit(l) \/ Hash(l)
    \/ StaleKey(l) \/ Four(l)

MoveTimer(c) ==
    /\ game.caller[c].data # NoData /\ game.caller[c].data.move
    /\ game' = [game EXCEPT !.caller[c].data.move = FALSE]
    /\ UNCHANGED <<server, events, talks, heard, counts, error, troubles>>

(* The first timer has its caller.  The second is called without: it fails  *)
(* before it can say that it is over.                                       *)
StarTimer(c) ==
    /\ game.caller[c].data # NoData
    /\ \/ /\ game.caller[c].data.star = "first"
          /\ game' = [game EXCEPT !.caller[c].data.star = "none"]
          /\ UNCHANGED troubles
       \/ /\ game.caller[c].data.star = "digit"
          /\ game' = [game EXCEPT !.caller[c].data.star = "stale"]
          /\ Troubled({"timeout"})
    /\ UNCHANGED <<server, events, talks, heard, counts, error>>

----------------------------------------------------------------------------
Handler == LSTN \/ ACPT \/ RDIS \/ DISC \/ MLCA \/ BGRO \/ BGRC

Environment ==
    \/ troubles = {} /\ \E l \in Line : Arrives(l)
    \/ troubles = {} /\ \E c \in Caller : MoveTimer(c) \/ StarTimer(c)
    \/ \E l \in Line : HangsUp(l) \/ Key(l)

Operation ==
    \/ \E l \in Line : AcceptDone(l) \/ DisconnectDone(l)
    \/ \E t \in DOMAIN talks : Recorded(t)

Server == Serves \/ Operation

Next == Environment \/ Server \/ Handler

Spec == Init /\ [][Next]_vars

(* The server and the reactor do not stop while there is something to do.   *)
(* A call that is not hung up, a key that is not pressed and a timer that   *)
(* is cancelled are no obligations.                                         *)
Fairness == WF_vars(Handler \/ Serves \/ Operation)

FairSpec == Spec /\ Fairness

----------------------------------------------------------------------------
(*                                Properties                                *)

IsAsked(c) ==
    \/ \E i \in DOMAIN game.sent : /\ game.sent[i].cmd = "LSTN"
                                   /\ game.sent[i].sender = c
    \/ \E i \in DOMAIN server.listening : server.listening[i] = c

(* The call that a Caller was given and has not been told the end of its    *)
(* ACPT                                                                     *)
IsOffered(c) ==
    \E l \in Line : /\ server.line[l].sender = c
                    /\ \/ server.line[l].phase \in {"offered", "accepting"}
                       \/ \E i \in DOMAIN events : events[i] =
                           [action |-> "ACPT", device |-> l, sender |-> c]

(* Every Caller goes on to listen: its LSTN waits at the server or is on    *)
(* its way, or it has been offered a call that is not accepted yet ("listen *)
(* on all devices", World.start).  A Caller is lost for good when its call  *)
(* is over before the answer to ACPT arrives (caller.py:87 sends nothing    *)
(* once is_disconnected is set).                                            *)
AlwaysListens == troubles = {} => \A c \in Caller : IsAsked(c) \/ IsOffered(c)

Quiet == /\ events = << >> /\ game.sent = << >>
         /\ \A l \in Line : server.line[l].phase \notin {"accepting", "ending"}

Copies(c, r) == Cardinality({i \in DOMAIN game.rooms[r] : game.rooms[r][i] = c})

(* When everything is said, the callers in the rooms are those whose line   *)
(* is up, each in one room and once, and World.callers has them by their    *)
(* devices: nobody is there twice, and no ghost is left behind by           *)
(* World.enter, Location.move and Caller.disconnected.  A conference has    *)
(* its background exactly while somebody is in it: one channel, the one     *)
(* that the room knows.                                                     *)
Present ==
    troubles = {} /\ Quiet =>
        /\ \A c \in Caller :
            LET l == game.caller[c].device
                isUp == l # 0 /\ server.line[l].phase = "up"
            IN /\ \A r \in Rooms :
                   Copies(c, r) = IF isUp /\ game.caller[c].room = r
                                  THEN 1 ELSE 0
               /\ isUp <=> game.caller[c].room # NoRoom
               /\ isUp <=> \E k \in Line : game.callers[k] = c
               /\ isUp => game.callers[l] = c /\ game.devices[l] = c
        /\ \A r \in ConferenceRooms :
            server.open[r] = IF game.rooms[r] = << >> THEN {}
                             ELSE {game.bg_dev[r]}

(* No handler raises an exception: leave() finds the data of everybody in   *)
(* the room, World.leave the device, and cancel() a timer that is pending.  *)
(* And a talk is played in the room where it was recorded and in no other,  *)
(* wherever its speaker is when the recording is completed.                 *)
Sound ==
    /\ TypeOK
    /\ error => troubles # {}
    /\ \A h \in heard : h[2] = talks[h[1]].room

HungUp == {l \in Line : server.line[l].phase = "hungup"}

(* A caller that hangs up is hung up on: sooner or later no line waits for  *)
(* the game to say DISC, unless there was trouble (Caller.RDIS).            *)
LinesClear == HungUp # {} ~> (HungUp = {} \/ troubles # {})

=============================================================================
