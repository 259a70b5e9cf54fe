------------------------------- MODULE Exchange --------------------------------
(****************************************************************************)
(* The server as a whole: clients (sequencer/interface.cpp) that listen for *)
(* calls and make them, the queues in which they wait, and the lines of a   *)
(* trunk (sequencer/configuration.cpp, onIncoming and connect of            *)
(* sequencer/sequence.cpp).                                                 *)
(*                                                                          *)
(* Three threads share it.  The interface thread reads the commands of all  *)
(* clients and tidies up after one that is lost; the trunk thread brings    *)
(* the calls of all lines; a media thread tells of molecules.  An action is *)
(* what a thread does between two mutexes: each queue's,                    *)
(* TrunkConfiguration::mutex, each Sequencer's, each connection's m_mutex.  *)
(*                                                                          *)
(* How one line answers, dials and clears is in module Line; here a call is *)
(* up from the moment it is somebody's.  A listener is told apart by the    *)
(* number of its LSTN.  All listeners of a trunk are in the queue of the    *)
(* root DDI: LSTN never sets the address that DDIs are found by.            *)
(****************************************************************************)
EXTENDS Naturals, Sequences, FiniteSets, FiniteSetsExt, Lists

CONSTANTS Lines,      \* sequencers[0 .. lines - 1], numbered from 1
          Clients,    \* the connections that clients make
          NoClient,   \* the null pointer
          MaxListens, \* bound on the LSTN commands
          MaxDials,   \* bound on the CONN commands
          MaxCalls,   \* bound on the calls that arrive
          MaxSends,   \* bound on what is accepted and played
          Troubles    \* what may go wrong

(* "deadlock": CONN holds the trunk's mutex and wants a line's, a call that *)
(*    arrives on that line holds the line's and wants the trunk's           *)
(* "gone": a call is given to a client that was lost since it was taken out *)
(*    of the queue, or since it dialed                                      *)
(* "raced": m_calls changes while lost_connection() iterates over it        *)
(* "dropped": the network drops a call, DISC is answered without            *)
(*    disconnectDone(), and the device stays in m_calls                     *)
(* "mistaken": DISC looks its line up, or lost_connection() forgets the     *)
(*    client, and when it hangs up the line has another client's call       *)
(* "late": the client is lost after a thread has tested m_interface, or set *)
(*    it, and before it sends, without the line's mutex                     *)
AllTroubles == {"deadlock", "gone", "raced", "dropped", "mistaken", "late"}

ASSUME ExchangeAssumption ==
    /\ Lines \in Nat \ {0}
    /\ NoClient \notin Clients
    /\ {MaxListens, MaxDials, MaxCalls, MaxSends} \subseteq Nat
    /\ Troubles \subseteq AllTroubles

VARIABLES queue,    \* the trunk's queue and gClientQueue
          line,     \* the Sequencers with their calls
          conn,     \* the InterfaceConnections
          worker,   \* the trunk thread in onIncoming()
          iface,    \* the interface thread
          sending,  \* the line whose client a thread is about to tell, or 0
          counts,   \* CONN, calls, and ACPT or MLCA so far
          listens,  \* the client of each LSTN so far (history)
          served,   \* the listeners that were given a call (history)
          fault,    \* a thread used a deleted connection, or worse
          troubles  \* the troubles there were so far (history)

vars == <<queue, line, conn, worker, iface, sending, counts, listens, served,
          fault, troubles>>

Line == 1..Lines
Queues == {"trunk", "global"}
Senders == {"trunk", "media"} \* the threads that send without a mutex
Item == [id : 1..MaxListens, client : Clients]
NoItem == [id |-> 0, client |-> NoClient]
ClientOrNone == Clients \cup {NoClient}

(* phase: of the call, client: m_interface, dialer: m_connectComplete,      *)
(* asked: m_id, the client has sent DISC.                                   *)
LineType == [phase : {"free", "ringing", "dialing", "up", "hungup", "ending"},
             client : ClientOrNone, dialer : ClientOrNone, asked : BOOLEAN]

ConnType == [state : {"open", "lost", "gone"}, calls : SUBSET Line]

(* seen: the listeners that were queued when the call came (history).       *)
WorkerType == [pc : {"idle", "trunk", "global", "offer", "reject"},
               line : Line \cup {0}, item : Item \cup {NoItem},
               seen : SUBSET (1..MaxListens)]

IfaceType == [pc : {"idle", "connecting", "found", "queues", "telling",
                    "hanging", "deleting"},
              client : ClientOrNone, line : 0..Lines + 1]

TypeOK ==
    /\ queue \in [Queues -> Seq(Item)]
    /\ line \in [Line -> LineType]
    /\ \A l \in Line : line[l].asked => line[l].phase = "ending"
    /\ conn \in [Clients -> ConnType]
    /\ worker \in WorkerType
    /\ iface \in IfaceType
    /\ sending \in [Senders -> Line \cup {0}]
    /\ counts \in [dials : 0..MaxDials, calls : 0..MaxCalls, sends : 0..MaxSends]
    /\ listens \in Seq(Clients) /\ Len(listens) <= MaxListens
    /\ served \subseteq 1..MaxListens
    /\ fault \in BOOLEAN
    /\ troubles \subseteq Troubles

IdleWorker == [pc |-> "idle", line |-> 0, item |-> NoItem, seen |-> {}]
IdleIface == [pc |-> "idle", client |-> NoClient, line |-> 0]

FreeLine == [phase |-> "free", client |-> NoClient, dialer |-> NoClient,
             asked |-> FALSE]

Init ==
    /\ queue = [q \in Queues |-> << >>]
    /\ line = [l \in Line |-> FreeLine]
    /\ conn = [c \in Clients |-> [state |-> "open", calls |-> {}]]
    /\ worker = IdleWorker
    /\ iface = IdleIface
    /\ sending = [t \in Senders |-> 0]
    /\ counts = [dials |-> 0, calls |-> 0, sends |-> 0]
    /\ listens = << >>
    /\ served = {}
    /\ fault = FALSE
    /\ troubles = {}

Calm == UNCHANGED <<fault, troubles>>

Trouble(what) == what \in Troubles /\ troubles' = troubles \cup {what}

Queued(q) == {queue[q][i].id : i \in DOMAIN queue[q]}

\* Sequencer::m_mutex, which onIncoming() holds to its end
LineIsLocked(l) == worker.line = l

\* TrunkConfiguration::mutex, which connect() holds to its end
TrunkIsLocked == iface.pc = "connecting"

TrunkThreadIsFree == worker.pc = "idle" /\ sending["trunk"] = 0

----------------------------------------------------------------------------
(*                      The far end, and the driver                         *)

Rings(l) ==
    /\ counts.calls < MaxCalls
    /\ line[l].phase = "free"
    /\ line' = [line EXCEPT ![l].phase = "ringing"]
    /\ counts' = [counts EXCEPT !.calls = @ + 1]
    /\ UNCHANGED <<queue, conn, worker, iface, sending, listens, served>> /\ Calm

(* lost_connection() is iterating over the calls of c.                      *)
Iterates(c) ==
    iface.pc \in {"telling", "hanging", "deleting"} /\ iface.client = c

IsGone(c) == c # NoClient /\ conn[c].state = "gone"

(* m_interface->add() and send().  std::map has no lock against the         *)
(* iteration, which may miss the call.                                      *)
Gives(l, c) ==
    /\ line' = [line EXCEPT ![l] = [FreeLine EXCEPT !.phase = "up", !.client = c]]
    /\ conn' = [conn EXCEPT ![c].calls = @ \cup {l}]
    /\ fault' = IsGone(c)
    /\ IF Iterates(c) THEN Trouble("raced") ELSE UNCHANGED troubles

----------------------------------------------------------------------------
(*                            The trunk thread                              *)

(* Sequencer::connectRequest and the start of onIncoming()                  *)
ConnectRequest(l) ==
    /\ TrunkThreadIsFree
    /\ line[l].phase = "ringing"
    /\ worker' = [pc |-> "trunk", line |-> l, item |-> NoItem,
                  seen |-> Queued("trunk") \cup Queued("global")]
    /\ UNCHANGED <<queue, line, conn, iface, sending, counts, listens, served>> /\ Calm

(* ClientQueue::dequeue                                                     *)
Dequeue(q, otherwise) ==
    IF queue[q] = << >>
    THEN worker' = [worker EXCEPT !.pc = otherwise] /\ UNCHANGED queue
    ELSE /\ worker' = [worker EXCEPT !.pc = "offer", !.item = Head(queue[q])]
         /\ queue' = [queue EXCEPT ![q] = Tail(@)]

\* Variant: rejects a call that nobody listens for on its trunk
AfterTrunkRejects == "reject"

AfterTrunk == "global"

(* TrunkConfiguration::dequeue, with its mutex: the DDI of the call, which  *)
(* nobody has, and then the root.                                           *)
DequeuesTrunk ==
    /\ worker.pc = "trunk"
    /\ ~TrunkIsLocked
    /\ Dequeue("trunk", AfterTrunk)
    /\ UNCHANGED <<line, conn, iface, sending, counts, listens, served>> /\ Calm

(* No DDI contains the called address: gClientQueue.                        *)
DequeuesGlobal ==
    /\ worker.pc = "global"
    /\ Dequeue("global", "reject")
    /\ UNCHANGED <<line, conn, iface, sending, counts, listens, served>> /\ Calm

(* The rest of onIncoming(): the call is the listener's.                    *)
Offers ==
    /\ worker.pc = "offer"
    /\ Gives(worker.line, worker.item.client)
    /\ served' = served \cup {worker.item.id}
    /\ worker' = IdleWorker
    /\ UNCHANGED <<queue, iface, sending, counts, listens>>

Rejects ==
    /\ worker.pc = "reject"
    /\ line' = [line EXCEPT ![worker.line].phase = "ending"]
    /\ worker' = IdleWorker
    /\ UNCHANGED <<queue, conn, iface, sending, counts, listens, served>> /\ Calm

(* Sequencer::release() forgets the call, but not m_interface.              *)
Released(l) ==
    [line[l] EXCEPT !.phase = "free", !.dialer = NoClient, !.asked = FALSE]

(* Sequencer::connectDone: the call that was dialed is up, or was not       *)
(* answered.  The client is told of it after the unlock.                    *)
ConnectDone(l) ==
    /\ TrunkThreadIsFree
    /\ line[l].phase = "dialing"
    /\ \/ Gives(l, line[l].dialer)
       \/ /\ line' = [line EXCEPT ![l] =
                          [FreeLine EXCEPT !.client = line[l].dialer]]
          /\ UNCHANGED <<conn, troubles>>
          /\ fault' = IsGone(line[l].dialer)
    /\ sending' = [sending EXCEPT !["trunk"] = l]
    /\ UNCHANGED <<queue, worker, iface, counts, listens, served>>

(* acceptDone() of the trunk thread, and sendMLCA() of a media thread: they *)
(* look whether there is a client, ...                                      *)
HasCall(l) == line[l].phase \in {"up", "hungup"} \/ line[l].asked

Tests(t, l) ==
    /\ t = "trunk" => TrunkThreadIsFree /\ line[l].phase = "up"
    /\ counts.sends < MaxSends /\ sending[t] = 0
    /\ HasCall(l) /\ line[l].client # NoClient
    /\ sending' = [sending EXCEPT ![t] = l]
    /\ counts' = [counts EXCEPT !.sends = @ + 1]
    /\ UNCHANGED <<queue, line, conn, worker, iface, listens, served>> /\ Calm

(* ... and send, without the line's mutex: whoever is m_interface by now.   *)
Sends(t) ==
    /\ sending[t] # 0
    /\ sending' = [sending EXCEPT ![t] = 0]
    /\ LET c == line[sending[t]].client IN fault' = (c = NoClient \/ IsGone(c))
    /\ UNCHANGED <<queue, line, conn, worker, iface, counts, listens, served, troubles>>

(* Sequencer::disconnectRequest: RDIS                                       *)
DisconnectRequest(l) ==
    /\ TrunkThreadIsFree
    /\ line[l].phase = "up"
    /\ line' = [line EXCEPT ![l].phase = "hungup"]
    /\ fault' = IsGone(line[l].client)
    /\ UNCHANGED <<queue, conn, worker, iface, sending, counts, listens, served, troubles>>

(* The same, from EV_IDLE that nobody asked for: there is no call any more, *)
(* and nothing that will take it out of m_calls.                            *)
Drops(l) ==
    /\ TrunkThreadIsFree
    /\ line[l].phase \in {"up", "hungup"}
    /\ line' = [line EXCEPT ![l] = Released(l)]
    /\ fault' = IsGone(line[l].client)
    /\ Trouble("dropped")
    /\ UNCHANGED <<queue, conn, worker, iface, sending, counts, listens, served>>

\* Variant: the connection keeps the line
CallsAfterwards(c, l) == conn[c].calls

CallsAfter(c, l) == conn[c].calls \ {l}

(* Sequencer::disconnectDone answers DISC and takes the line out of         *)
(* m_calls, from under the iteration if it has come to it.                  *)
DisconnectDone(l) ==
    LET c == line[l].client
    IN /\ TrunkThreadIsFree
       /\ line[l].phase = "ending"
       /\ line' = [line EXCEPT ![l] = Released(l)]
       /\ IF c # NoClient /\ line[l].asked
          THEN /\ conn' = [conn EXCEPT ![c].calls = CallsAfter(c, l)]
               /\ fault' = (IsGone(c) \/ (Iterates(c) /\ iface.line = l))
               /\ IF Iterates(c) THEN Trouble("raced") ELSE UNCHANGED troubles
          ELSE UNCHANGED conn /\ Calm
       /\ UNCHANGED <<queue, worker, iface, sending, counts, listens, served>>

----------------------------------------------------------------------------
(*                          The interface thread                            *)

IsIdle(c) == iface.pc = "idle" /\ conn[c].state = "open"

Enqueue(q, item) == [queue EXCEPT ![q] = Append(@, item)]

(* LSTN, for the trunk or for any: there is no answer but a call.           *)
LSTN(c, q) ==
    /\ IsIdle(c)
    /\ Len(listens) < MaxListens
    /\ listens' = Append(listens, c)
    /\ queue' = Enqueue(q, [id |-> Len(listens'), client |-> c])
    /\ UNCHANGED <<line, conn, worker, iface, sending, counts, served>> /\ Calm

(* CONN locks the trunk, ...                                                *)
CONN(c) ==
    /\ IsIdle(c)
    /\ counts.dials < MaxDials
    /\ counts' = [counts EXCEPT !.dials = @ + 1]
    /\ iface' = [IdleIface EXCEPT !.pc = "connecting", !.client = c, !.line = 1]
    /\ UNCHANGED <<queue, line, conn, worker, sending, listens, served>> /\ Calm

(* ... asks one line after the other, with the line's mutex, ...            *)
Connects ==
    LET l == iface.line
    IN /\ iface.pc = "connecting" /\ l \in Line
       /\ ~LineIsLocked(l)
       /\ IF line[l].phase = "free"
          THEN /\ line' = [line EXCEPT ![l].phase = "dialing",
                                       ![l].dialer = iface.client]
               /\ iface' = IdleIface
          ELSE /\ iface' = [iface EXCEPT !.line = @ + 1]
               /\ UNCHANGED line
       /\ UNCHANGED <<queue, conn, worker, sending, counts, listens, served>> /\ Calm

(* ... and is refused if none is free.                                      *)
NoResource ==
    /\ iface.pc = "connecting" /\ iface.line \notin Line
    /\ iface' = IdleIface
    /\ UNCHANGED <<queue, line, conn, worker, sending, counts, listens, served>> /\ Calm

(* The embrace: nothing undoes it, but the rest of the server goes on       *)
(* waiting for it.                                                          *)
Deadlocks ==
    /\ iface.pc = "connecting" /\ worker.pc = "trunk"
    /\ iface.line = worker.line
    /\ "deadlock" \notin troubles
    /\ Trouble("deadlock")
    /\ UNCHANGED <<queue, line, conn, worker, iface, sending, counts, listens, served, fault>>

(* Interface::data looks the device of a command up in the connection, ...  *)
Find(c, l) ==
    /\ IsIdle(c)
    /\ l \in conn[c].calls
    /\ iface' = [IdleIface EXCEPT !.pc = "found", !.client = c, !.line = l]
    /\ UNCHANGED <<queue, line, conn, worker, sending, counts, listens, served>> /\ Calm

(* ... and Sequencer::DISC hangs up, unless one is pending.                 *)
DISC ==
    LET l == iface.line
    IN /\ iface.pc = "found"
       /\ ~LineIsLocked(l)
       /\ IF ~line[l].asked /\ line[l].phase \in {"up", "hungup"}
          THEN line' = [line EXCEPT ![l].phase = "ending", ![l].asked = TRUE]
          ELSE UNCHANGED line
       /\ iface' = IdleIface
       /\ IF line[l].client \in {iface.client, NoClient}
          THEN Calm ELSE Trouble("mistaken") /\ UNCHANGED fault
       /\ UNCHANGED <<queue, conn, worker, sending, counts, listens, served>>

(* The connection is closed or reset: lost_connection() takes the listeners *)
(* of the client out of the global queue, ...                               *)
Others(c) == {item \in Item : item.client # c}

Without(c, q) == Only(queue[q], Others(c))

Lose(c) ==
    /\ IsIdle(c)
    /\ conn' = [conn EXCEPT ![c].state = "lost"]
    /\ queue' = [queue EXCEPT !["global"] = Without(c, "global")]
    /\ iface' = [IdleIface EXCEPT !.pc = "queues", !.client = c]
    /\ UNCHANGED <<line, worker, sending, counts, listens, served>> /\ Calm

(* ++i and the comparison with end()                                        *)
NextCall(l) ==
    LET calls == {k \in conn[iface.client].calls : k > l}
    IN IF calls = {} THEN [iface EXCEPT !.pc = "deleting", !.line = 0]
       ELSE [iface EXCEPT !.pc = "telling", !.line = Min(calls)]

\* Variant: forgets the listeners for a particular trunk
KeepsTrunks(c) == queue

LeavesTrunks(c) == [queue EXCEPT !["trunk"] = Without(c, "trunk")]

(* ... removeClient() out of the queue of every trunk, ...                  *)
RemoveClient ==
    /\ iface.pc = "queues"
    /\ queue' = LeavesTrunks(iface.client)
    /\ iface' = NextCall(0)
    /\ UNCHANGED <<line, conn, worker, sending, counts, listens, served>> /\ Calm

IsToldOf(l) == \E t \in Senders : sending[t] = l

(* ... tells the sequencers of its calls: Sequencer::lost_connection()      *)
(* forgets the client, whosever call it is, ...                             *)
TellsCall ==
    LET l == iface.line
    IN /\ iface.pc = "telling"
       /\ ~LineIsLocked(l)
       /\ line' = [line EXCEPT ![l].client = NoClient]
       /\ iface' = [iface EXCEPT !.pc = "hanging"]
       /\ IF IsToldOf(l) THEN Trouble("late") ELSE UNCHANGED troubles
       /\ UNCHANGED <<queue, conn, worker, sending, counts, listens, served, fault>>

\* Variant: does not hang up
StaysUp(l) == line[l]

HungUp(l) ==
    [line[l] EXCEPT !.phase = IF @ \in {"up", "hungup"} THEN "ending" ELSE @]

(* ... unlocks, and hangs up if m_callref says that there is a call, ...    *)
HangsUp ==
    LET l == iface.line
    IN /\ iface.pc = "hanging"
       /\ ~LineIsLocked(l)
       /\ line' = [line EXCEPT ![l] = HungUp(l)]
       /\ iface' = NextCall(l)
       /\ IF HasCall(l) /\ line[l].client # NoClient
          THEN Trouble("mistaken") ELSE UNCHANGED troubles
       /\ UNCHANGED <<queue, conn, worker, sending, counts, listens, served, fault>>

(* A call may be on its way to the client: the listener is taken, but the   *)
(* line does not know of it yet, or it is dialed.                           *)
IsAwaited(c) ==
    \/ worker.pc = "offer" /\ worker.item.client = c
    \/ \E l \in Line : line[l].phase = "dialing" /\ line[l].dialer = c

IsToldLate(c) == \E l \in Line : IsToldOf(l) /\ line[l].client = c

(* ... and Interface::run deletes the connection.                           *)
Deletes ==
    /\ iface.pc = "deleting"
    /\ conn' = [conn EXCEPT ![iface.client] = [state |-> "gone", calls |-> {}]]
    /\ iface' = IdleIface
    /\ LET what == {w \in {"gone", "late"} :
                      \/ w = "gone" /\ IsAwaited(iface.client)
                      \/ w = "late" /\ IsToldLate(iface.client)}
       IN what \subseteq Troubles /\ troubles' = troubles \cup what
    /\ UNCHANGED <<queue, line, worker, sending, counts, listens, served, fault>>

----------------------------------------------------------------------------
TrunkThread ==
    \/ DequeuesTrunk
    \/ DequeuesGlobal
    \/ Offers
    \/ Rejects
    \/ Sends("trunk")
    \/ \E l \in Line :
        \/ ConnectRequest(l)
        \/ ConnectDone(l)
        \/ DisconnectDone(l)

MediaThread == Sends("media")

InterfaceThread ==
    \/ Connects
    \/ NoResource
    \/ DISC
    \/ RemoveClient
    \/ TellsCall
    \/ HangsUp
    \/ Deletes
    \/ Deadlocks

(* What only the far ends and the clients decide.  A bound: after a trouble *)
(* what is under way goes on, and nothing new begins.                       *)
Environment ==
    /\ troubles = {}
    /\ \/ \E l \in Line : Rings(l) \/ DisconnectRequest(l) \/ Drops(l)
       \/ \E t \in Senders, l \in Line : Tests(t, l)
       \/ \E c \in Clients :
            \/ \E q \in Queues : LSTN(c, q)
            \/ CONN(c)
            \/ \E l \in Line : Find(c, l)
            \/ Lose(c)

(* Nothing is said of what comes after a use of a deleted object.           *)
Next == ~fault /\ (TrunkThread \/ InterfaceThread \/ MediaThread \/ Environment)

Spec == Init /\ [][Next]_vars

(* The threads run.  The calls are bounded: no line is forgotten for the    *)
(* others' sake.                                                            *)
Fairness == WF_vars(~fault /\ TrunkThread) /\ WF_vars(~fault /\ InterfaceThread)

FairSpec == Spec /\ Fairness

----------------------------------------------------------------------------
(*                               Properties                                 *)

(* No thread sends to a connection that has been deleted, or goes on from   *)
(* an erased entry of m_calls, unless a call was on its way to its client,  *)
(* a thread was about to tell it, or m_calls changed meanwhile:             *)
(* lost_connection() reaches every queue and every line that knows the      *)
(* client.                                                                  *)
Sound == TypeOK /\ (fault => troubles # {})

(* Where the listener with this number is: in a queue, with the trunk       *)
(* thread, or served.                                                       *)
Places(id) ==
    {p \in Queues \X (1..MaxListens) :
        p[2] \in DOMAIN queue[p[1]] /\ queue[p[1]][p[2]].id = id}
    \cup {<<"worker", w.line>> : w \in {w \in {worker} : w.item.id = id}}
    \cup {<<"served", i>> : i \in served \cap {id}}

(* A LSTN is good for one call: as long as its client is there it waits in  *)
(* one queue, or is being served, or has been (ClientQueue::dequeue and     *)
(* enqueue).  No queue has a listener of a client that is gone.  A call is  *)
(* rejected only if nobody of those who listened when it came is still      *)
(* waiting (onIncoming(): the trunk's queue, then the global one).          *)
ListensConserved ==
    /\ \A id \in DOMAIN listens :
        /\ conn[listens[id]].state = "open" => Cardinality(Places(id)) = 1
        /\ conn[listens[id]].state = "gone" =>
               \A q \in Queues : id \notin Queued(q)
    /\ worker.pc = "reject" =>
        worker.seen \cap (Queued("trunk") \cup Queued("global")) = {}

(* A client that is connected has the devices of its calls, and no other:   *)
(* it can send commands to each, and lost_connection() finds each (a line   *)
(* may remember a client whose call is over).                               *)
CallsKnown ==
    troubles = {} =>
        \A c \in Clients, l \in Line :
            conn[c].state = "open" =>
                (l \in conn[c].calls
                    <=> line[l].client = c /\ HasCall(l))

(* A call that arrives is given to somebody or rejected, unless CONN and it *)
(* wait for each other; and a call of a client that is lost is hung up, so  *)
(* that its line is free again.                                             *)
CallsSettled ==
    /\ \A l \in Line : line[l].phase = "ringing" ~>
           line[l].phase # "ringing" \/ fault \/ "deadlock" \in troubles
    /\ \A c \in Clients, l \in Line :
           conn[c].state = "lost" /\ l \in conn[c].calls /\ line[l].client = c ~>
               line[l].phase = "free" \/ fault \/ troubles # {}
================================================================================
