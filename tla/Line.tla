---------------------------------- MODULE Line ----------------------------------
(****************************************************************************)
(* A telephone line: the AculabTrunk (aculab/acutrunk.cpp), the call        *)
(* control of the Sequencer that owns it (sequencer/sequence.cpp), the call *)
(* driver below (external, reached through aculab/v5/cllib.c) and a client  *)
(* above that may send any command at any time.                             *)
(*                                                                          *)
(* Three threads meet in it.  The trunk thread takes the driver's events    *)
(* and calls the sequencer back, the interface thread brings the client's   *)
(* ACPT, DISC and CONN, the media thread hangs up when the channels that    *)
(* DISC had to stop are idle.  An action is a critical section of a thread, *)
(* or what it does between two of them.                                     *)
(*                                                                          *)
(* What the channels play is in module Sequencer; here it is `busy'.  Call  *)
(* references are numbered in the order of new_callref(), 0 stands for      *)
(* INVALID_CALLREF and for the null of ids and pointers.                    *)
(****************************************************************************)
EXTENDS Naturals, Sequences, Lists

CONSTANTS MaxCalls,    \* calls that arrive or are made
          MaxCommands, \* commands that the client sends
          Handles,     \* of the driver, the lowest that is free is opened next
          Troubles     \* what may go wrong

(* "glare": a call arrives while one is made                                *)
(* "lost": the network drops a call without either side having hung up      *)
(* "refused": call_openout() fails                                          *)
(* "no_media": the pool has no media channel for a call that arrives        *)
(* "crossed": ACPT reaches the driver after the far end has hung up         *)
(* "hasty": CONN arrives before the last call has been released             *)
(* "late": call_disconnect() for a call that is being cleared already       *)
(* "overtaken": EV_CALL_CONNECTED of a call that is being hung up           *)
(* "again": the media thread hangs up for a DISC that has done so meanwhile *)
(* "stale": the call that a client leaves behind has ended meanwhile        *)
AllTroubles ==
    {"glare", "lost", "refused", "no_media", "crossed", "hasty", "late",
     "overtaken", "again", "stale"}

ASSUME LineAssumption ==
    /\ MaxCalls \in Nat /\ MaxCommands \in Nat
    /\ Handles \subseteq Nat \ {0} /\ {1, 2} \subseteq Handles
    /\ Troubles \subseteq AllTroubles

VARIABLES trunk,    \* the AculabTrunk and the driver's side of its handles
          seq,      \* the Sequencer's side of the call
          tx,       \* the client's commands with the answers they were given
          worker,   \* the trunk thread: the callback it is in
          iface,    \* the interface thread: the command it is in
          media,    \* the media thread: how far completed() has come unlocked
          troubles  \* the troubles there were so far (history)

vars == <<trunk, seq, tx, worker, iface, media, troubles>>

HandleStates == {"closed", "waiting", "ringing", "accepting", "dialing",
                 "proceeding", "connected", "cleared", "clearing", "idle"}

CallEvents == {"incoming", "outgoing", "connected", "remote", "idle"}

TrunkCommands == {"none", "connect", "disconnect", "accept"}

Callrefs == 0..MaxCalls
TransactionIds == 0..MaxCommands

TypeOK ==
    /\ trunk \in [state : [Handles -> HandleStates],
                  events : Seq(Handles \X CallEvents),
                  handle : Handles, shadow : Handles \cup {0},
                  out : SUBSET Handles,
                  cmd : TrunkCommands, callref : Callrefs,
                  last : Callrefs, calls : Callrefs]
    /\ seq \in [callref : Callrefs, disconnecting : Callrefs,
                sentRdis : Callrefs, id : TransactionIds,
                connect : TransactionIds, spec : BOOLEAN, media : BOOLEAN,
                interface : BOOLEAN, named : BOOLEAN, busy : BOOLEAN]
    /\ tx \in Seq([cmd : {"ACPT", "DISC", "CONN"},
                   answer : {"none", "ok", "failed", "violation", "twice",
                             "gone"}])
    /\ worker \in [pc : {"none", "connectRequest", "onIncoming", "connectDone",
                         "acceptDone", "accepted", "disconnectRequest",
                         "disconnectDone"},
                   then : {"none", "release", "disconnect"},
                   callref : Callrefs, ok : BOOLEAN]
    /\ iface \in {"none", "accepting", "connecting", "disconnecting", "refused",
                  "lying", "leaving", "dropping"}
    /\ media \in {"none", "looking", "deciding", "hanging"}
    /\ troubles \subseteq Troubles

Waiting == [pc |-> "none", then |-> "none", callref |-> 0, ok |-> FALSE]

Init ==
    /\ trunk = [state |-> [h \in Handles |->
                              IF h = 1 THEN "waiting" ELSE "closed"],
                events |-> << >>, handle |-> 1, shadow |-> 0, out |-> {},
                cmd |-> "none", callref |-> 0, last |-> 0, calls |-> 0]
    /\ seq = [callref |-> 0, disconnecting |-> 0, sentRdis |-> 0, id |-> 0,
              connect |-> 0, spec |-> FALSE, media |-> FALSE,
              interface |-> FALSE, named |-> FALSE, busy |-> FALSE]
    /\ tx = << >>
    /\ worker = Waiting
    /\ iface = "none"
    /\ media = "none"
    /\ troubles = {}

\* ACPT and CONN call into the driver with m_mutex held
LockFree == iface \notin {"accepting", "connecting"}

Trouble(what) == what \in Troubles /\ troubles' = troubles \cup {what}

Calm == UNCHANGED troubles

(* A bound: after a trouble, when the line promises nothing any more, what  *)
(* is under way goes on, but no call and no command comes.                  *)
InOrder == troubles = {}

TroubleIf(condition, what) == IF condition THEN Trouble(what) ELSE Calm

----------------------------------------------------------------------------
(*                  The driver (external) and the far end                   *)

Reports(t, h, state, event) ==
    [t EXCEPT !.state[h] = state, !.events = Append(@, <<h, event>>)]

DriverStep(h, from, to, event) ==
    /\ trunk.state[h] = from
    /\ trunk' = Reports(trunk, h, to, event)
    /\ UNCHANGED <<seq, tx, worker, iface, media>>

(* A call arrives on the port.  While an outgoing call is made the port     *)
(* still listens: glare.                                                    *)
Rings(h) ==
    /\ InOrder /\ trunk.calls < MaxCalls
    /\ trunk.state[h] = "waiting"
    /\ trunk' = [Reports(trunk, h, "ringing", "incoming") EXCEPT !.calls = @ + 1]
    /\ UNCHANGED <<seq, tx, worker, iface, media>>
    /\ TroubleIf(trunk.handle # h, "glare")

(* EV_CALL_CONNECTED follows call_accept(), ...                             *)
Answers(h) == DriverStep(h, "accepting", "connected", "connected") /\ Calm

(* ... EV_OUTGOING_PROCEEDING and EV_CALL_CONNECTED call_openout(), ...     *)
Proceeds(h) == DriverStep(h, "dialing", "proceeding", "outgoing") /\ Calm

IsAnswered(h) == DriverStep(h, "proceeding", "connected", "connected") /\ Calm

(* ... EV_IDLE call_disconnect().                                           *)
Clears(h) == DriverStep(h, "clearing", "idle", "idle") /\ Calm

InCall == {"ringing", "accepting", "dialing", "proceeding", "connected"}

(* EV_REMOTE_DISCONNECT                                                     *)
FarEndHangsUp(h) ==
    /\ trunk.state[h] \in InCall
    /\ DriverStep(h, trunk.state[h], "cleared", "remote")
    /\ Calm

(* EV_IDLE although nobody hung up: an outgoing call that gets no answer,   *)
(* or a call that the network dropped                                       *)
GetsNoAnswer(h) ==
    /\ trunk.state[h] \in {"dialing", "proceeding"}
    /\ DriverStep(h, trunk.state[h], "idle", "idle")
    /\ Calm

IsLost(h) ==
    /\ trunk.state[h] \in InCall \ {"dialing", "proceeding"}
    /\ DriverStep(h, trunk.state[h], "idle", "idle")
    /\ Trouble("lost")

----------------------------------------------------------------------------
(*                             AculabTrunk                                  *)

OfOthers(h) == {e \in Handles \X CallEvents : e[1] # h}

(* call_release and CallEventDispatcher::remove of m_handle                 *)
Release(t) ==
    [t EXCEPT !.state[t.handle] = "closed",
              !.events = Only(@, OfOthers(t.handle))]

(* call_openin or call_openout, and CallEventDispatcher::add                *)
FreeHandle(t) ==
    CHOOSE h \in Handles :
        /\ t.state[h] = "closed"
        /\ \A other \in Handles : t.state[other] = "closed" => h <= other

Opens(t, h, state) == [t EXCEPT !.state[h] = state, !.handle = h]

(* AculabTrunk::listen                                                      *)
Listen(t) == [Opens(t, FreeHandle(t), "waiting") EXCEPT !.out = @ \ {FreeHandle(t)}]

(* AculabTrunk::disconnect succeeds for the call at hand; the driver lets   *)
(* nobody hang up twice.                                                    *)
MayHangUp(t) == t.state[t.handle] \in InCall \cup {"waiting", "cleared"}

Disconnects(t, callref) == t.callref = callref /\ MayHangUp(t)

TrunkDisconnect(t, callref) ==
    IF t.callref # callref THEN t
    ELSE IF MayHangUp(t)
    THEN [t EXCEPT !.cmd = "disconnect", !.state[t.handle] = "clearing"]
    ELSE [t EXCEPT !.cmd = "none"]

HangsUpLate(t, callref) ==
    t.callref = callref /\ ~MayHangUp(t)

\* Variant: counts on where it should only skip INVALID_CALLREF
NewCallrefSkips(t) == [t EXCEPT !.callref = t.last + 2, !.last = t.last + 2]

(* AculabTrunk::new_callref                                                 *)
NewCallref(t) == [t EXCEPT !.callref = t.last + 1, !.last = t.last + 1]

(* What the handler of an event makes of the command that is pending:       *)
(* onIdle, onRemoteDisconnect                                               *)
Callback(cmd) ==
    CASE cmd = "connect"    -> "connectDone"
      [] cmd = "disconnect" -> "disconnectDone"
      [] cmd = "accept"     -> "acceptDone"
      [] OTHER              -> "disconnectRequest"

Enters(pc, then, callref, ok) ==
    worker' = [pc |-> pc, then |-> then, callref |-> callref, ok |-> ok]

NextEvent(event) ==
    /\ worker = Waiting
    /\ trunk.events # << >>
    /\ Head(trunk.events)[2] = event

Taken == [trunk EXCEPT !.events = Tail(@)]

OnIdle ==
    /\ NextEvent("idle")
    /\ trunk' = [Taken EXCEPT !.cmd = "none", !.callref = 0]
    /\ Enters(Callback(trunk.cmd), "release", trunk.callref,
              trunk.cmd = "disconnect")
    /\ UNCHANGED <<seq, tx, iface, media>> /\ Calm

(* call_details() asks for m_handle, which need not be the handle of the    *)
(* event, and fails if there is no call on it.                              *)
NoDetails == trunk.state[trunk.handle] \in {"closed", "idle"}

OnIncomingCallDetected ==
    /\ NextEvent("incoming")
    /\ IF NoDetails
       THEN trunk' = Listen(Release(NewCallref(Taken))) /\ UNCHANGED worker
       ELSE /\ trunk' = NewCallref(Taken)
            /\ Enters("connectRequest", "none", trunk.last + 1, TRUE)
    /\ UNCHANGED <<seq, tx, iface, media>> /\ Calm

OnCallConnected ==
    /\ NextEvent("connected")
    /\ trunk' = [Taken EXCEPT !.cmd = "none"]
    /\ IF NoDetails THEN UNCHANGED worker
       ELSE Enters(IF trunk.handle \in trunk.out THEN "connectDone" ELSE "acceptDone",
                   "none", trunk.callref, TRUE)
    /\ TroubleIf(trunk.cmd = "disconnect", "overtaken")
    /\ UNCHANGED <<seq, tx, iface, media>>

OnOutgoingProceeding ==
    /\ NextEvent("outgoing")
    /\ trunk' = IF NoDetails THEN Taken ELSE NewCallref(Taken)
    /\ UNCHANGED <<seq, tx, worker, iface, media>> /\ Calm

OnRemoteDisconnect ==
    /\ NextEvent("remote")
    /\ trunk' = [Taken EXCEPT !.cmd = "none"]
    /\ Enters(Callback(trunk.cmd),
              IF trunk.cmd \in {"connect", "accept"} THEN "disconnect" ELSE "none",
              trunk.callref, trunk.cmd = "disconnect")
    /\ UNCHANGED <<seq, tx, iface, media>> /\ Calm

(* The end of onIdle: the handle is released, the one that waited meanwhile *)
(* is taken up again or a new one opened.                                   *)
ReleasesAndListens ==
    /\ worker.pc = "none" /\ worker.then = "release"
    /\ trunk' = IF trunk.shadow # 0
                THEN [Release(trunk) EXCEPT !.handle = trunk.shadow,
                                            !.shadow = 0]
                ELSE Listen(Release(trunk))
    /\ worker' = Waiting
    /\ UNCHANGED <<seq, tx, iface, media>> /\ Calm

(* The end of onRemoteDisconnect: what was refused is hung up.              *)
HangsUpRefused ==
    /\ worker.pc = "none" /\ worker.then = "disconnect"
    /\ trunk' = TrunkDisconnect(trunk, trunk.callref)
    /\ TroubleIf(HangsUpLate(trunk, trunk.callref), "late")
    /\ worker' = Waiting
    /\ UNCHANGED <<seq, tx, iface, media>>

----------------------------------------------------------------------------
(*            The Sequencer, called back on the trunk thread                *)

Answer(commands, id, answer) ==
    IF id = 0 THEN commands
    ELSE [commands EXCEPT ![id].answer = IF @ = "none" THEN answer ELSE "twice"]

\* Variant: leaves m_sent_rdis to the next call
ReleasedButRdis(s) ==
    [s EXCEPT !.callref = 0, !.disconnecting = 0, !.id = 0, !.media = FALSE]

(* Sequencer::release                                                       *)
Released(s) ==
    [s EXCEPT !.callref = 0, !.disconnecting = 0, !.sentRdis = 0, !.id = 0,
              !.media = FALSE]

Called(pc) == worker.pc = pc

Returns == worker' = [Waiting EXCEPT !.then = worker.then]

(* Sequencer::connectRequest looks for an outgoing call without the lock.   *)
ConnectRequest ==
    /\ Called("connectRequest")
    /\ IF seq.connect # 0
       THEN /\ trunk' = TrunkDisconnect(trunk, worker.callref)
            /\ TroubleIf(HangsUpLate(trunk, worker.callref), "late")
            /\ Returns
       ELSE /\ worker' = [worker EXCEPT !.pc = "onIncoming"]
            /\ UNCHANGED trunk /\ Calm
    /\ UNCHANGED <<seq, tx, iface, media>>

(* Sequencer::onIncoming: some client waits for the call, ...               *)
OnIncomingServed ==
    /\ Called("onIncoming") /\ LockFree
    /\ seq' = [seq EXCEPT !.callref = worker.callref, !.media = TRUE,
                          !.spec = TRUE, !.interface = TRUE, !.named = TRUE]
    /\ Returns
    /\ UNCHANGED <<trunk, tx, iface, media>> /\ Calm

(* ... or none does and the call is rejected, ...                           *)
OnIncomingRejected ==
    /\ Called("onIncoming") /\ LockFree
    /\ seq' = [seq EXCEPT !.callref = worker.callref, !.media = TRUE,
                          !.spec = FALSE]
    /\ trunk' = TrunkDisconnect(trunk, worker.callref)
    /\ TroubleIf(HangsUpLate(trunk, worker.callref), "late")
    /\ Returns
    /\ UNCHANGED <<tx, iface, media>>

(* ... or there is no media channel.  What the code rejects then is the     *)
(* call that m_callref still names.                                         *)
OnIncomingNoMedia ==
    /\ Called("onIncoming") /\ LockFree
    /\ seq' = [seq EXCEPT !.media = FALSE]
    /\ trunk' = TrunkDisconnect(trunk, seq.callref)
    /\ Returns
    /\ UNCHANGED <<tx, iface, media>> /\ Trouble("no_media")

(* Sequencer::connectDone.  A call that failed keeps its media channel.     *)
ConnectDone ==
    /\ Called("connectDone") /\ LockFree
    /\ IF seq.connect = 0 THEN UNCHANGED <<seq, tx>>
       ELSE /\ seq' = [seq EXCEPT !.callref = IF worker.ok THEN worker.callref ELSE 0,
                                  !.interface = TRUE, !.named = worker.ok,
                                  !.connect = 0]
            /\ tx' = Answer(tx, seq.connect, IF worker.ok THEN "ok" ELSE "failed")
    /\ Returns
    /\ UNCHANGED <<trunk, iface, media>> /\ Calm

(* Sequencer::acceptDone sends the answer before it takes the lock ...      *)
AcceptDone ==
    /\ Called("acceptDone")
    /\ tx' = IF seq.interface
             THEN Answer(tx, seq.id, IF worker.ok THEN "ok" ELSE "failed") ELSE tx
    /\ seq' = [seq EXCEPT !.named = @ /\ (worker.ok \/ ~seq.interface)]
    /\ worker' = [worker EXCEPT !.pc = "accepted"]
    /\ UNCHANGED <<trunk, iface, media>> /\ Calm

(* ... and only then forgets the id that it has answered.                   *)
Accepted ==
    /\ Called("accepted") /\ LockFree
    /\ seq' = IF worker.ok THEN [seq EXCEPT !.spec = FALSE, !.id = 0]
              ELSE Released(seq)
    /\ Returns
    /\ UNCHANGED <<trunk, tx, iface, media>> /\ Calm

\* Variant: RDIS goes to clients that are hanging up, too
DisconnectRequestTells ==
    /\ Called("disconnectRequest") /\ LockFree
    /\ seq' = [seq EXCEPT !.media = @ /\ seq.busy, !.sentRdis = seq.callref]
    /\ Returns
    /\ UNCHANGED <<trunk, tx, iface, media>> /\ Calm

(* Sequencer::disconnectRequest, with the RDIS that it sends: what plays is *)
(* aborted, the media channel released if nothing did.                      *)
DisconnectRequest ==
    /\ Called("disconnectRequest") /\ LockFree
    /\ seq' = [seq EXCEPT !.media = @ /\ seq.busy,
                          !.sentRdis = IF seq.disconnecting = 0
                                       THEN seq.callref ELSE @]
    /\ Returns
    /\ UNCHANGED <<trunk, tx, iface, media>> /\ Calm

(* Sequencer::disconnectDone                                                *)
DisconnectDone ==
    /\ Called("disconnectDone") /\ LockFree
    /\ IF seq.interface /\ seq.id # 0
       THEN /\ tx' = Answer(tx, seq.id, "ok")
            /\ seq' = [Released(seq) EXCEPT !.named = FALSE]
       ELSE seq' = Released(seq) /\ UNCHANGED tx
    /\ Returns
    /\ UNCHANGED <<trunk, iface, media>> /\ Calm

----------------------------------------------------------------------------
(*       The client, whose commands the interface thread executes           *)

Sends(cmd, answer) ==
    /\ InOrder /\ iface = "none"
    /\ Len(tx) < MaxCommands
    /\ tx' = Append(tx, [cmd |-> cmd, answer |-> answer])

Id == Len(tx) + 1

(* ACPT and DISC are refused while another trunk operation is pending.      *)
RefusesPending(cmd) ==
    /\ seq.named /\ seq.id # 0
    /\ Sends(cmd, "violation")
    /\ UNCHANGED <<trunk, seq, worker, iface, media>> /\ Calm

(* Sequencer::ACPT, holding m_mutex until the driver has answered           *)
ACPT ==
    /\ seq.named /\ seq.id = 0
    /\ seq' = [seq EXCEPT !.id = Id]
    /\ IF trunk.cmd = "none" /\ trunk.callref = seq.callref
       THEN /\ Sends("ACPT", "none")
            /\ trunk' = [trunk EXCEPT !.cmd = "accept"]
            /\ iface' = "accepting"
       ELSE Sends("ACPT", "failed") /\ UNCHANGED <<trunk, iface>>
    /\ UNCHANGED <<worker, media>> /\ Calm

(* call_accept() in AculabTrunk::accept                                     *)
Accepts ==
    /\ iface = "accepting"
    /\ trunk.state[trunk.handle] = "ringing"
    /\ trunk' = [trunk EXCEPT !.state[trunk.handle] = "accepting"]
    /\ iface' = "none"
    /\ UNCHANGED <<seq, tx, worker, media>> /\ Calm

(* ... fails: the handle is released although EV_IDLE will not come.        *)
AcceptFails ==
    /\ iface = "accepting"
    /\ trunk.state[trunk.handle] # "ringing"
    /\ trunk' = Release(trunk)
    /\ tx' = Answer(tx, seq.id, "failed")
    /\ iface' = "none"
    /\ UNCHANGED <<seq, worker, media>> /\ Trouble("crossed")

(* Sequencer::DISC notes its id and ...                                     *)
DISC ==
    /\ seq.named /\ seq.id = 0
    /\ Sends("DISC", "none")
    /\ seq' = [seq EXCEPT !.id = Id]
    /\ iface' = "disconnecting"
    /\ UNCHANGED <<trunk, worker, media>> /\ Calm

(* ... hangs up under the lock, or when the channels will have stopped      *)
(* (Sequencer::disconnect).                                                 *)
Disconnecting ==
    /\ iface = "disconnecting"
    /\ trunk' = IF seq.busy THEN trunk ELSE TrunkDisconnect(trunk, seq.callref)
    /\ seq' = [seq EXCEPT !.disconnecting = seq.callref]
    /\ iface' = IF seq.busy \/ Disconnects(trunk, seq.callref)
                THEN "none" ELSE "refused"
    /\ TroubleIf(~seq.busy /\ HangsUpLate(trunk, seq.callref), "late")
    /\ UNCHANGED <<tx, worker, media>>

(* A refusal is forgotten and then, both without the lock, ...              *)
Refused ==
    /\ iface = "refused"
    /\ seq' = [seq EXCEPT !.id = 0]
    /\ iface' = "lying"
    /\ UNCHANGED <<trunk, tx, worker, media>> /\ Calm

(* ... answered as a success.                                               *)
Lies ==
    /\ iface = "lying"
    /\ tx' = Answer(tx, Len(tx), "ok")
    /\ iface' = "none"
    /\ UNCHANGED <<trunk, seq, worker, media>> /\ Calm

(* Sequencer::lost_connection: there is nobody left to be answered, ...     *)
LostConnection ==
    /\ InOrder /\ iface = "none"
    /\ seq.named
    /\ seq' = [seq EXCEPT !.interface = FALSE, !.named = FALSE]
    /\ tx' = [i \in DOMAIN tx |-> IF tx[i].answer # "none" THEN tx[i]
                                  ELSE [tx[i] EXCEPT !.answer = "gone"]]
    /\ iface' = "leaving"
    /\ UNCHANGED <<trunk, worker, media>> /\ Calm

(* ... m_callref is looked at without the lock, ...                         *)
Leaves ==
    /\ iface = "leaving"
    /\ iface' = IF seq.callref = 0 THEN "none" ELSE "dropping"
    /\ UNCHANGED <<trunk, seq, tx, worker, media>> /\ Calm

(* ... and what it names by now is hung up as DISC does it.                 *)
Drops ==
    /\ iface = "dropping"
    /\ seq' = [seq EXCEPT !.disconnecting = seq.callref]
    /\ trunk' = IF seq.busy THEN trunk ELSE TrunkDisconnect(trunk, seq.callref)
    /\ iface' = "none"
    /\ IF seq.callref = 0 \/ seq.interface THEN Trouble("stale")
       ELSE TroubleIf(~seq.busy /\ HangsUpLate(trunk, seq.callref), "late")
    /\ UNCHANGED <<tx, worker, media>>

(* Sequencer::connect takes a media channel and sets m_connectComplete;     *)
(* nobody looks whether AculabTrunk::connect refuses, ...                   *)
CONN ==
    /\ seq.callref = 0 /\ seq.connect = 0
    /\ trunk.calls < MaxCalls
    /\ Sends("CONN", "none")
    /\ seq' = [seq EXCEPT !.media = TRUE, !.connect = Id]
    /\ IF trunk.cmd = "none"
       THEN /\ trunk' = [trunk EXCEPT !.cmd = "connect", !.calls = @ + 1]
            /\ iface' = "connecting"
            /\ Calm
       ELSE UNCHANGED <<trunk, iface>> /\ Trouble("hasty")
    /\ UNCHANGED <<worker, media>>

(* ... as when call_openout() does.                                         *)
OpensOut ==
    /\ iface = "connecting"
    /\ trunk' = [Opens(trunk, FreeHandle(trunk), "dialing") EXCEPT
                    !.shadow = trunk.handle, !.out = @ \cup {FreeHandle(trunk)}]
    /\ iface' = "none"
    /\ UNCHANGED <<seq, tx, worker, media>>
    /\ CASE trunk.state[trunk.handle] = "waiting" -> Calm
         [] trunk.state[trunk.handle] = "ringing" -> Trouble("glare")
         [] OTHER                                 -> Trouble("hasty")

OpenOutFails ==
    /\ iface = "connecting"
    /\ iface' = "none"
    /\ UNCHANGED <<trunk, seq, tx, worker, media>> /\ Trouble("refused")

----------------------------------------------------------------------------
(*                   The channels and the media thread                      *)

(* MLCA starts a molecule in a call that stands (module Sequencer).         *)
Plays ==
    /\ seq.named /\ seq.media /\ ~seq.busy
    /\ seq.disconnecting = 0 /\ seq.sentRdis = 0
    /\ LockFree
    /\ seq' = [seq EXCEPT !.busy = TRUE]
    /\ UNCHANGED <<trunk, tx, worker, iface, media>> /\ Calm

(* The last molecule ends, by itself or stopped: the critical section of    *)
(* Sequencer::completed.                                                    *)
FallsSilent ==
    /\ media = "none"
    /\ seq.busy /\ LockFree
    /\ seq' = [seq EXCEPT !.busy = FALSE]
    /\ media' = "looking"
    /\ UNCHANGED <<trunk, tx, worker, iface>> /\ Calm

(* The rest of it holds no lock.  It asks whether the channels are idle,    *)
Looks ==
    /\ media = "looking"
    /\ media' = IF seq.busy THEN "none" ELSE "deciding"
    /\ UNCHANGED <<trunk, seq, tx, worker, iface>> /\ Calm

\* Variant: forgets the DISC that waits
DecidesNot ==
    /\ media = "deciding"
    /\ media' = "none"
    /\ UNCHANGED <<trunk, seq, tx, worker, iface>> /\ Calm

(* ... whether a DISC waits, ...                                            *)
Decides ==
    /\ media = "deciding"
    /\ media' = IF seq.disconnecting = 0 THEN "none" ELSE "hanging"
    /\ UNCHANGED <<trunk, seq, tx, worker, iface>> /\ Calm

(* ... and hangs up the call that m_disconnecting names by then.            *)
HangsUp ==
    /\ media = "hanging"
    /\ trunk' = TrunkDisconnect(trunk, seq.disconnecting)
    /\ media' = "none"
    /\ TroubleIf(\/ seq.disconnecting = 0
                 \/ HangsUpLate(trunk, seq.disconnecting), "again")
    /\ UNCHANGED <<seq, tx, worker, iface>>

----------------------------------------------------------------------------
Driver ==
    \E h \in Handles :
        \/ Rings(h)
        \/ Answers(h)
        \/ Proceeds(h)
        \/ IsAnswered(h)
        \/ Clears(h)
        \/ FarEndHangsUp(h)
        \/ GetsNoAnswer(h)
        \/ IsLost(h)

TrunkThread ==
    \/ OnIdle
    \/ OnIncomingCallDetected
    \/ OnCallConnected
    \/ OnOutgoingProceeding
    \/ OnRemoteDisconnect
    \/ ReleasesAndListens
    \/ HangsUpRefused
    \/ ConnectRequest
    \/ OnIncomingServed
    \/ OnIncomingRejected
    \/ OnIncomingNoMedia
    \/ ConnectDone
    \/ AcceptDone
    \/ Accepted
    \/ DisconnectRequest
    \/ DisconnectDone

Commands ==
    \/ \E cmd \in {"ACPT", "DISC"} : RefusesPending(cmd)
    \/ ACPT
    \/ DISC
    \/ CONN
    \/ LostConnection

InterfaceThread ==
    \/ Accepts
    \/ AcceptFails
    \/ Disconnecting
    \/ Refused
    \/ Lies
    \/ Leaves
    \/ Drops
    \/ OpensOut
    \/ OpenOutFails

MediaThread ==
    \/ FallsSilent
    \/ Looks
    \/ Decides
    \/ HangsUp

Next ==
    \/ Driver
    \/ TrunkThread
    \/ Commands
    \/ InterfaceThread
    \/ Plays
    \/ MediaThread

Spec == Init /\ [][Next]_vars

(* The driver carries out what it was asked for, every sample ends, and no  *)
(* handler waits for anything but m_mutex.  Nobody is obliged to answer a   *)
(* call that is dialed, to hang up or to send a command.                    *)
Fairness ==
    /\ \A h \in Handles : WF_vars(Answers(h)) /\ WF_vars(Clears(h))
    /\ WF_vars(TrunkThread)
    /\ WF_vars(InterfaceThread)
    /\ WF_vars(MediaThread)

FairSpec == Spec /\ Fairness

----------------------------------------------------------------------------
(*                             Properties                                   *)

(* Nothing is under way: no event, no handler, nothing that the driver has  *)
(* still to report of its own accord, no sample.                            *)
Quiet ==
    /\ worker = Waiting /\ iface = "none" /\ media = "none"
    /\ trunk.events = << >> /\ ~seq.busy
    /\ \A h \in Handles : trunk.state[h] \notin
          {"accepting", "dialing", "proceeding", "clearing", "idle"}

(* The line waits for the next call and remembers nothing of the last.      *)
Listening ==
    /\ trunk.state[trunk.handle] = "waiting"
    /\ trunk.cmd = "none" /\ trunk.callref = 0
    /\ seq.callref = 0 /\ seq.id = 0 /\ seq.connect = 0

(* There is a call, and a client that can answer it or hang it up.          *)
HasCall ==
    /\ seq.callref # 0 /\ seq.callref = trunk.callref
    /\ MayHangUp(trunk) /\ trunk.cmd = "none"
    /\ seq.named /\ seq.id = 0 /\ seq.connect = 0

(* A call that stands can be played to, and a client whose caller has hung *)
(* up was told so (m_disconnecting and m_sent_rdis are cleared by release() *)
(* alone, so that one call may leave them to the next).                     *)
IsUsable ==
    IF trunk.state[trunk.handle] = "cleared" THEN seq.sentRdis = seq.callref
    ELSE seq.disconnecting = 0 /\ seq.sentRdis = 0 /\ seq.media

(* The media channel goes back to the pool with the call.  It does not      *)
(* after an outgoing call that fails: the next call takes another one.      *)
MediaReturned ==
    seq.media => \E i \in DOMAIN tx : tx[i].cmd = "CONN" /\ tx[i].answer = "failed"

(* The line never goes out of service but for the listed troubles: whatever *)
(* events, commands and hang-ups crossed, once all is quiet it either waits *)
(* for the next call, or has one that its client can use and end, and no    *)
(* command is left without its answer.  In the meantime the trunk thread    *)
(* never connects the media channel of a sequencer that has none.           *)
InService ==
    troubles = {} =>
        /\ Quiet => /\ (Listening /\ MediaReturned) \/ (HasCall /\ IsUsable)
                    /\ \A i \in DOMAIN tx : tx[i].answer # "none"
        /\ worker.ok /\ worker.pc \in {"accepted", "connectDone"} => seq.media

(* The trunk operation of a client comes to its end: m_id, which blocks all *)
(* others, is erased in the end.                                            *)
OperationEnds == seq.id # 0 ~> seq.id = 0 \/ troubles # {}

(* The line as its client sees it: the m_interface side of the call         *)
PhaseOfCall ==
    CASE troubles # {}                           -> "out of order"
      [] troubles = {} /\ seq.connect # 0         -> "dialing"
      [] troubles = {} /\ seq.connect = 0
           /\ seq.callref = 0                    -> "free"
      [] OTHER ->
            IF seq.disconnecting # 0 \/ ~seq.named THEN "ending"
            ELSE IF trunk.handle \in trunk.out \/ worker.pc = "accepted"
                    \/ ~seq.spec THEN "up"
            ELSE "offered"

TheCall == INSTANCE Call WITH
    phase <- PhaseOfCall,
    rdis <- seq.sentRdis # 0 /\ seq.interface,
    commands <- tx

(* However the three threads interleave, the client sees one call after the *)
(* other, each offered or dialed, perhaps up, and ended, each command       *)
(* answered by what it achieved, and RDIS once.                             *)
ImplementsCall == TheCall!CallSpec
=============================================================================
