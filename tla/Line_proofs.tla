------------------------------- MODULE Line_proofs -------------------------------
(****************************************************************************)
(* Why a line implements what its client is promised (module Call) and      *)
(* never goes out of service, for any number of calls, commands and handles *)
(* of the driver.                                                           *)
(*                                                                          *)
(* As long as there was no trouble the line is in one of the stages of a    *)
(* call: it waits, a call arrives or is dialed, the client talks, its ACPT  *)
(* is under way or done, the call ends, or is gone with the driver still to *)
(* report it.  A stage says which events are due, which callback runs and   *)
(* which command is pending, and every step leads from stage to stage.      *)
(****************************************************************************)
EXTENDS Line, Lists_proofs, SequenceTheorems, TLAPS

(* The call that the trunk has in hand, and the events that the driver has  *)
(* reported of it and the trunk thread not yet taken                        *)
StateOf(t) == t.state[t.handle]

DueOf(t) == {t.events[i][2] : i \in DOMAIN t.events}

IsOutgoing(t) == t.handle \in t.out

Events == Handles \X CallEvents

TrunkType ==
    [state : [Handles -> HandleStates], events : Seq(Events), handle : Handles,
     shadow : Handles \cup {0}, out : SUBSET Handles, cmd : TrunkCommands,
     callref : Nat, last : Nat, calls : Nat]

(* The order in which a call meets its events                               *)
Rank(event) ==
    CASE event \in {"incoming", "outgoing"} -> 1
      [] event = "connected"                -> 2
      [] event = "remote"                   -> 3
      [] OTHER                              -> 4

Orderly(t) ==
    /\ \A i \in DOMAIN t.events : t.events[i][1] = t.handle
    /\ \A i, j \in DOMAIN t.events :
          i < j => Rank(t.events[i][2]) < Rank(t.events[j][2])

(* Without trouble only the handle of the call is open, and the one that    *)
(* waits meanwhile while a call is dialed.                                  *)
HandlesWell(t) ==
    /\ \A h \in Handles : t.state[h] # "closed" => h \in {t.handle, t.shadow}
    /\ t.shadow # 0 => t.state[t.shadow] = "waiting" /\ t.shadow # t.handle
    /\ t.shadow \notin t.out
    /\ t.shadow # 0 <=> IsOutgoing(t)
    /\ t.callref \in {0, t.last}

WellKept(t) == t \in TrunkType /\ Orderly(t) /\ HandlesWell(t)

(* The trunk operation of the client and its answer                         *)
OpCmd == IF seq.id = 0 THEN "none" ELSE tx[seq.id].cmd

OpAnswer == IF seq.id = 0 THEN "none" ELSE tx[seq.id].answer

Transactions ==
    [cmd : {"ACPT", "DISC", "CONN"},
     answer : {"none", "ok", "failed", "violation", "twice", "gone"}]

SeqType ==
    [callref : Nat, disconnecting : Nat, sentRdis : Nat, id : Nat, connect : Nat,
     spec : BOOLEAN, media : BOOLEAN, interface : BOOLEAN, named : BOOLEAN,
     busy : BOOLEAN]

WorkerType ==
    [pc : {"none", "connectRequest", "onIncoming", "connectDone", "acceptDone",
           "accepted", "disconnectRequest", "disconnectDone"},
     then : {"none", "release", "disconnect"}, callref : Nat, ok : BOOLEAN]

ConnFailed == \E i \in DOMAIN tx : tx[i].cmd = "CONN" /\ tx[i].answer = "failed"

(* Only the operation and the CONN that the sequencer knows of are without  *)
(* an answer.                                                               *)
TxWell ==
    /\ tx \in Seq(Transactions)
    /\ seq.id \in 0..Len(tx) /\ seq.connect \in 0..Len(tx)
    /\ seq.id # 0 => tx[seq.id].cmd \in {"ACPT", "DISC"}
    /\ seq.connect # 0 => tx[seq.connect] = [cmd |-> "CONN", answer |-> "none"]
    /\ \A i \in DOMAIN tx : tx[i].answer = "none" => i \in {seq.id, seq.connect}

(* A media channel without a call is that of a CONN that failed.            *)
MediaWell == seq.media /\ seq.callref = 0 /\ seq.connect = 0 => ConnFailed

Kept ==
    /\ WellKept(trunk)
    /\ seq \in SeqType
    /\ worker \in WorkerType
    /\ TxWell
    /\ MediaWell

----------------------------------------------------------------------------
(*                         The stages of a call                             *)

NoCall ==
    /\ seq.callref = 0 /\ seq.disconnecting = 0 /\ seq.sentRdis = 0
    /\ seq.id = 0 /\ ~seq.named

(* lost_connection() may be on its way, for this call or an earlier one.    *)
AtRest == iface \in {"none", "leaving", "dropping"}

(* CONN may be on its way to the driver.                                    *)
Idling ==
    IF seq.connect = 0 THEN AtRest /\ trunk.cmd = "none"
    ELSE seq.media /\ iface = "connecting" /\ trunk.cmd = "connect"

InHand ==
    /\ seq.callref = trunk.last /\ trunk.last # 0
    /\ seq.connect = 0

Owned == InHand /\ seq.named /\ seq.interface /\ seq.disconnecting = 0

Orphaned ==
    /\ InHand /\ seq.disconnecting = seq.callref
    /\ ~seq.named /\ ~seq.interface
    /\ seq.id # 0 => OpAnswer # "none"

Dropped ==
    \/ Orphaned
    \/ /\ InHand /\ seq.disconnecting = seq.callref
       /\ seq.named /\ seq.interface /\ OpCmd = "DISC" /\ OpAnswer = "none"

Rejected == InHand /\ ~seq.named /\ seq.id = 0 /\ seq.disconnecting = 0

Answering == Owned /\ OpCmd = "ACPT" /\ OpAnswer = "none"

Left ==
    /\ InHand /\ seq.disconnecting = 0
    /\ ~seq.named /\ ~seq.interface
    /\ seq.id # 0 => OpAnswer # "none"
    /\ iface # "none"

(* Somebody is still to hang up: the media thread or lost_connection().     *)
Held == seq.busy \/ media # "none" \/ iface # "none"

Untold == seq.sentRdis = 0 /\ seq.media

Waits ==
    /\ StateOf(trunk) = "waiting" /\ DueOf(trunk) = {} /\ ~IsOutgoing(trunk)
    /\ trunk.callref = 0
    /\ worker.pc = "none" /\ worker.then = "none"
    /\ NoCall /\ Idling

Arrives ==
    /\ StateOf(trunk) \in {"ringing", "cleared"}
    /\ StateOf(trunk) = "cleared" <=> "remote" \in DueOf(trunk)
    /\ DueOf(trunk) \subseteq {"incoming", "remote"} /\ ~IsOutgoing(trunk)
    /\ worker.then = "none"
    /\ IF "incoming" \in DueOf(trunk) THEN trunk.callref = 0 /\ worker.pc = "none"
       ELSE /\ trunk.callref = trunk.last /\ trunk.last # 0
            /\ worker.pc \in {"connectRequest", "onIncoming"}
            /\ worker.callref = trunk.last /\ worker.ok
    /\ NoCall /\ Idling

Dialing ==
    /\ trunk.cmd = "connect"
    /\ worker.pc = "none" /\ worker.then = "none"
    /\ StateOf(trunk) \in {"dialing", "proceeding", "connected", "cleared", "idle"}
    /\ "incoming" \notin DueOf(trunk)
    /\ StateOf(trunk) = "dialing" => DueOf(trunk) = {} /\ trunk.callref = 0
    /\ StateOf(trunk) = "connected" => "connected" \in DueOf(trunk)
    /\ StateOf(trunk) = "cleared" <=> "remote" \in DueOf(trunk)
    /\ StateOf(trunk) = "idle" <=> "idle" \in DueOf(trunk)
    /\ "connected" \in DueOf(trunk) => StateOf(trunk) \in {"connected", "cleared"}
    /\ IF "outgoing" \in DueOf(trunk) THEN trunk.callref = 0
       ELSE StateOf(trunk) = "proceeding" \/ "connected" \in DueOf(trunk)
               => trunk.callref = trunk.last /\ trunk.last # 0

Dialed ==
    /\ trunk.cmd = "none" /\ worker.pc = "connectDone"
    /\ \/ /\ worker.ok /\ worker.then = "none"
          /\ trunk.callref = trunk.last /\ trunk.last # 0
          /\ worker.callref = trunk.last
          /\ \/ StateOf(trunk) = "connected" /\ DueOf(trunk) = {}
             \/ StateOf(trunk) = "cleared" /\ DueOf(trunk) = {"remote"}
       \/ /\ ~worker.ok /\ worker.then = "disconnect"
          /\ StateOf(trunk) = "cleared" /\ DueOf(trunk) = {}
       \/ /\ ~worker.ok /\ worker.then = "release"
          /\ StateOf(trunk) = "idle" /\ DueOf(trunk) = {} /\ trunk.callref = 0

Dials ==
    /\ IsOutgoing(trunk) /\ NoCall
    /\ seq.connect # 0 /\ seq.media /\ iface = "none"
    /\ Dialing \/ Dialed

(* A call that stands, or whose caller has hung up                          *)
Stands ==
    /\ \/ StateOf(trunk) = "connected"
       \/ StateOf(trunk) = "ringing" /\ seq.spec /\ ~IsOutgoing(trunk)
    /\ DueOf(trunk) = {} /\ worker.pc = "none" /\ Untold

HungUp ==
    /\ StateOf(trunk) = "cleared"
    /\ \/ DueOf(trunk) = {"remote"} /\ worker.pc = "none" /\ Untold
       \/ DueOf(trunk) = {} /\ worker.pc = "disconnectRequest" /\ Untold
       \/ /\ DueOf(trunk) = {} /\ worker.pc = "none"
          /\ seq.disconnecting # 0 \/ seq.sentRdis = seq.callref

Talks ==
    /\ trunk.cmd = "none" /\ trunk.callref = trunk.last
    /\ worker.then = "none"
    /\ \/ Owned /\ seq.id = 0 /\ AtRest
       \/ /\ Owned /\ OpCmd = "DISC" /\ OpAnswer = "none"
          /\ iface = "disconnecting"
       \/ AtRest /\ (Left \/ (Dropped /\ Held))
    /\ Stands \/ HungUp

Accepting ==
    /\ trunk.cmd = "accept" /\ trunk.callref = trunk.last
    /\ worker.then = "none"
    /\ \/ iface = "accepting" /\ Answering /\ (Stands \/ HungUp)
       \/ /\ AtRest /\ worker.pc = "none"
          /\ \/ Answering /\ iface = "none"
             \/ Left \/ (Orphaned /\ Held)
          /\ seq.spec /\ ~IsOutgoing(trunk) /\ Untold
          /\ \/ StateOf(trunk) = "accepting" /\ DueOf(trunk) = {}
             \/ StateOf(trunk) = "connected" /\ DueOf(trunk) = {"connected"}
             \/ /\ StateOf(trunk) = "cleared" /\ "remote" \in DueOf(trunk)
                /\ DueOf(trunk) \subseteq {"connected", "remote"}

Succeeded ==
    /\ worker.ok /\ worker.then = "none" /\ AtRest
    /\ seq.spec /\ ~IsOutgoing(trunk)
    /\ \/ StateOf(trunk) = "connected" /\ DueOf(trunk) = {}
       \/ StateOf(trunk) = "cleared" /\ DueOf(trunk) = {"remote"}

Failed ==
    /\ ~worker.ok /\ worker.then = "disconnect" /\ (AtRest \/ iface = "accepting")
    /\ StateOf(trunk) = "cleared" /\ DueOf(trunk) = {}

AcceptEnds ==
    /\ trunk.cmd = "none" /\ trunk.callref = trunk.last /\ Untold
    /\ Succeeded \/ Failed
    /\ \/ worker.pc = "acceptDone" /\ Answering /\ iface \in {"none", "accepting"}
       \/ /\ worker.pc = "accepted" /\ worker.ok /\ iface = "none"
          /\ Owned /\ OpCmd = "ACPT" /\ OpAnswer = "ok"
       \/ /\ worker.pc = "accepted" /\ ~worker.ok
          /\ InHand /\ ~seq.named /\ seq.interface /\ seq.disconnecting = 0
          /\ OpCmd = "ACPT" /\ OpAnswer = "failed"
          /\ iface \in {"none", "accepting"}
       \/ /\ worker.pc \in {"acceptDone", "accepted"}
          /\ AtRest /\ (Left \/ (Orphaned /\ Held))

(* The driver clears a call that was hung up and reports it idle.           *)
Clearing ==
    /\ StateOf(trunk) \in {"clearing", "idle"}
    /\ StateOf(trunk) = "idle" <=> "idle" \in DueOf(trunk)
    /\ {"incoming", "outgoing"} \cap DueOf(trunk) = {}

Reported ==
    /\ StateOf(trunk) = "idle" /\ DueOf(trunk) = {} /\ trunk.callref = 0
    /\ worker.then = "release"

Ends ==
    /\ Dropped \/ Rejected
    /\ AtRest
    /\ \/ /\ trunk.cmd = "disconnect" /\ trunk.callref = trunk.last /\ Clearing
          /\ \/ worker.pc = "none" /\ worker.then = "none"
             \/ /\ worker.pc = "disconnectRequest" /\ worker.then = "none"
                /\ Dropped /\ "connected" \notin DueOf(trunk)
             \/ /\ worker.pc \in {"acceptDone", "accepted"}
                /\ worker.then = IF worker.ok THEN "none" ELSE "disconnect"
                /\ worker.ok => seq.media
                /\ Orphaned /\ "connected" \notin DueOf(trunk)
       \/ /\ trunk.cmd = "none" /\ worker.pc = "disconnectDone"
          /\ {"connected", "remote"} \cap DueOf(trunk) = {}
          /\ \/ Clearing /\ worker.then = "none"
             \/ Reported

Gone ==
    /\ NoCall
    /\ IF seq.connect = 0 THEN AtRest /\ trunk.cmd # "connect"
       ELSE iface = "connecting" /\ seq.media
    /\ trunk.cmd # "accept"
    /\ worker.pc \in {"none", "disconnectDone", "disconnectRequest", "connectDone"}
    /\ worker.pc = "connectDone" => seq.connect # 0 /\ ~worker.ok
    /\ \/ /\ worker.then = "disconnect" /\ worker.pc = "none"
          /\ \/ StateOf(trunk) = "cleared" /\ DueOf(trunk) = {}
             \/ Clearing
       \/ /\ worker.then = "none" /\ Clearing /\ "connected" \notin DueOf(trunk)
          /\ "remote" \in DueOf(trunk) => trunk.cmd = "disconnect"
       \/ /\ Reported /\ trunk.cmd # "disconnect"
          /\ worker.pc = "none" /\ iface = "connecting" => trunk.cmd = "connect"

Stage ==
    \/ Waits \/ Arrives \/ Dials \/ Talks
    \/ Accepting \/ AcceptEnds \/ Ends \/ Gone

IInv == troubles = {} => Kept /\ Stage


----------------------------------------------------------------------------
(*                       What the operations do                             *)

LEMMA NullIsNoHandle == 0 \notin Handles /\ Handles \subseteq Nat
BY LineAssumption

(* What the commands of the trunk and its call references leave alone       *)
SameHandles(u, t) ==
    /\ u.state = t.state /\ u.events = t.events /\ u.handle = t.handle
    /\ u.shadow = t.shadow /\ u.out = t.out

SameLabels(u, t) ==
    u.cmd = t.cmd /\ u.callref = t.callref /\ u.last = t.last

LEMMA KeepsHandles ==
    ASSUME NEW t, NEW u, WellKept(t), u \in TrunkType, SameHandles(u, t),
           u.callref \in {0, u.last}
    PROVE  /\ WellKept(u)
           /\ StateOf(u) = StateOf(t) /\ DueOf(u) = DueOf(t)
           /\ IsOutgoing(u) = IsOutgoing(t)
<1>1. Orderly(u)
  BY DEF SameHandles, WellKept, Orderly
<1>2. HandlesWell(u) /\ IsOutgoing(u) = IsOutgoing(t)
  BY DEF SameHandles, WellKept, HandlesWell, IsOutgoing
<1>3. StateOf(u) = StateOf(t) /\ DueOf(u) = DueOf(t)
  BY DEF SameHandles, StateOf, DueOf
<1>. QED  BY <1>1, <1>2, <1>3 DEF WellKept

(* The call changes its state: what hangs up, accepts or reports            *)
LEMMA ChangesState ==
    ASSUME NEW t, NEW u, WellKept(t), u \in TrunkType, NEW s, s # "closed",
           s \in HandleStates,
           u.state = [t.state EXCEPT ![t.handle] = s],
           u.handle = t.handle, u.shadow = t.shadow, u.out = t.out,
           u.callref = t.callref, u.last = t.last
    PROVE  HandlesWell(u) /\ StateOf(u) = s /\ IsOutgoing(u) = IsOutgoing(t)
<1>1. t \in TrunkType
  BY DEF WellKept
<1>2. t.state \in [Handles -> HandleStates] /\ t.handle \in Handles
  BY <1>1 DEF TrunkType
<1>3. StateOf(u) = s /\ IsOutgoing(u) = IsOutgoing(t)
  BY <1>2 DEF StateOf, IsOutgoing
<1>4. ASSUME NEW h \in Handles, u.state[h] # "closed"
      PROVE  h \in {u.handle, u.shadow}
  BY <1>2, <1>4 DEF WellKept, HandlesWell
<1>5. ASSUME u.shadow # 0
      PROVE  u.state[u.shadow] = "waiting" /\ u.shadow # u.handle
  <2>1. t.shadow # 0 /\ t.state[t.shadow] = "waiting" /\ t.shadow # t.handle
    BY <1>5 DEF WellKept, HandlesWell
  <2>2. t.shadow \in Handles
    BY <2>1, <1>1 DEF TrunkType
  <2>. QED  BY <2>1, <2>2, <1>2
<1>6. /\ u.shadow \notin u.out /\ (u.shadow # 0 <=> IsOutgoing(u))
      /\ u.callref \in {0, u.last}
  BY <1>3 DEF WellKept, HandlesWell
<1>. QED  BY <1>3, <1>4, <1>5, <1>6 DEF HandlesWell

LEMMA AppendsEvent ==
    ASSUME NEW t, WellKept(t), NEW s \in HandleStates, s # "closed",
           NEW e \in CallEvents, \A x \in DueOf(t) : Rank(x) < Rank(e),
           NEW u, u = Reports(t, t.handle, s, e)
    PROVE  /\ WellKept(u)
           /\ StateOf(u) = s /\ DueOf(u) = DueOf(t) \cup {e}
           /\ IsOutgoing(u) = IsOutgoing(t) /\ SameLabels(u, t)
<1>1. t \in TrunkType
  BY DEF WellKept
<1>2. /\ t.state \in [Handles -> HandleStates] /\ t.handle \in Handles
      /\ t.events \in Seq(Events)
  BY <1>1 DEF TrunkType
<1>3. /\ u.state = [t.state EXCEPT ![t.handle] = s]
      /\ u.events = Append(t.events, <<t.handle, e>>)
      /\ u.handle = t.handle /\ u.shadow = t.shadow /\ u.out = t.out
      /\ u.cmd = t.cmd /\ u.callref = t.callref /\ u.last = t.last
  BY <1>1 DEF Reports, TrunkType
<1>4. <<t.handle, e>> \in Events
  BY <1>2 DEF Events
<1>5. u \in TrunkType
  <2>1. /\ [t.state EXCEPT ![t.handle] = s] \in [Handles -> HandleStates]
        /\ Append(t.events, <<t.handle, e>>) \in Seq(Events)
    BY <1>2, <1>4
  <2>2. PICK states : states = [t.state EXCEPT ![t.handle] = s]
    OBVIOUS
  <2>3. PICK events : events = Append(t.events, <<t.handle, e>>)
    OBVIOUS
  <2>4. u = [t EXCEPT !.state = states, !.events = events]
    BY <1>1, <2>2, <2>3 DEF Reports, TrunkType
  <2>. QED  BY <1>1, <2>1, <2>2, <2>3, <2>4 DEF TrunkType
<1>6. HandlesWell(u) /\ StateOf(u) = s /\ IsOutgoing(u) = IsOutgoing(t)
  BY <1>3, <1>5, ChangesState
<1>7. PICK n \in Nat : n = Len(t.events) /\ DOMAIN t.events = 1..n
  BY <1>2
<1>8. /\ DOMAIN u.events = 1..(n + 1)
      /\ u.events[n + 1] = <<t.handle, e>>
      /\ \A i \in 1..n : u.events[i] = t.events[i]
  BY <1>2, <1>3, <1>4, <1>7
<1>9. DueOf(u) = DueOf(t) \cup {e}
  BY <1>7, <1>8 DEF DueOf
<1>10. Orderly(u)
  <2>1. \A i \in DOMAIN u.events : u.events[i][1] = u.handle
    BY <1>3, <1>7, <1>8 DEF WellKept, Orderly
  <2>2. ASSUME NEW i \in DOMAIN u.events, NEW j \in DOMAIN u.events, i < j
        PROVE  Rank(u.events[i][2]) < Rank(u.events[j][2])
    <3>1. i \in 1..n
      BY <2>2, <1>7, <1>8
    <3>2. CASE j \in 1..n
      BY <3>1, <3>2, <2>2, <1>7, <1>8 DEF WellKept, Orderly
    <3>3. CASE j = n + 1
      <4>1. u.events[i][2] \in DueOf(t)
        BY <3>1, <1>7, <1>8 DEF DueOf
      <4>. QED  BY <4>1, <3>3, <1>8
    <3>. QED  BY <3>2, <3>3, <1>7, <1>8
  <2>. QED  BY <2>1, <2>2 DEF Orderly
<1>. QED  BY <1>3, <1>5, <1>6, <1>9, <1>10 DEF WellKept, SameLabels

LEMMA TakesEvent ==
    ASSUME NEW t, WellKept(t), t.events # << >>,
           NEW u, u \in TrunkType, u.events = Tail(t.events), u.state = t.state,
           u.handle = t.handle, u.shadow = t.shadow, u.out = t.out,
           u.callref \in {0, u.last}
    PROVE  /\ WellKept(u)
           /\ StateOf(u) = StateOf(t) /\ IsOutgoing(u) = IsOutgoing(t)
           /\ Head(t.events)[2] \in DueOf(t)
           /\ DueOf(u) = DueOf(t) \ {Head(t.events)[2]}
           /\ \A x \in DueOf(u) : Rank(Head(t.events)[2]) < Rank(x)
<1>1. t \in TrunkType
  BY DEF WellKept
<1>2. t.events \in Seq(Events)
  BY <1>1 DEF TrunkType
<1>3. HandlesWell(u) /\ StateOf(u) = StateOf(t) /\ IsOutgoing(u) = IsOutgoing(t)
  BY DEF WellKept, HandlesWell, StateOf, IsOutgoing
<1>4. PICK n \in Nat : n + 1 = Len(t.events) /\ DOMAIN t.events = 1..(n + 1)
  <2>1. Len(t.events) \in Nat /\ Len(t.events) # 0
    BY <1>2
  <2>2. Len(t.events) - 1 \in Nat /\ (Len(t.events) - 1) + 1 = Len(t.events)
    BY <2>1
  <2>3. DOMAIN t.events = 1..Len(t.events)
    BY <1>2
  <2>. QED  BY <2>2, <2>3
<1>5. /\ DOMAIN u.events = 1..n
      /\ \A i \in 1..n : u.events[i] = t.events[i + 1]
      /\ Head(t.events) = t.events[1]
  BY <1>2, <1>4
<1>6. \A i \in 1..(n + 1) : Rank(t.events[i][2]) \in Nat
  BY DEF Rank
<1>7. \A i, j \in 1..(n + 1) : i < j => Rank(t.events[i][2]) < Rank(t.events[j][2])
  BY <1>4 DEF WellKept, Orderly
<1>8. Orderly(u)
  <2>1. \A i \in DOMAIN u.events : u.events[i][1] = u.handle
    BY <1>4, <1>5 DEF WellKept, Orderly
  <2>2. \A i, j \in DOMAIN u.events :
           i < j => Rank(u.events[i][2]) < Rank(u.events[j][2])
    BY <1>5, <1>7
  <2>. QED  BY <2>1, <2>2 DEF Orderly
<1>9. \A x \in DueOf(u) : Rank(t.events[1][2]) < Rank(x)
  BY <1>5, <1>7 DEF DueOf
<1>10. t.events[1][2] \in DueOf(t)
  BY <1>4 DEF DueOf
<1>11. \A x \in DueOf(u) : x \in DueOf(t) /\ x # t.events[1][2]
  <2>1. \A x \in DueOf(u) : x \in DueOf(t)
    BY <1>4, <1>5 DEF DueOf
  <2>2. \A x \in DueOf(u) : x # t.events[1][2]
    BY <1>9, <1>6
  <2>. QED  BY <2>1, <2>2
<1>12. \A x \in DueOf(t) : x # t.events[1][2] => x \in DueOf(u)
  <2>1. SUFFICES ASSUME NEW i \in 1..(n + 1), t.events[i][2] # t.events[1][2]
                 PROVE  t.events[i][2] \in DueOf(u)
    BY <1>4 DEF DueOf
  <2>2. i - 1 \in 1..n /\ (i - 1) + 1 = i
    BY <2>1
  <2>. QED  BY <2>2, <1>5 DEF DueOf
<1>13. DueOf(u) = DueOf(t) \ {t.events[1][2]}
  BY <1>11, <1>12
<1>. QED  BY <1>3, <1>5, <1>8, <1>9, <1>10, <1>13 DEF WellKept


LEMMA FreeHandleExists ==
    ASSUME NEW t, NEW closed \in Handles, t.state[closed] = "closed"
    PROVE  FreeHandle(t) \in Handles /\ t.state[FreeHandle(t)] = "closed"
<1>1. PICK T : T = {h \in Handles : t.state[h] = "closed"}
  OBVIOUS
<1>2. T \subseteq Nat /\ T # {}
  BY <1>1, NullIsNoHandle
<1>3. PICK least \in T : \A n \in T : least <= n
  BY <1>2, LeastNumber
<1>4. \E h \in Handles :
         /\ t.state[h] = "closed"
         /\ \A other \in Handles : t.state[other] = "closed" => h <= other
  BY <1>1, <1>3
<1>. QED  BY <1>4 DEF FreeHandle

LEMMA NothingDue ==
    ASSUME NEW t, WellKept(t), DueOf(t) = {}
    PROVE  t.events = << >>
<1>1. t.events \in Seq(Events)
  BY DEF WellKept, TrunkType
<1>2. DOMAIN t.events = 1..Len(t.events) /\ Len(t.events) \in Nat
  BY <1>1
<1>3. ~(1 \in DOMAIN t.events)
  BY DEF DueOf
<1>4. Len(t.events) = 0
  BY <1>2, <1>3
<1>. QED  BY <1>1, <1>4

LEMMA NothingOrdered ==
    ASSUME NEW t, t.events = << >>
    PROVE  Orderly(t) /\ DueOf(t) = {}
BY DEF Orderly, DueOf

(* call_openout() while the port listens                                    *)
LEMMA OpensAnother ==
    ASSUME NEW t, WellKept(t), ~IsOutgoing(t), StateOf(t) = "waiting",
           DueOf(t) = {},
           NEW u, u = [Opens(t, FreeHandle(t), "dialing") EXCEPT
                         !.shadow = t.handle, !.out = @ \cup {FreeHandle(t)}]
    PROVE  /\ WellKept(u)
           /\ StateOf(u) = "dialing" /\ DueOf(u) = {} /\ IsOutgoing(u)
           /\ SameLabels(u, t)
<1>1. t \in TrunkType /\ t.shadow = 0
  BY DEF WellKept, HandlesWell
<1>2. /\ t.state \in [Handles -> HandleStates] /\ t.handle \in Handles
      /\ t.out \in SUBSET Handles
  BY <1>1 DEF TrunkType
<1>3. \E h \in {1, 2} : h # t.handle
  OBVIOUS
<1>4. PICK spare \in Handles : t.state[spare] = "closed"
  BY <1>1, <1>3, NullIsNoHandle, LineAssumption DEF WellKept, HandlesWell
<1>5. PICK f : f = FreeHandle(t)
  OBVIOUS
<1>6. f \in Handles /\ t.state[f] = "closed"
  BY <1>4, <1>5, FreeHandleExists
<1>7. f # t.handle /\ f # 0
  BY <1>6, NullIsNoHandle DEF StateOf
<1>8. /\ u.state = [t.state EXCEPT ![f] = "dialing"] /\ u.events = t.events
      /\ u.handle = f /\ u.shadow = t.handle /\ u.out = t.out \cup {f}
      /\ u.cmd = t.cmd /\ u.callref = t.callref /\ u.last = t.last
  BY <1>1, <1>5 DEF Opens, TrunkType
<1>9. u \in TrunkType
  <2>1. [t.state EXCEPT ![f] = "dialing"] \in [Handles -> HandleStates]
    BY <1>2, <1>6 DEF HandleStates
  <2>2. PICK states : states = [t.state EXCEPT ![f] = "dialing"]
    OBVIOUS
  <2>3. u = [t EXCEPT !.state = states, !.handle = f, !.shadow = t.handle,
                      !.out = t.out \cup {f}]
    BY <1>1, <1>5, <2>2 DEF Opens, TrunkType
  <2>4. t.out \cup {f} \in SUBSET Handles
    BY <1>2, <1>6
  <2>. QED  BY <1>1, <1>2, <1>6, <2>1, <2>2, <2>3, <2>4 DEF TrunkType
<1>10. Orderly(u) /\ DueOf(u) = {}
  BY <1>8, NothingDue, NothingOrdered
<1>11. HandlesWell(u)
  <2>1. ASSUME NEW h \in Handles, u.state[h] # "closed"
        PROVE  h \in {u.handle, u.shadow}
    <3>1. CASE h = f
      BY <3>1, <1>8
    <3>2. CASE h # f
      <4>1. t.state[h] # "closed"
        BY <3>2, <2>1, <1>2, <1>6, <1>8
      <4>2. h = t.handle \/ h = 0
        BY <4>1, <1>1 DEF WellKept, HandlesWell
      <4>. QED  BY <4>2, <1>8, NullIsNoHandle
    <3>. QED  BY <3>1, <3>2
  <2>2. u.state[u.shadow] = "waiting" /\ u.shadow # u.handle
    BY <1>2, <1>6, <1>7, <1>8 DEF StateOf
  <2>3. u.shadow \notin u.out /\ u.shadow # 0 /\ IsOutgoing(u)
    BY <1>2, <1>7, <1>8, NullIsNoHandle DEF IsOutgoing
  <2>4. u.callref \in {0, u.last}
    BY <1>8 DEF WellKept, HandlesWell
  <2>. QED  BY <2>1, <2>2, <2>3, <2>4 DEF HandlesWell
<1>. QED
  BY <1>2, <1>6, <1>8, <1>9, <1>10, <1>11 DEF WellKept, StateOf, IsOutgoing, SameLabels

LEMMA NothingRemains == \A S : Only(<< >>, S) = << >>
<1>1. SUFFICES ASSUME NEW S PROVE Only(<< >>, S) = << >>
  OBVIOUS
<1>2. << >> \in Seq({}) /\ Len(<< >>) = 0
  OBVIOUS
<1>3. PICK f : /\ f = [n \in 0..Len(<< >>) |->
                          IF n = 0 THEN << >>
                          ELSE IF << >>[n] \in S THEN Append(f[n - 1], << >>[n])
                          ELSE f[n - 1]]
               /\ Only(<< >>, S) = f[Len(<< >>)]
  BY <1>2, OnlyRecursion
<1>4. f[0] = << >>
  BY <1>2, <1>3
<1>. QED  BY <1>2, <1>3, <1>4

(* The end of a call, with all its events taken                             *)
LEMMA ListensAgain ==
    ASSUME NEW t, WellKept(t), DueOf(t) = {}, t.callref = 0,
           NEW u, u = IF t.shadow # 0
                      THEN [Release(t) EXCEPT !.handle = t.shadow, !.shadow = 0]
                      ELSE Listen(Release(t))
    PROVE  /\ WellKept(u)
           /\ StateOf(u) = "waiting" /\ DueOf(u) = {} /\ ~IsOutgoing(u)
           /\ SameLabels(u, t)
<1>1. t \in TrunkType /\ t.events = << >>
  BY NothingDue DEF WellKept
<1>2. /\ t.state \in [Handles -> HandleStates] /\ t.handle \in Handles
      /\ t.out \in SUBSET Handles /\ t.shadow \in Handles \cup {0}
  BY <1>1 DEF TrunkType
<1>3. PICK r : r = Release(t)
  OBVIOUS
<1>4. Only(t.events, OfOthers(t.handle)) = << >>
  BY <1>1, NothingRemains
<1>5. PICK closed : closed = [t.state EXCEPT ![t.handle] = "closed"]
  OBVIOUS
<1>6. r = [t EXCEPT !.state = closed, !.events = << >>]
  BY <1>1, <1>3, <1>4, <1>5 DEF Release, TrunkType
<1>7. closed \in [Handles -> HandleStates]
  BY <1>2, <1>5 DEF HandleStates
<1>8. CASE t.shadow # 0
  <2>1. u = [t EXCEPT !.state = closed, !.events = << >>, !.handle = t.shadow,
                      !.shadow = 0]
    BY <1>1, <1>3, <1>6, <1>8 DEF TrunkType
  <2>2. u \in TrunkType
    BY ZenonT(30), <1>1, <1>2, <1>7, <1>8, <2>1 DEF TrunkType
  <2>3. /\ u.state = closed /\ u.events = << >> /\ u.handle = t.shadow
        /\ u.shadow = 0 /\ u.out = t.out
        /\ u.cmd = t.cmd /\ u.callref = t.callref /\ u.last = t.last
    BY <1>1, <2>1 DEF TrunkType
  <2>4. /\ t.state[t.shadow] = "waiting" /\ t.shadow # t.handle
        /\ t.shadow \notin t.out
    BY <1>8 DEF WellKept, HandlesWell
  <2>5. StateOf(u) = "waiting" /\ ~IsOutgoing(u)
    BY <1>2, <1>5, <1>8, <2>3, <2>4 DEF StateOf, IsOutgoing
  <2>6. ASSUME NEW h \in Handles, u.state[h] # "closed"
        PROVE  h \in {u.handle, u.shadow}
    BY <1>2, <1>5, <2>3, <2>6 DEF WellKept, HandlesWell
  <2>7. u.shadow \notin u.out /\ u.callref \in {0, u.last}
    BY <1>2, <2>3, NullIsNoHandle DEF WellKept, HandlesWell
  <2>8. HandlesWell(u)
    BY <2>3, <2>5, <2>6, <2>7 DEF HandlesWell
  <2>. QED  BY <2>2, <2>3, <2>5, <2>8, NothingOrdered DEF WellKept, SameLabels
<1>9. CASE t.shadow = 0
  <2>1. PICK f : f = FreeHandle(r)
    OBVIOUS
  <2>2. r.state = closed /\ r.out = t.out
    BY <1>1, <1>6 DEF TrunkType
  <2>3. r.state[t.handle] = "closed"
    BY <1>2, <1>5, <2>2
  <2>4. f \in Handles /\ closed[f] = "closed"
    BY <1>2, <2>1, <2>2, <2>3, FreeHandleExists
  <2>5. PICK waits : waits = [closed EXCEPT ![f] = "waiting"]
    OBVIOUS
  <2>6. waits \in [Handles -> HandleStates]
    BY <1>7, <2>5 DEF HandleStates
  <2>7. u = [t EXCEPT !.state = waits, !.events = << >>, !.handle = f,
                      !.out = t.out \ {f}]
    BY <1>1, <1>3, <1>6, <1>9, <2>1, <2>2, <2>5 DEF Listen, Opens, TrunkType
  <2>8. t.out \ {f} \in SUBSET Handles
    BY <1>2
  <2>9. u \in TrunkType
    BY <1>1, <2>4, <2>6, <2>7, <2>8 DEF TrunkType
  <2>10. /\ u.state = waits /\ u.events = << >> /\ u.handle = f
         /\ u.shadow = 0 /\ u.out = t.out \ {f}
         /\ u.cmd = t.cmd /\ u.callref = t.callref /\ u.last = t.last
    BY <1>1, <1>9, <2>7 DEF TrunkType
  <2>11. StateOf(u) = "waiting" /\ ~IsOutgoing(u)
    BY <1>7, <2>4, <2>5, <2>10 DEF StateOf, IsOutgoing
  <2>12. ASSUME NEW h \in Handles, u.state[h] # "closed"
         PROVE  h \in {u.handle, u.shadow}
    <3>1. CASE h = f
      BY <3>1, <2>10
    <3>2. CASE h # f
      <4>1. closed[h] # "closed"
        BY <3>2, <1>7, <2>5, <2>10, <2>12
      <4>2. h # t.handle /\ t.state[h] # "closed"
        BY <4>1, <1>2, <1>5
      <4>3. h = 0
        BY <4>2, <1>9 DEF WellKept, HandlesWell
      <4>. QED  BY <4>3, NullIsNoHandle
    <3>. QED  BY <3>1, <3>2
  <2>13. u.shadow \notin u.out /\ u.callref \in {0, u.last}
    BY <1>2, <2>10, NullIsNoHandle DEF WellKept, HandlesWell
  <2>14. HandlesWell(u)
    BY <2>10, <2>11, <2>12, <2>13 DEF HandlesWell
  <2>. QED  BY <2>9, <2>10, <2>11, <2>14, NothingOrdered DEF WellKept, SameLabels
<1>. QED  BY <1>8, <1>9


----------------------------------------------------------------------------
(*                      The driver reports an event                         *)

LEMMA DueType == ASSUME NEW t, WellKept(t) PROVE DueOf(t) \subseteq CallEvents
<1>1. t.events \in Seq(Events)
  BY DEF WellKept, TrunkType
<1>2. \A i \in DOMAIN t.events : t.events[i] \in Events
  BY <1>1
<1>. QED  BY <1>2 DEF DueOf, Events

(* In a state of the call these events may be due.                          *)
LEMMA DueByState ==
    ASSUME Kept, Stage
    PROVE  /\ StateOf(trunk) \in {"waiting", "accepting", "dialing"} => DueOf(trunk) = {}
           /\ StateOf(trunk) = "ringing" => DueOf(trunk) \subseteq {"incoming"}
           /\ StateOf(trunk) = "proceeding" => DueOf(trunk) \subseteq {"outgoing"}
           /\ StateOf(trunk) = "connected" =>
                 DueOf(trunk) \subseteq {"outgoing", "connected"}
           /\ StateOf(trunk) = "clearing" =>
                 DueOf(trunk) \subseteq {"connected", "remote"}
           /\ StateOf(trunk) # "closed"
           /\ DueOf(trunk) \subseteq CallEvents
<1>1. DueOf(trunk) \subseteq CallEvents
  BY DueType DEF Kept
<1>2. CASE Waits
  BY <1>1, <1>2 DEF Waits
<1>3. CASE Arrives
  BY <1>1, <1>3 DEF Arrives
<1>4. CASE Dials
  BY <1>1, <1>4 DEF Dials, Dialing, Dialed, CallEvents
<1>5. CASE Talks
  BY <1>1, <1>5 DEF Talks, Stands, HungUp, AtRest, Left, Held
<1>6. CASE Accepting
  BY <1>1, <1>6 DEF Accepting, Stands, HungUp, AtRest, Left, Held
<1>7. CASE AcceptEnds
  BY <1>1, <1>7 DEF AcceptEnds, Succeeded, Failed, AtRest, Left, Held
<1>8. CASE Ends
  BY <1>1, <1>8 DEF Ends, Clearing, Reported, CallEvents, AtRest
<1>9. CASE Gone
  BY <1>1, <1>9 DEF Gone, Clearing, Reported, CallEvents, AtRest
<1>. QED  BY <1>2, <1>3, <1>4, <1>5, <1>6, <1>7, <1>8, <1>9 DEF Stage

(* What the driver reports of a call, and when                              *)
Reporting(from, to, event) ==
    \/ from = "waiting" /\ to = "ringing" /\ event = "incoming"
    \/ from = "accepting" /\ to = "connected" /\ event = "connected"
    \/ from = "dialing" /\ to = "proceeding" /\ event = "outgoing"
    \/ from = "proceeding" /\ to = "connected" /\ event = "connected"
    \/ from = "clearing" /\ to = "idle" /\ event = "idle"
    \/ from \in InCall /\ to = "cleared" /\ event = "remote"
    \/ from \in {"dialing", "proceeding"} /\ to = "idle" /\ event = "idle"

LEMMA ReportsInStages ==
    ASSUME Stage, NEW to, NEW event,
           Reporting(StateOf(trunk), to, event),
           StateOf(trunk)' = to, DueOf(trunk)' = DueOf(trunk) \cup {event},
           IsOutgoing(trunk)' = IsOutgoing(trunk), SameLabels(trunk', trunk),
           DueOf(trunk) \subseteq CallEvents,
           UNCHANGED <<seq, tx, worker, iface, media>>
    PROVE  Stage'
<1>. USE DEF SameLabels, Reporting, InCall
<1>1. CASE Waits
  <2>1. Arrives'
    BY <1>1 DEF Waits, Arrives, NoCall, Idling, AtRest
  <2>. QED  BY <2>1 DEF Stage
<1>2. CASE Arrives
  <2>1. Arrives'
    BY <1>2 DEF Arrives, NoCall, Idling, AtRest
  <2>. QED  BY <2>1 DEF Stage
<1>3. CASE Dials
  <2>1. Dials'
    BY <1>3 DEF Dials, Dialing, Dialed, NoCall
  <2>. QED  BY <2>1 DEF Stage
<1>4. CASE Talks
  <2>1. Talks'
    BY <1>4
      DEF Talks, Stands, HungUp, Untold, Owned, Dropped, Orphaned, InHand, OpCmd,
          OpAnswer, AtRest, Left, Held
  <2>. QED  BY <2>1 DEF Stage
<1>5. CASE Accepting
  <2>1. Accepting'
    BY <1>5
      DEF Accepting, Stands, HungUp, Untold, Answering, Owned, Orphaned, InHand,
          OpCmd, OpAnswer, AtRest, Left, Held
  <2>. QED  BY <2>1 DEF Stage
<1>6. CASE AcceptEnds
  <2>1. AcceptEnds'
    BY <1>6
      DEF AcceptEnds, Succeeded, Failed, Untold, Answering, Owned, Orphaned, InHand,
          OpCmd, OpAnswer, AtRest, Left, Held
  <2>. QED  BY <2>1 DEF Stage
<1>7. CASE Ends
  <2>1. Ends'
    BY <1>7
      DEF Ends, Dropped, Rejected, Orphaned, InHand, OpCmd, OpAnswer, Clearing,
          Reported, AtRest, Left, Held
  <2>. QED  BY <2>1 DEF Stage
<1>8. CASE Gone
  <2>1. Gone'
    BY <1>8 DEF Gone, NoCall, Clearing, Reported, AtRest
  <2>. QED  BY <2>1 DEF Stage
<1>. QED  BY <1>1, <1>2, <1>3, <1>4, <1>5, <1>6, <1>7, <1>8 DEF Stage


(* Without trouble a step keeps the line in order and is a step of the call *)
(* that the client sees.                                                    *)
Proper == Kept' /\ Stage' /\ [TheCall!CallNext]_(TheCall!callVars)

LEMMA OthersKept ==
    ASSUME Kept, WellKept(trunk)', worker' \in WorkerType, UNCHANGED <<seq, tx>>
    PROVE  Kept'
BY DEF Kept, TxWell, MediaWell, ConnFailed

(* Steps that the client does not see                                       *)
LEMMA Unseen ==
    ASSUME troubles = {}, troubles' = {}, tx' = tx,
           (seq.sentRdis' # 0 /\ seq.interface') <=> (seq.sentRdis # 0 /\ seq.interface),
           PhaseOfCall' = PhaseOfCall
    PROVE  [TheCall!CallNext]_(TheCall!callVars)
BY DEF TheCall!callVars

LEMMA SamePhase ==
    ASSUME troubles = {}, troubles' = {}, UNCHANGED <<seq, tx>>,
           \/ seq.callref = 0
           \/ /\ IsOutgoing(trunk)' = IsOutgoing(trunk)
              /\ worker.pc' = "accepted" <=> worker.pc = "accepted"
    PROVE  [TheCall!CallNext]_(TheCall!callVars)
<1>1. PhaseOfCall' = PhaseOfCall
  BY DEF PhaseOfCall, IsOutgoing
<1>. QED  BY <1>1, Unseen

LEMMA DriverReports ==
    ASSUME Kept, Stage, troubles = {}, troubles' = {}, Driver
    PROVE  Proper
<1>1. PICK h \in Handles :
         \/ Rings(h) \/ Answers(h) \/ Proceeds(h) \/ IsAnswered(h) \/ Clears(h)
         \/ FarEndHangsUp(h) \/ GetsNoAnswer(h) \/ IsLost(h)
  BY DEF Driver
<1>2. ~IsLost(h)
  BY DEF IsLost, Trouble
<1>3. UNCHANGED <<seq, tx, worker, iface, media>>
  BY <1>1 DEF Rings, Answers, Proceeds, IsAnswered, Clears, FarEndHangsUp,
              GetsNoAnswer, IsLost, DriverStep
<1>4. WellKept(trunk) /\ trunk \in TrunkType
  BY DEF Kept, WellKept
<1>5. h = trunk.handle
  <2>1. CASE Rings(h)
    BY <2>1 DEF Rings, TroubleIf, Trouble
  <2>2. CASE ~Rings(h)
    <3>1. trunk.state[h] \notin {"closed", "waiting"}
      BY <1>1, <1>2, <2>2 DEF Answers, Proceeds, IsAnswered, Clears,
                              FarEndHangsUp, GetsNoAnswer, DriverStep, InCall
    <3>2. h = trunk.shadow => trunk.state[h] = "waiting"
      BY <1>4, NullIsNoHandle DEF WellKept, HandlesWell
    <3>. QED  BY <3>1, <3>2, <1>4 DEF WellKept, HandlesWell
  <2>. QED  BY <2>1, <2>2
<1>6. PICK to \in HandleStates, event \in CallEvents :
         /\ Reporting(StateOf(trunk), to, event)
         /\ \/ trunk' = Reports(trunk, h, to, event)
            \/ trunk' = [Reports(trunk, h, to, event) EXCEPT !.calls = @ + 1]
  <2>. USE <1>5 DEF Reporting, StateOf, HandleStates, CallEvents
  <2>1. CASE Rings(h)
    BY <2>1 DEF Rings
  <2>2. CASE Answers(h) \/ Proceeds(h) \/ IsAnswered(h) \/ Clears(h)
    BY <2>2 DEF Answers, Proceeds, IsAnswered, Clears, DriverStep
  <2>3. CASE FarEndHangsUp(h) \/ GetsNoAnswer(h)
    BY <2>3 DEF FarEndHangsUp, GetsNoAnswer, DriverStep
  <2>. QED  BY <1>1, <1>2, <2>1, <2>2, <2>3
<1>7. to # "closed"
  BY <1>6 DEF Reporting
<1>8. \A x \in DueOf(trunk) : Rank(x) < Rank(event)
  BY <1>6, DueByState DEF Reporting, Rank, CallEvents, InCall
<1>9. PICK t : t = Reports(trunk, h, to, event)
  OBVIOUS
<1>10. /\ WellKept(t)
       /\ StateOf(t) = to /\ DueOf(t) = DueOf(trunk) \cup {event}
       /\ IsOutgoing(t) = IsOutgoing(trunk) /\ SameLabels(t, trunk)
  BY <1>4, <1>5, <1>7, <1>8, <1>9, AppendsEvent
<1>11. /\ WellKept(trunk')
       /\ StateOf(trunk') = to /\ DueOf(trunk') = DueOf(trunk) \cup {event}
       /\ IsOutgoing(trunk') = IsOutgoing(trunk) /\ SameLabels(trunk', trunk)
  <2>1. CASE trunk' = t
    BY <2>1, <1>10
  <2>2. CASE trunk' = [t EXCEPT !.calls = @ + 1]
    <3>1. t \in TrunkType
      BY <1>10 DEF WellKept
    <3>2. trunk' \in TrunkType /\ SameHandles(trunk', t) /\ SameLabels(trunk', t)
      BY <3>1, <2>2 DEF TrunkType, SameHandles, SameLabels
    <3>3. trunk'.callref \in {0, trunk'.last}
      BY <3>2, <1>10 DEF SameLabels, WellKept, HandlesWell
    <3>. QED  BY <3>2, <3>3, <1>10, KeepsHandles DEF SameLabels
  <2>. QED  BY <2>1, <2>2, <1>6, <1>9
<1>12. Stage'
  BY <1>3, <1>6, <1>11, DueByState, ReportsInStages
<1>13. worker' \in WorkerType
  BY <1>3 DEF Kept
<1>. QED  BY <1>3, <1>11, <1>12, <1>13, OthersKept, SamePhase DEF Proper


----------------------------------------------------------------------------
(*                   The trunk thread takes an event                        *)

(* What all handlers of events begin with                                   *)
TakesFirst(event) ==
    /\ WellKept(trunk')
    /\ StateOf(trunk') = StateOf(trunk) /\ IsOutgoing(trunk') = IsOutgoing(trunk)
    /\ event \in DueOf(trunk) /\ DueOf(trunk') = DueOf(trunk) \ {event}
    /\ \A x \in DueOf(trunk') : Rank(event) < Rank(x)
    /\ worker.pc = "none" /\ worker.then = "none"

LEMMA EventTaken ==
    ASSUME Kept, NEW event, NextEvent(event)
    PROVE  /\ Taken \in TrunkType /\ Taken.events = Tail(trunk.events)
           /\ Taken.state = trunk.state /\ Taken.handle = trunk.handle
           /\ Taken.shadow = trunk.shadow /\ Taken.out = trunk.out
           /\ Taken.cmd = trunk.cmd /\ Taken.callref = trunk.callref
           /\ Taken.last = trunk.last
<1>1. trunk \in TrunkType
  BY DEF Kept, WellKept
<1>2. trunk.events # << >> /\ trunk.events \in Seq(Events)
  BY <1>1 DEF NextEvent, TrunkType
<1>3. PICK rest \in Seq(Events) : rest = Tail(trunk.events)
  <2>1. ASSUME NEW s \in Seq(Events), s # << >> PROVE Tail(s) \in Seq(Events)
    BY <2>1
  <2>. QED  BY <1>2, <2>1
<1>4. Taken = [trunk EXCEPT !.events = rest]
  BY <1>1, <1>3 DEF Taken
<1>. QED  BY <1>1, <1>3, <1>4 DEF TrunkType

LEMMA RelabelledTaken ==
    ASSUME Kept, NEW event, NextEvent(event),
           trunk' \in TrunkType, SameHandles(trunk', Taken),
           trunk'.callref \in {0, trunk'.last}
    PROVE  TakesFirst(event)
<1>1. WellKept(trunk)
  BY DEF Kept
<1>2. trunk.events # << >> /\ Head(trunk.events)[2] = event /\ worker = Waiting
  BY DEF NextEvent
<1>. QED
  BY <1>1, <1>2, EventTaken, TakesEvent DEF TakesFirst, Waiting, SameHandles

LEMMA FirstTaken ==
    ASSUME Kept, NEW event, NextEvent(event),
           NEW cmd \in TrunkCommands, NEW callref \in {0, trunk.last},
           \/ trunk' = [Taken EXCEPT !.cmd = cmd] /\ callref = trunk.callref
           \/ trunk' = [Taken EXCEPT !.cmd = cmd, !.callref = callref]
    PROVE  /\ TakesFirst(event)
           /\ trunk'.cmd = cmd /\ trunk'.callref = callref
           /\ trunk'.last = trunk.last
<1>1. PICK t \in TrunkType : t = Taken
  BY EventTaken
<1>2. t.last = trunk.last /\ t.callref = trunk.callref
  BY <1>1, EventTaken
<1>3. callref \in Nat
  BY <1>1, <1>2 DEF TrunkType
<1>4. /\ trunk' \in TrunkType /\ SameHandles(trunk', t)
      /\ trunk'.cmd = cmd /\ trunk'.callref = callref /\ trunk'.last = t.last
  BY <1>1, <1>2, <1>3 DEF TrunkType, SameHandles
<1>. QED  BY <1>1, <1>2, <1>4, RelabelledTaken

LEMMA NumberTaken ==
    ASSUME Kept, NEW event, NextEvent(event), trunk' = NewCallref(Taken)
    PROVE  /\ TakesFirst(event) /\ trunk'.cmd = trunk.cmd
           /\ trunk'.callref = trunk.last + 1 /\ trunk'.last = trunk.last + 1
<1>1. PICK t \in TrunkType : t = Taken
  BY EventTaken
<1>2. t.last = trunk.last /\ t.cmd = trunk.cmd /\ t.last \in Nat
  BY <1>1, EventTaken DEF TrunkType
<1>3. PICK next \in Nat : next = t.last + 1
  BY <1>2
<1>4. trunk' = [t EXCEPT !.callref = next, !.last = next]
  BY <1>1, <1>3 DEF NewCallref
<1>5. /\ trunk' \in TrunkType /\ SameHandles(trunk', t)
      /\ trunk'.cmd = t.cmd /\ trunk'.callref = next /\ trunk'.last = next
  BY <1>1, <1>3, <1>4 DEF TrunkType, SameHandles
<1>. QED  BY <1>1, <1>2, <1>3, <1>5, RelabelledTaken

LEMMA FirstIs ==
    ASSUME Kept, NEW event, TakesFirst(event)
    PROVE  /\ event = "idle" => DueOf(trunk') = {}
           /\ event = "remote" => DueOf(trunk') \subseteq {"idle"}
           /\ event = "connected" => DueOf(trunk') \subseteq {"remote", "idle"}
           /\ event \in {"incoming", "outgoing"} =>
                 DueOf(trunk') \subseteq {"connected", "remote", "idle"}
<1>1. DueOf(trunk) \subseteq CallEvents
  BY DueType DEF Kept
<1>2. DueOf(trunk') \subseteq CallEvents
  BY <1>1 DEF TakesFirst
<1>3. /\ event = "idle" => Rank(event) = 4
      /\ event = "remote" => Rank(event) = 3
      /\ event = "connected" => Rank(event) = 2
      /\ event \in {"incoming", "outgoing"} => Rank(event) = 1
  BY DEF Rank
<1>4. /\ Rank("incoming") = 1 /\ Rank("outgoing") = 1 /\ Rank("connected") = 2
      /\ Rank("remote") = 3 /\ Rank("idle") = 4
  BY DEF Rank
<1>5. \A x \in DueOf(trunk') : Rank(event) < Rank(x)
  BY DEF TakesFirst
<1>. QED  BY <1>2, <1>3, <1>4, <1>5 DEF CallEvents

LEMMA WorkerEnters ==
    ASSUME NEW pc, NEW then, NEW callref \in Nat, NEW ok \in BOOLEAN,
           Enters(pc, then, callref, ok),
           pc \in {"none", "connectRequest", "onIncoming", "connectDone",
                   "acceptDone", "accepted", "disconnectRequest", "disconnectDone"},
           then \in {"none", "release", "disconnect"}
    PROVE  /\ worker' \in WorkerType
           /\ worker'.pc = pc /\ worker'.then = then
           /\ worker'.callref = callref /\ worker'.ok = ok
BY DEF Enters, WorkerType

LEMMA TrunkFields ==
    ASSUME Kept
    PROVE  /\ trunk \in TrunkType /\ trunk.cmd \in TrunkCommands
           /\ trunk.callref \in Nat /\ trunk.last \in Nat
           /\ trunk.callref \in {0, trunk.last}
BY DEF Kept, WellKept, HandlesWell, TrunkType

LEMMA CallbackIs ==
    ASSUME NEW cmd
    PROVE  /\ cmd = "connect" => Callback(cmd) = "connectDone"
           /\ cmd = "disconnect" => Callback(cmd) = "disconnectDone"
           /\ cmd = "accept" => Callback(cmd) = "acceptDone"
           /\ cmd = "none" => Callback(cmd) = "disconnectRequest"
BY DEF Callback

LEMMA IdleTaken ==
    ASSUME Kept, Stage, troubles = {}, troubles' = {}, OnIdle
    PROVE  Proper
<1>. USE TrunkFields
<1>1. /\ NextEvent("idle") /\ trunk' = [Taken EXCEPT !.cmd = "none", !.callref = 0]
      /\ UNCHANGED <<seq, tx, iface, media>>
  BY DEF OnIdle
<1>2. /\ TakesFirst("idle") /\ DueOf(trunk') = {}
      /\ trunk'.cmd = "none" /\ trunk'.callref = 0 /\ trunk'.last = trunk.last
  <2>1. "none" \in TrunkCommands /\ 0 \in Nat
    BY DEF TrunkCommands
  <2>2. /\ TakesFirst("idle")
        /\ trunk'.cmd = "none" /\ trunk'.callref = 0 /\ trunk'.last = trunk.last
    BY <1>1, <2>1, FirstTaken
  <2>. QED  BY <2>2, FirstIs
<1>3. PICK pc : pc = Callback(trunk.cmd)
  OBVIOUS
<1>4. /\ trunk.cmd = "connect" => pc = "connectDone"
      /\ trunk.cmd = "disconnect" => pc = "disconnectDone"
      /\ trunk.cmd = "accept" => pc = "acceptDone"
      /\ trunk.cmd = "none" => pc = "disconnectRequest"
  BY <1>3, CallbackIs
<1>5. /\ worker' \in WorkerType
      /\ worker'.pc = pc /\ worker'.then = "release"
      /\ trunk.cmd = "disconnect" => worker'.ok
      /\ trunk.cmd # "disconnect" => ~worker'.ok
  <2>1. Enters(pc, "release", trunk.callref, trunk.cmd = "disconnect")
    BY <1>3 DEF OnIdle
  <2>2. (trunk.cmd = "disconnect") \in BOOLEAN
    OBVIOUS
  <2>. QED  BY <2>1, <2>2, <1>4, WorkerEnters DEF TrunkCommands
<1>6. worker.pc = "none" /\ worker.then = "none" /\ "idle" \in DueOf(trunk)
  BY <1>2 DEF TakesFirst
<1>7. ASSUME Dials PROVE Stage'
  <2>1. Dials'
    BY <1>1, <1>2, <1>4, <1>5, <1>6, <1>7
    DEF Dials, Dialing, Dialed, NoCall, TakesFirst
  <2>. QED  BY <2>1 DEF Stage
<1>8. ASSUME Ends PROVE Stage'
  <2>1. Ends'
    BY <1>1, <1>2, <1>4, <1>5, <1>6, <1>8
    DEF Ends, Dropped, Rejected, Orphaned, InHand, OpCmd, OpAnswer, Clearing,
        Reported, TakesFirst, AtRest, Left, Held
  <2>. QED  BY <2>1 DEF Stage
<1>9. ASSUME Gone PROVE Stage'
  <2>1. Gone'
    BY <1>1, <1>2, <1>4, <1>5, <1>6, <1>9
    DEF Gone, NoCall, Clearing, Reported, TakesFirst, TrunkCommands, AtRest
  <2>. QED  BY <2>1 DEF Stage
<1>10. Dials \/ Ends \/ Gone
  BY <1>6 DEF Stage, Waits, Arrives, Talks, Accepting, AcceptEnds, Stands, HungUp,
              Succeeded, Failed, AtRest, Left, Held
<1>11. worker'.pc # "accepted"
  BY <1>4, <1>5 DEF TrunkCommands
<1>. QED
  BY <1>1, <1>2, <1>5, <1>6, <1>7, <1>8, <1>9, <1>10, <1>11, OthersKept, SamePhase
  DEF Proper, TakesFirst


LEMMA IncomingTaken ==
    ASSUME Kept, Stage, troubles = {}, troubles' = {}, OnIncomingCallDetected
    PROVE  Proper
<1>. USE TrunkFields
<1>1. NextEvent("incoming") /\ UNCHANGED <<seq, tx, iface, media>>
  BY DEF OnIncomingCallDetected
<1>2. "incoming" \in DueOf(trunk)
  <2>1. Head(trunk.events)[2] = "incoming" /\ trunk.events # << >>
    BY <1>1 DEF NextEvent
  <2>2. trunk.events \in Seq(Events)
    BY DEF TrunkType
  <2>3. 1 \in DOMAIN trunk.events /\ Head(trunk.events) = trunk.events[1]
    BY <2>1, <2>2
  <2>. QED  BY <2>1, <2>3 DEF DueOf
<1>3. Arrives
  BY <1>2 DEF Stage, Waits, Arrives, Dials, Dialing, Dialed, Talks, Accepting,
              AcceptEnds, Stands, HungUp, Succeeded, Failed, Ends, Gone, Clearing,
              Reported, AtRest, Left, Held
<1>4. ~NoDetails
  BY <1>3 DEF Arrives, NoDetails, StateOf
<1>5. /\ trunk' = NewCallref(Taken)
      /\ Enters("connectRequest", "none", trunk.last + 1, TRUE)
  BY <1>4 DEF OnIncomingCallDetected
<1>. PICK next \in Nat : next = trunk.last + 1
  OBVIOUS
<1>6. /\ TakesFirst("incoming") /\ trunk'.cmd = trunk.cmd
      /\ trunk'.callref = next /\ trunk'.last = next
  BY <1>1, <1>5, NumberTaken
<1>7. /\ worker' \in WorkerType
      /\ worker'.pc = "connectRequest" /\ worker'.then = "none"
      /\ worker'.callref = next /\ worker'.ok
  BY <1>5, WorkerEnters
<1>8. Arrives'
  BY <1>1, <1>3, <1>6, <1>7 DEF Arrives, NoCall, Idling, TakesFirst, AtRest
<1>. QED
  BY <1>1, <1>3, <1>6, <1>7, <1>8, OthersKept, SamePhase
  DEF Proper, TakesFirst, Stage, Arrives, NoCall

LEMMA ConnectedTaken ==
    ASSUME Kept, Stage, troubles = {}, troubles' = {}, OnCallConnected
    PROVE  Proper
<1>. USE TrunkFields
<1>1. /\ NextEvent("connected") /\ trunk' = [Taken EXCEPT !.cmd = "none"]
      /\ UNCHANGED <<seq, tx, iface, media>>
  BY DEF OnCallConnected
<1>2. trunk.cmd # "disconnect"
  BY DEF OnCallConnected, TroubleIf, Trouble
<1>3. /\ TakesFirst("connected") /\ trunk'.cmd = "none"
      /\ trunk'.callref = trunk.callref /\ trunk'.last = trunk.last
  <2>1. "none" \in TrunkCommands
    BY DEF TrunkCommands
  <2>. QED  BY <1>1, <2>1, FirstTaken
<1>4. DueOf(trunk') \subseteq {"remote", "idle"}
  BY <1>3, FirstIs
<1>5. PICK pc : pc = IF IsOutgoing(trunk) THEN "connectDone" ELSE "acceptDone"
  OBVIOUS
<1>6. worker.pc = "none" /\ worker.then = "none" /\ "connected" \in DueOf(trunk)
  BY <1>3 DEF TakesFirst
<1>7. ASSUME Dials \/ Accepting
      PROVE  /\ worker' \in WorkerType
             /\ worker'.pc = pc /\ worker'.then = "none"
             /\ worker'.callref = trunk.callref /\ worker'.ok
  <2>1. StateOf(trunk) \in {"connected", "cleared"}
    BY <1>6, <1>7 DEF Dials, Dialing, Dialed, Accepting, Stands, HungUp
  <2>2. ~NoDetails
    BY <2>1 DEF NoDetails, StateOf
  <2>3. Enters(pc, "none", trunk.callref, TRUE)
    BY <1>5, <2>2 DEF OnCallConnected, IsOutgoing
  <2>. QED  BY <2>3, <1>5, WorkerEnters
<1>8. ASSUME Dials PROVE Stage'
  <2>1. Dials'
    BY <1>1, <1>3, <1>4, <1>5, <1>6, <1>7, <1>8
    DEF Dials, Dialing, Dialed, NoCall, TakesFirst
  <2>. QED  BY <2>1 DEF Stage
<1>9. ASSUME Accepting PROVE Stage'
  <2>1. AcceptEnds'
    BY <1>1, <1>3, <1>4, <1>5, <1>6, <1>7, <1>9
    DEF Accepting, AcceptEnds, Stands, HungUp, Succeeded, Failed, Untold, Answering,
        Owned, Orphaned, InHand, OpCmd, OpAnswer, TakesFirst, AtRest, Left, Held
  <2>. QED  BY <2>1 DEF Stage
<1>10. Dials \/ Accepting
  BY <1>2, <1>6 DEF Stage, Waits, Arrives, Talks, AcceptEnds, Stands, HungUp,
              Succeeded, Failed, Ends, Gone, Clearing, Reported, AtRest, Left, Held
<1>. QED
  BY <1>1, <1>3, <1>5, <1>6, <1>7, <1>8, <1>9, <1>10, OthersKept, SamePhase
  DEF Proper, TakesFirst

LEMMA ProceedingTaken ==
    ASSUME Kept, Stage, troubles = {}, troubles' = {}, OnOutgoingProceeding
    PROVE  Proper
<1>. USE TrunkFields
<1>1. NextEvent("outgoing") /\ UNCHANGED <<seq, tx, worker, iface, media>>
  BY DEF OnOutgoingProceeding
<1>2. ASSUME TakesFirst("outgoing")
      PROVE  /\ worker.pc = "none" /\ worker.then = "none"
             /\ "outgoing" \in DueOf(trunk) /\ Dials
  <2>1. worker.pc = "none" /\ worker.then = "none" /\ "outgoing" \in DueOf(trunk)
    BY <1>2 DEF TakesFirst
  <2>. QED
    BY <2>1 DEF Stage, Waits, Arrives, Talks, Accepting, AcceptEnds, Stands, HungUp,
                Succeeded, Failed, Ends, Gone, Clearing, Reported
<1>3. TakesFirst("outgoing") /\ Dials'
  <2>1. CASE NoDetails
    <3>1. trunk' = Taken
      BY <2>1 DEF OnOutgoingProceeding
    <3>2. /\ TakesFirst("outgoing") /\ trunk'.cmd = trunk.cmd
          /\ trunk'.callref = trunk.callref /\ trunk'.last = trunk.last
      <4>1. PICK t \in TrunkType : t = Taken
        BY <1>1, EventTaken
      <4>2. /\ trunk' \in TrunkType /\ SameHandles(trunk', Taken)
            /\ trunk'.cmd = trunk.cmd /\ trunk'.callref = trunk.callref
            /\ trunk'.last = trunk.last
        BY <1>1, <3>1, <4>1, EventTaken DEF SameHandles
      <4>. QED  BY <1>1, <4>2, RelabelledTaken
    <3>3. StateOf(trunk) \in {"closed", "idle"}
      BY <2>1 DEF NoDetails, StateOf
    <3>. QED
      BY <1>1, <1>2, <3>2, <3>3 DEF Dials, Dialing, Dialed, NoCall, TakesFirst
  <2>2. CASE ~NoDetails
    <3>1. trunk' = NewCallref(Taken)
      BY <2>2 DEF OnOutgoingProceeding
    <3>. PICK next \in Nat : next = trunk.last + 1
      OBVIOUS
    <3>2. /\ TakesFirst("outgoing") /\ trunk'.cmd = trunk.cmd
          /\ trunk'.callref = next /\ trunk'.last = next
      BY <1>1, <3>1, NumberTaken
    <3>. QED
      BY <1>1, <1>2, <3>2 DEF Dials, Dialing, Dialed, NoCall, TakesFirst
  <2>. QED  BY <2>1, <2>2
<1>4. worker' \in WorkerType
  BY <1>1 DEF Kept
<1>. QED
  BY <1>1, <1>2, <1>3, <1>4, OthersKept, SamePhase
  DEF Proper, TakesFirst, Stage, Dials, NoCall

LEMMA RemoteTaken ==
    ASSUME Kept, Stage, troubles = {}, troubles' = {}, OnRemoteDisconnect
    PROVE  Proper
<1>. USE TrunkFields
<1>1. /\ NextEvent("remote") /\ trunk' = [Taken EXCEPT !.cmd = "none"]
      /\ UNCHANGED <<seq, tx, iface, media>>
  BY DEF OnRemoteDisconnect
<1>2. /\ TakesFirst("remote") /\ trunk'.cmd = "none"
      /\ trunk'.callref = trunk.callref /\ trunk'.last = trunk.last
  <2>1. "none" \in TrunkCommands
    BY DEF TrunkCommands
  <2>. QED  BY <1>1, <2>1, FirstTaken
<1>3. DueOf(trunk') \subseteq {"idle"}
  BY <1>2, FirstIs
<1>4. PICK pc : pc = Callback(trunk.cmd)
  OBVIOUS
<1>5. /\ trunk.cmd = "connect" => pc = "connectDone"
      /\ trunk.cmd = "disconnect" => pc = "disconnectDone"
      /\ trunk.cmd = "accept" => pc = "acceptDone"
      /\ trunk.cmd = "none" => pc = "disconnectRequest"
  BY <1>4, CallbackIs
<1>6. PICK then : then = IF trunk.cmd \in {"connect", "accept"}
                         THEN "disconnect" ELSE "none"
  OBVIOUS
<1>7. /\ worker' \in WorkerType
      /\ worker'.pc = pc /\ worker'.then = then
      /\ trunk.cmd = "disconnect" => worker'.ok
      /\ trunk.cmd # "disconnect" => ~worker'.ok
  <2>1. Enters(pc, then, trunk.callref, trunk.cmd = "disconnect")
    BY <1>4, <1>6 DEF OnRemoteDisconnect
  <2>2. (trunk.cmd = "disconnect") \in BOOLEAN
    OBVIOUS
  <2>. QED  BY <2>1, <2>2, <1>5, <1>6, WorkerEnters DEF TrunkCommands
<1>8. worker.pc = "none" /\ worker.then = "none" /\ "remote" \in DueOf(trunk)
  BY <1>2 DEF TakesFirst
<1>9. StateOf(trunk') = StateOf(trunk) /\ IsOutgoing(trunk') = IsOutgoing(trunk)
  BY <1>2 DEF TakesFirst
<1>10. "idle" \in DueOf(trunk') <=> "idle" \in DueOf(trunk)
  BY <1>2 DEF TakesFirst
<1>11. ASSUME Dials PROVE Stage'
  <2>1. Dials'
    BY <1>1, <1>2, <1>3, <1>5, <1>6, <1>7, <1>8, <1>9, <1>10, <1>11
    DEF Dials, Dialing, Dialed, NoCall
  <2>. QED  BY <2>1 DEF Stage
<1>12. ASSUME Talks PROVE Stage'
  <2>1. Talks'
    BY <1>1, <1>2, <1>3, <1>5, <1>6, <1>7, <1>8, <1>9, <1>10, <1>12
    DEF Talks, Stands, HungUp, Untold, Owned, Dropped, Orphaned, InHand, OpCmd,
        OpAnswer, AtRest, Left, Held
  <2>. QED  BY <2>1 DEF Stage
<1>13. ASSUME Accepting PROVE Stage'
  <2>1. AcceptEnds'
    BY <1>1, <1>2, <1>3, <1>5, <1>6, <1>7, <1>8, <1>9, <1>10, <1>13
    DEF Accepting, AcceptEnds, Stands, HungUp, Succeeded, Failed, Untold, Answering,
        Owned, Orphaned, InHand, OpCmd, OpAnswer, AtRest, Left, Held
  <2>. QED  BY <2>1 DEF Stage
<1>14. ASSUME Ends PROVE Stage'
  <2>1. Ends'
    BY <1>1, <1>2, <1>3, <1>5, <1>6, <1>7, <1>8, <1>9, <1>10, <1>14
    DEF Ends, Dropped, Rejected, Orphaned, InHand, OpCmd, OpAnswer, Clearing,
        Reported, AtRest, Left, Held
  <2>. QED  BY <2>1 DEF Stage
<1>15. ASSUME Gone PROVE Stage'
  <2>1. Gone'
    BY <1>1, <1>2, <1>3, <1>5, <1>6, <1>7, <1>8, <1>9, <1>10, <1>15
    DEF Gone, NoCall, Clearing, Reported, AtRest
  <2>. QED  BY <2>1 DEF Stage
<1>16. Dials \/ Talks \/ Accepting \/ Ends \/ Gone
  BY <1>2, <1>3, <1>8
  DEF Stage, Waits, Arrives, AcceptEnds, Succeeded, Failed, TakesFirst, AtRest, Left, Held
<1>17. worker'.pc # "accepted"
  BY <1>5, <1>7 DEF TrunkCommands
<1>. QED
  BY <1>1, <1>2, <1>7, <1>8, <1>9, <1>11, <1>12, <1>13, <1>14, <1>15, <1>16,
     <1>17, OthersKept, SamePhase
  DEF Proper, TakesFirst


----------------------------------------------------------------------------
(*               The trunk thread hangs up and listens again                *)

(* AculabTrunk::disconnect succeeds.                                        *)
Cleared ==
    /\ WellKept(trunk')
    /\ StateOf(trunk') = "clearing" /\ DueOf(trunk') = DueOf(trunk)
    /\ IsOutgoing(trunk') = IsOutgoing(trunk)
    /\ trunk'.cmd = "disconnect"
    /\ trunk'.callref = trunk.callref /\ trunk'.last = trunk.last

LEMMA HangsUpCall ==
    ASSUME Kept, NEW callref, callref = trunk.callref, MayHangUp(trunk),
           trunk' = TrunkDisconnect(trunk, callref)
    PROVE  Cleared
<1>1. WellKept(trunk) /\ trunk \in TrunkType
  BY DEF Kept, WellKept
<1>2. trunk.state \in [Handles -> HandleStates] /\ trunk.handle \in Handles
  BY <1>1 DEF TrunkType
<1>3. PICK states : states = [trunk.state EXCEPT ![trunk.handle] = "clearing"]
  OBVIOUS
<1>4. trunk' = [trunk EXCEPT !.cmd = "disconnect", !.state = states]
  BY <1>1, <1>3 DEF TrunkDisconnect, TrunkType
<1>5. states \in [Handles -> HandleStates]
  BY <1>2, <1>3 DEF HandleStates
<1>6. trunk' \in TrunkType
  BY <1>1, <1>4, <1>5 DEF TrunkType, TrunkCommands
<1>7. /\ trunk'.state = states /\ trunk'.events = trunk.events
      /\ trunk'.handle = trunk.handle /\ trunk'.shadow = trunk.shadow
      /\ trunk'.out = trunk.out /\ trunk'.cmd = "disconnect"
      /\ trunk'.callref = trunk.callref /\ trunk'.last = trunk.last
  BY <1>1, <1>4 DEF TrunkType
<1>8. /\ HandlesWell(trunk') /\ StateOf(trunk') = "clearing"
      /\ IsOutgoing(trunk') = IsOutgoing(trunk)
  <2>1. "clearing" \in HandleStates /\ "clearing" # "closed"
    BY DEF HandleStates
  <2>. QED  BY <1>1, <1>3, <1>6, <1>7, <2>1, ChangesState
<1>9. Orderly(trunk')
  BY <1>1, <1>7 DEF WellKept, Orderly
<1>10. DueOf(trunk') = DueOf(trunk)
  BY <1>7 DEF DueOf
<1>. QED  BY <1>6, <1>7, <1>8, <1>9, <1>10 DEF Cleared, WellKept

LEMMA MayHangUpIs ==
    MayHangUp(trunk) <=>
        StateOf(trunk) \in {"ringing", "accepting", "dialing", "proceeding",
                            "connected", "waiting", "cleared"}
BY DEF MayHangUp, StateOf, InCall

LEMMA NeverLate ==
    ASSUME troubles' = {}, NEW condition, TroubleIf(condition, "late")
    PROVE  ~condition
BY DEF TroubleIf, Trouble

LEMMA RefusedHungUp ==
    ASSUME Kept, Stage, troubles = {}, troubles' = {}, HangsUpRefused
    PROVE  Proper
<1>1. /\ worker.pc = "none" /\ worker.then = "disconnect" /\ worker' = Waiting
      /\ trunk' = TrunkDisconnect(trunk, trunk.callref)
      /\ UNCHANGED <<seq, tx, iface, media>>
  BY DEF HangsUpRefused
<1>2. MayHangUp(trunk)
  BY NeverLate DEF HangsUpRefused, HangsUpLate
<1>3. Cleared
  BY <1>1, <1>2, HangsUpCall
<1>4. Gone
  BY <1>1 DEF Stage, Waits, Arrives, Dials, Dialing, Dialed, Talks, Accepting,
              AcceptEnds, Ends, Reported, AtRest, Left, Held
<1>5. StateOf(trunk) = "cleared" /\ DueOf(trunk) = {}
  BY <1>1, <1>2, <1>4, MayHangUpIs DEF Gone, Clearing, Reported, AtRest
<1>6. /\ worker'.pc = "none" /\ worker'.then = "none" /\ worker' \in WorkerType
  BY <1>1 DEF Waiting, WorkerType
<1>7. Gone'
  BY <1>1, <1>3, <1>4, <1>5, <1>6 DEF Gone, NoCall, Clearing, Cleared, AtRest
<1>. QED
  BY <1>1, <1>3, <1>4, <1>6, <1>7, OthersKept, SamePhase
  DEF Proper, Stage, Cleared, Gone, NoCall, AtRest

LEMMA ListeningAgain ==
    ASSUME Kept, Stage, troubles = {}, troubles' = {}, ReleasesAndListens
    PROVE  Proper
<1>1. /\ worker.pc = "none" /\ worker.then = "release" /\ worker' = Waiting
      /\ UNCHANGED <<seq, tx, iface, media>>
  BY DEF ReleasesAndListens
<1>2. Gone /\ Reported
  BY <1>1 DEF Stage, Waits, Arrives, Dials, Dialing, Dialed, Talks, Accepting,
              AcceptEnds, Ends, Gone, Succeeded, Failed, AtRest, Left, Held
<1>3. /\ WellKept(trunk')
      /\ StateOf(trunk') = "waiting" /\ DueOf(trunk') = {} /\ ~IsOutgoing(trunk')
      /\ SameLabels(trunk', trunk)
  <2>1. WellKept(trunk) /\ DueOf(trunk) = {} /\ trunk.callref = 0
    BY <1>2 DEF Kept, Reported
  <2>. QED  BY <2>1, ListensAgain DEF ReleasesAndListens
<1>4. /\ worker'.pc = "none" /\ worker'.then = "none" /\ worker' \in WorkerType
  BY <1>1 DEF Waiting, WorkerType
<1>5. Waits'
  <2>1. trunk.cmd \in TrunkCommands
    BY TrunkFields
  <2>. QED
    BY <1>1, <1>2, <1>3, <1>4, <2>1
    DEF Waits, Gone, Reported, NoCall, Idling, SameLabels, TrunkCommands, AtRest
<1>. QED
  BY <1>1, <1>2, <1>3, <1>4, <1>5, OthersKept, SamePhase
  DEF Proper, Stage, Gone, NoCall, AtRest


----------------------------------------------------------------------------
(*                            A call arrives                                *)

LEMMA SeqKept ==
    ASSUME Kept, WellKept(trunk)', worker' \in WorkerType, seq' \in SeqType,
           tx' = tx, seq'.connect = seq.connect,
           \/ seq'.id = seq.id
           \/ seq'.id = 0 /\ OpAnswer # "none",
           seq'.media /\ seq'.callref = 0 => seq.media /\ seq.callref = 0
    PROVE  Kept'
BY DEF Kept, TxWell, MediaWell, ConnFailed, OpAnswer

LEMMA WorkerReturns ==
    ASSUME Kept, Returns
    PROVE  worker' \in WorkerType /\ worker'.pc = "none" /\ worker'.then = worker.then
BY DEF Kept, Returns, Waiting, WorkerType

LEMMA ConnectRequested ==
    ASSUME Kept, Stage, troubles = {}, troubles' = {}, ConnectRequest
    PROVE  Proper
<1>1. worker.pc = "connectRequest" /\ UNCHANGED <<seq, tx, iface, media>>
  BY DEF ConnectRequest, Called
<1>2. Arrives
  BY <1>1 DEF Stage, Waits, Dials, Dialing, Dialed, Talks, Stands, HungUp, Accepting,
              AcceptEnds, Ends, Gone, AtRest, Left, Held
<1>3. /\ "incoming" \notin DueOf(trunk) /\ worker.callref = trunk.callref
      /\ MayHangUp(trunk)
  BY <1>1, <1>2, MayHangUpIs DEF Arrives
<1>4. CASE seq.connect # 0
  <2>1. trunk' = TrunkDisconnect(trunk, worker.callref) /\ Returns
    BY <1>4 DEF ConnectRequest
  <2>2. Cleared
    BY <1>3, <2>1, HangsUpCall
  <2>3. worker' \in WorkerType /\ worker'.pc = "none" /\ worker'.then = "none"
    BY <1>2, <2>1, WorkerReturns DEF Arrives
  <2>4. Gone'
    BY <1>1, <1>2, <1>3, <1>4, <2>2, <2>3
    DEF Arrives, Idling, Gone, NoCall, Clearing, Cleared, AtRest
  <2>. QED
    BY <1>1, <1>2, <2>2, <2>3, <2>4, OthersKept, SamePhase
    DEF Proper, Stage, Arrives, NoCall, Cleared
<1>5. CASE seq.connect = 0
  <2>1. UNCHANGED trunk /\ worker' = [worker EXCEPT !.pc = "onIncoming"]
    BY <1>5 DEF ConnectRequest
  <2>2. /\ worker' \in WorkerType
        /\ worker'.pc = "onIncoming" /\ worker'.then = worker.then
        /\ worker'.callref = worker.callref /\ worker'.ok = worker.ok
    BY <2>1 DEF Kept, WorkerType
  <2>3. Arrives'
    BY <1>1, <1>2, <1>3, <2>1, <2>2 DEF Arrives, NoCall, Idling, AtRest
  <2>4. WellKept(trunk)'
    BY <2>1 DEF Kept
  <2>. QED
    BY <1>1, <1>2, <2>1, <2>2, <2>3, <2>4, OthersKept, SamePhase
    DEF Proper, Stage, Arrives, NoCall
<1>. QED  BY <1>4, <1>5

LEMMA IncomingArrives ==
    ASSUME Kept, Stage, worker.pc = "onIncoming", LockFree
    PROVE  /\ Arrives /\ "incoming" \notin DueOf(trunk)
           /\ seq.connect = 0 /\ AtRest /\ trunk.cmd = "none"
           /\ worker.callref = trunk.last /\ trunk.callref = trunk.last
           /\ trunk.last # 0 /\ worker.then = "none"
<1>1. Arrives
  BY DEF Stage, Waits, Dials, Dialing, Dialed, Talks, Stands, HungUp, Accepting,
         AcceptEnds, Ends, Gone, AtRest, Left, Held
<1>. QED  BY <1>1 DEF Arrives, Idling, LockFree, AtRest

LEMMA IncomingServed ==
    ASSUME Kept, Stage, troubles = {}, troubles' = {}, OnIncomingServed
    PROVE  Proper
<1>1. /\ worker.pc = "onIncoming" /\ LockFree /\ Returns
      /\ UNCHANGED <<trunk, tx, iface, media>>
  BY DEF OnIncomingServed, Called
<1>2. /\ Arrives /\ "incoming" \notin DueOf(trunk)
      /\ seq.connect = 0 /\ AtRest /\ trunk.cmd = "none"
      /\ worker.callref = trunk.last /\ trunk.callref = trunk.last
      /\ trunk.last # 0 /\ worker.then = "none"
  BY <1>1, IncomingArrives
<1>3. worker' \in WorkerType /\ worker'.pc = "none" /\ worker'.then = "none"
  BY <1>1, <1>2, WorkerReturns
<1>4. seq \in SeqType /\ trunk.last \in Nat
  BY TrunkFields DEF Kept
<1>5. seq' = [seq EXCEPT !.callref = trunk.last, !.media = TRUE,
                         !.spec = TRUE, !.interface = TRUE, !.named = TRUE]
  BY <1>2 DEF OnIncomingServed
<1>6. /\ seq' \in SeqType
      /\ seq'.callref = trunk.last /\ seq'.media /\ seq'.spec
      /\ seq'.interface /\ seq'.named /\ seq'.busy = seq.busy
      /\ seq'.disconnecting = 0 /\ seq'.sentRdis = 0 /\ seq'.id = 0
      /\ seq'.connect = 0 /\ seq.id = 0
      /\ seq.callref = 0 /\ seq.sentRdis = 0
  BY <1>2, <1>4, <1>5 DEF SeqType, Arrives, NoCall
<1>7. Talks'
  BY <1>1, <1>2, <1>3, <1>6
  DEF Arrives, Talks, Stands, HungUp, Untold, Owned, InHand, AtRest, Left, Held
<1>8. WellKept(trunk)'
  BY <1>1 DEF Kept
<1>9. Kept'
  BY <1>1, <1>2, <1>3, <1>6, <1>8, SeqKept
<1>10. PhaseOfCall = "free" /\ PhaseOfCall' = "offered"
  <2>1. ~IsOutgoing(trunk)
    BY <1>2 DEF Arrives
  <2>. QED  BY <1>1, <1>2, <1>3, <1>6, <2>1 DEF PhaseOfCall, IsOutgoing
<1>11. TheCall!Offers
  BY <1>1, <1>6, <1>10 DEF TheCall!Offers, TheCall!Moves
<1>. QED  BY <1>7, <1>9, <1>11 DEF Proper, Stage, TheCall!CallNext

LEMMA IncomingRejected ==
    ASSUME Kept, Stage, troubles = {}, troubles' = {}, OnIncomingRejected
    PROVE  Proper
<1>1. /\ worker.pc = "onIncoming" /\ LockFree /\ Returns
      /\ UNCHANGED <<tx, iface, media>>
  BY DEF OnIncomingRejected, Called
<1>2. /\ Arrives /\ "incoming" \notin DueOf(trunk)
      /\ seq.connect = 0 /\ AtRest /\ trunk.cmd = "none"
      /\ worker.callref = trunk.last /\ trunk.callref = trunk.last
      /\ trunk.last # 0 /\ worker.then = "none"
  BY <1>1, IncomingArrives
<1>3. worker' \in WorkerType /\ worker'.pc = "none" /\ worker'.then = "none"
  BY <1>1, <1>2, WorkerReturns
<1>4. seq \in SeqType /\ trunk.last \in Nat
  BY TrunkFields DEF Kept
<1>5. seq' = [seq EXCEPT !.callref = trunk.last, !.media = TRUE, !.spec = FALSE]
  BY <1>2 DEF OnIncomingRejected
<1>6. /\ seq' \in SeqType
      /\ seq'.callref = trunk.last /\ ~seq'.named
      /\ seq'.disconnecting = 0 /\ seq'.sentRdis = 0 /\ seq'.id = 0
      /\ seq'.connect = 0 /\ seq.id = 0
      /\ seq.callref = 0 /\ seq.sentRdis = 0
  BY <1>2, <1>4, <1>5 DEF SeqType, Arrives, NoCall
<1>7. Cleared
  <2>1. MayHangUp(trunk)
    BY <1>2, MayHangUpIs DEF Arrives
  <2>. QED  BY <1>2, <2>1, HangsUpCall DEF OnIncomingRejected
<1>8. Ends'
  BY <1>1, <1>2, <1>3, <1>6, <1>7
  DEF Arrives, Ends, Rejected, InHand, Clearing, Cleared, AtRest
<1>9. Kept'
  BY <1>1, <1>2, <1>3, <1>6, <1>7, SeqKept DEF Cleared
<1>10. PhaseOfCall = "free" /\ PhaseOfCall' = "ending"
  BY <1>1, <1>2, <1>6 DEF PhaseOfCall
<1>11. TheCall!Rejects
  BY <1>1, <1>6, <1>10 DEF TheCall!Rejects, TheCall!Moves
<1>. QED  BY <1>8, <1>9, <1>11 DEF Proper, Stage, TheCall!CallNext


----------------------------------------------------------------------------
(*                       Commands get their answers                         *)

(* Command k was pending and has its answer.                                *)
Settles(k, answer) ==
    /\ k \in DOMAIN tx /\ tx[k].answer = "none"
    /\ tx' = [tx EXCEPT ![k].answer = answer]
    /\ tx' \in Seq(Transactions) /\ Len(tx') = Len(tx) /\ DOMAIN tx' = DOMAIN tx
    /\ tx'[k] = [cmd |-> tx[k].cmd, answer |-> answer]
    /\ \A i \in DOMAIN tx : i # k => tx'[i] = tx[i]
    /\ ConnFailed => ConnFailed'

LEMMA AnswerSettles ==
    ASSUME Kept, NEW k, k # 0, k \in 0..Len(tx), tx[k].answer = "none",
           NEW answer \in {"ok", "failed"}, tx' = Answer(tx, k, answer)
    PROVE  Settles(k, answer)
<1>1. tx \in Seq(Transactions) /\ k \in DOMAIN tx
  BY DEF Kept, TxWell
<1>2. tx[k] \in Transactions
  BY <1>1
<1>3. tx' = [tx EXCEPT ![k].answer = answer]
  BY DEF Answer
<1>4. PICK settled \in Transactions :
         settled = [cmd |-> tx[k].cmd, answer |-> answer]
  BY <1>2 DEF Transactions
<1>5. [tx[k] EXCEPT !.answer = answer] = settled
  BY <1>2, <1>4 DEF Transactions
<1>6. tx' = [tx EXCEPT ![k] = settled]
  BY <1>3, <1>5
<1>7. /\ tx' \in Seq(Transactions) /\ Len(tx') = Len(tx) /\ DOMAIN tx' = DOMAIN tx
      /\ tx'[k] = settled
      /\ \A i \in DOMAIN tx : i # k => tx'[i] = tx[i]
  BY <1>1, <1>6
<1>8. ConnFailed => ConnFailed'
  <2>1. SUFFICES ASSUME NEW i \in DOMAIN tx, tx[i].cmd = "CONN", tx[i].answer = "failed"
                 PROVE  ConnFailed'
    BY DEF ConnFailed
  <2>2. i # k
    BY <2>1
  <2>. QED  BY <2>1, <2>2, <1>7 DEF ConnFailed
<1>. QED  BY <1>1, <1>3, <1>4, <1>7, <1>8 DEF Settles

LEMMA SettledKept ==
    ASSUME Kept, WellKept(trunk)', worker' \in WorkerType, seq' \in SeqType,
           NEW k, NEW answer, Settles(k, answer), answer # "none",
           seq'.connect = IF k = seq.connect THEN 0 ELSE seq.connect,
           seq'.id \in {seq.id, 0},
           seq'.id = 0 /\ seq.id # 0 => k = seq.id,
           MediaWell'
    PROVE  Kept'
<1>1. TxWell'
  <2>1. tx' \in Seq(Transactions) /\ seq'.id \in 0..Len(tx') /\ seq'.connect \in 0..Len(tx')
    BY DEF Kept, TxWell, Settles
  <2>2. \A i \in DOMAIN tx : tx'[i].cmd = tx[i].cmd
    BY DEF Settles
  <2>3. seq'.id # 0 => tx'[seq'.id].cmd \in {"ACPT", "DISC"}
    <3>1. seq.id # 0 => seq.id \in DOMAIN tx
      BY DEF Kept, TxWell
    <3>. QED  BY <2>2, <3>1 DEF Kept, TxWell
  <2>4. seq'.connect # 0 => tx'[seq'.connect] = [cmd |-> "CONN", answer |-> "none"]
    <3>1. seq.connect # 0 => seq.connect \in DOMAIN tx
      BY DEF Kept, TxWell
    <3>. QED  BY <3>1 DEF Kept, TxWell, Settles
  <2>5. \A i \in DOMAIN tx' : tx'[i].answer = "none" => i \in {seq'.id, seq'.connect}
    <3>1. \A i \in DOMAIN tx : tx[i].answer = "none" => i \in {seq.id, seq.connect}
      BY DEF Kept, TxWell
    <3>2. ASSUME NEW i \in DOMAIN tx, tx'[i].answer = "none"
          PROVE  i # k /\ tx[i].answer = "none"
      BY <3>2 DEF Settles
    <3>3. \A i \in DOMAIN tx : i # 0
      BY DEF Kept, TxWell
    <3>. QED  BY <3>1, <3>2, <3>3 DEF Settles
  <2>. QED  BY <2>1, <2>3, <2>4, <2>5 DEF TxWell
<1>. QED  BY <1>1 DEF Kept

----------------------------------------------------------------------------
(*                     The callbacks of the sequencer                       *)

LEMMA ConnectionDone ==
    ASSUME Kept, Stage, troubles = {}, troubles' = {}, ConnectDone
    PROVE  Proper
<1>1. /\ worker.pc = "connectDone" /\ LockFree /\ Returns
      /\ UNCHANGED <<trunk, iface, media>>
  BY DEF ConnectDone, Called
<1>2. Dials /\ Dialed
  BY <1>1 DEF Stage, Waits, Arrives, Dials, Dialing, Talks, Stands, HungUp, Accepting,
              AcceptEnds, Ends, Gone, LockFree, AtRest, Left, Held
<1>3. worker' \in WorkerType /\ worker'.pc = "none" /\ worker'.then = worker.then
  BY <1>1, WorkerReturns
<1>4. seq \in SeqType /\ worker \in WorkerType /\ WellKept(trunk)'
  BY <1>1 DEF Kept
<1>5. /\ seq.connect # 0 /\ seq.callref = 0 /\ seq.disconnecting = 0
      /\ seq.sentRdis = 0 /\ seq.id = 0 /\ ~seq.named /\ seq.media
      /\ iface = "none" /\ IsOutgoing(trunk)
  BY <1>2 DEF Dials, NoCall
<1>6. /\ seq' = [seq EXCEPT !.callref = IF worker.ok THEN worker.callref ELSE 0,
                            !.interface = TRUE, !.named = worker.ok, !.connect = 0]
      /\ tx' = Answer(tx, seq.connect, IF worker.ok THEN "ok" ELSE "failed")
  BY <1>5 DEF ConnectDone
<1>7. PICK answer \in {"ok", "failed"} : answer = IF worker.ok THEN "ok" ELSE "failed"
  OBVIOUS
<1>8. Settles(seq.connect, answer) /\ tx[seq.connect].cmd = "CONN"
  <2>1. /\ seq.connect \in 0..Len(tx)
        /\ tx[seq.connect] = [cmd |-> "CONN", answer |-> "none"]
    BY <1>5 DEF Kept, TxWell
  <2>2. tx[seq.connect].answer = "none" /\ tx[seq.connect].cmd = "CONN"
    BY <2>1
  <2>. QED  BY <1>5, <1>6, <1>7, <2>1, <2>2, AnswerSettles
<1>9. PhaseOfCall = "dialing"
  BY <1>5 DEF PhaseOfCall
<1>10. CASE worker.ok
  <2>1. /\ seq' \in SeqType
        /\ seq'.callref = worker.callref /\ seq'.interface /\ seq'.named
        /\ seq'.connect = 0 /\ seq'.disconnecting = 0 /\ seq'.sentRdis = 0
        /\ seq'.id = 0 /\ seq'.media
    BY <1>4, <1>5, <1>6, <1>10 DEF SeqType, WorkerType
  <2>2. Talks'
    BY <1>1, <1>2, <1>3, <1>5, <1>10, <2>1
    DEF Dialed, Talks, Stands, HungUp, Untold, Owned, InHand, AtRest, Left, Held
  <2>3. Kept'
    <3>1. seq'.callref # 0
      BY <1>2, <1>10, <2>1 DEF Dialed
    <3>. QED
      BY <1>3, <1>4, <1>5, <1>7, <1>8, <2>1, <3>1, SettledKept DEF MediaWell
  <2>4. PhaseOfCall' = "up"
    BY <1>1, <1>2, <1>5, <1>10, <2>1 DEF Dialed, PhaseOfCall, IsOutgoing
  <2>5. TheCall!Connects
    BY <1>5, <1>7, <1>8, <1>9, <1>10, <2>1, <2>4
    DEF TheCall!Connects, TheCall!Pending, TheCall!AnswersCommand, TheCall!Moves,
        Settles
  <2>. QED  BY <2>2, <2>3, <2>5 DEF Proper, Stage, TheCall!CallNext
<1>11. CASE ~worker.ok
  <2>1. /\ seq' \in SeqType
        /\ seq'.callref = 0 /\ seq'.interface /\ ~seq'.named
        /\ seq'.connect = 0 /\ seq'.disconnecting = 0 /\ seq'.sentRdis = 0
        /\ seq'.id = 0 /\ seq'.media
    BY <1>4, <1>5, <1>6, <1>11 DEF SeqType, WorkerType
  <2>2. Gone'
    BY <1>1, <1>2, <1>3, <1>5, <1>11, <2>1 DEF Dialed, Gone, NoCall, Reported, AtRest
  <2>3. Kept'
    <3>1. ConnFailed'
      BY <1>7, <1>8, <1>11 DEF ConnFailed, Settles
    <3>. QED
      BY <1>3, <1>4, <1>5, <1>7, <1>8, <2>1, <3>1, SettledKept DEF MediaWell
  <2>4. PhaseOfCall' = "free"
    BY <2>1 DEF PhaseOfCall
  <2>5. TheCall!FailsToConnect
    BY <1>5, <1>7, <1>8, <1>9, <1>11, <2>1, <2>4
    DEF TheCall!FailsToConnect, TheCall!Pending, TheCall!AnswersCommand,
        TheCall!Moves, Settles
  <2>. QED  BY <2>2, <2>3, <2>5 DEF Proper, Stage, TheCall!CallNext
<1>. QED  BY <1>10, <1>11


LEMMA NothingAsked ==
    ASSUME Kept, seq.connect = 0, seq.id # 0 => OpAnswer # "none", NEW cmd, NEW i
    PROVE  ~TheCall!Pending(cmd, i)
BY DEF Kept, TxWell, OpAnswer, TheCall!Pending

LEMMA AcceptanceDone ==
    ASSUME Kept, Stage, troubles = {}, troubles' = {}, AcceptDone
    PROVE  Proper
<1>1. /\ worker.pc = "acceptDone" /\ worker' = [worker EXCEPT !.pc = "accepted"]
      /\ UNCHANGED <<trunk, iface, media>>
  BY DEF AcceptDone, Called
<1>2. AcceptEnds \/ Ends
  BY <1>1 DEF Stage, Waits, Arrives, Dials, Dialing, Dialed, Talks, Stands, HungUp,
              Accepting, Gone, AtRest, Left, Held
<1>3. /\ worker' \in WorkerType /\ worker'.pc = "accepted"
      /\ worker'.then = worker.then /\ worker'.ok = worker.ok
      /\ worker.ok \in BOOLEAN
  BY <1>1 DEF Kept, WorkerType
<1>4. seq \in SeqType /\ WellKept(trunk)' /\ IsOutgoing(trunk)' = IsOutgoing(trunk)
  BY <1>1 DEF Kept, IsOutgoing
<1>5. seq' = [seq EXCEPT !.named = @ /\ (worker.ok \/ ~seq.interface)]
  BY DEF AcceptDone
<1>6. /\ seq'.callref = seq.callref /\ seq'.interface = seq.interface
      /\ seq'.connect = seq.connect /\ seq'.disconnecting = seq.disconnecting
      /\ seq'.sentRdis = seq.sentRdis /\ seq'.id = seq.id
      /\ seq'.media = seq.media /\ seq'.busy = seq.busy /\ seq'.spec = seq.spec
      /\ seq'.named = (seq.named /\ (worker.ok \/ ~seq.interface))
      /\ seq' \in SeqType
  BY <1>4, <1>5 DEF SeqType
<1>7. CASE seq.interface
  <2>1. AcceptEnds /\ Answering
    BY <1>1, <1>2, <1>7 DEF AcceptEnds, Ends, Orphaned, AtRest, Left, Held
  <2>2. /\ seq.callref # 0 /\ seq.connect = 0 /\ seq.id # 0
        /\ seq.disconnecting = 0 /\ seq.named
        /\ tx[seq.id].cmd = "ACPT" /\ tx[seq.id].answer = "none"
    BY <2>1 DEF Answering, Owned, InHand, OpCmd, OpAnswer
  <2>3. PICK answer \in {"ok", "failed"} : answer = IF worker.ok THEN "ok" ELSE "failed"
    OBVIOUS
  <2>4. Settles(seq.id, answer)
    <3>1. tx' = Answer(tx, seq.id, answer)
      BY <1>7, <2>3 DEF AcceptDone
    <3>2. seq.id \in 0..Len(tx)
      BY DEF Kept, TxWell
    <3>. QED  BY <2>2, <3>1, <3>2, AnswerSettles
  <2>5. OpCmd' = "ACPT" /\ OpAnswer' = answer
    BY <1>6, <2>2, <2>4 DEF Settles, OpCmd, OpAnswer
  <2>6. Kept'
    <3>1. MediaWell'
      BY <1>6, <2>2 DEF MediaWell
    <3>. QED  BY <1>3, <1>4, <1>6, <2>2, <2>3, <2>4, <3>1, SettledKept
  <2>7. AcceptEnds'
    <3>1. /\ trunk.cmd = "none" /\ trunk.callref = trunk.last /\ Untold
          /\ iface \in {"none", "accepting"} /\ InHand /\ seq.interface
          /\ worker.ok => Succeeded /\ iface = "none"
          /\ ~worker.ok => Failed
      BY <1>1, <1>7, <2>1
      DEF AcceptEnds, Answering, Owned, Left, Orphaned, Succeeded, Failed, AtRest
    <3>2. CASE worker.ok
      <4>1. Succeeded' /\ Untold' /\ Owned'
        BY <1>1, <1>3, <1>4, <1>6, <2>2, <3>1, <3>2
        DEF Succeeded, Untold, Owned, InHand, AtRest
      <4>. QED  BY <1>1, <1>3, <2>3, <2>5, <3>1, <3>2, <4>1 DEF AcceptEnds
    <3>3. CASE ~worker.ok
      <4>1. Failed' /\ Untold' /\ InHand' /\ ~seq'.named /\ seq'.interface
        BY <1>1, <1>3, <1>4, <1>6, <2>2, <3>1, <3>3
        DEF Failed, Untold, InHand, AtRest
      <4>. QED
        BY <1>1, <1>3, <1>6, <2>2, <2>3, <2>5, <3>1, <3>3, <4>1 DEF AcceptEnds
    <3>. QED  BY <3>2, <3>3
  <2>8. CASE worker.ok
    <3>1. PhaseOfCall = "offered" /\ PhaseOfCall' = "up"
      BY <1>1, <1>3, <1>4, <1>6, <2>1, <2>2, <2>8
      DEF PhaseOfCall, IsOutgoing, AcceptEnds, Succeeded, Failed, AtRest, Left, Held
    <3>2. TheCall!Accepts
      BY <1>6, <2>2, <2>3, <2>4, <2>8, <3>1
      DEF TheCall!Accepts, TheCall!Pending, TheCall!AnswersCommand, TheCall!Moves,
          Settles
    <3>. QED  BY <2>6, <2>7, <3>2 DEF Proper, Stage, TheCall!CallNext
  <2>9. CASE ~worker.ok
    <3>1. PhaseOfCall \in {"offered", "up"} /\ PhaseOfCall' = "ending"
      BY <1>6, <1>7, <2>2, <2>9 DEF PhaseOfCall
    <3>2. TheCall!FailsToAccept
      BY <1>6, <2>2, <2>3, <2>4, <2>9, <3>1
      DEF TheCall!FailsToAccept, TheCall!Pending, TheCall!AnswersCommand,
          TheCall!Moves, Settles
    <3>. QED  BY <2>6, <2>7, <3>2 DEF Proper, Stage, TheCall!CallNext
  <2>. QED  BY <2>8, <2>9
<1>8. CASE ~seq.interface
  <2>1. Orphaned \/ Left
    BY <1>1, <1>2, <1>8 DEF AcceptEnds, Ends, Answering, Owned
  <2>2. ~seq.named /\ seq'.named = FALSE /\ tx' = tx
    BY <1>6, <1>8, <2>1 DEF Orphaned, AcceptDone, Left
  <2>3. OpCmd' = OpCmd /\ OpAnswer' = OpAnswer
    BY <1>6, <2>2 DEF OpCmd, OpAnswer
  <2>4. Kept'
    BY <1>3, <1>4, <1>6, <2>2, SeqKept
  <2>5. Stage'
    <3>1. CASE AcceptEnds
      <4>1. AcceptEnds'
        BY <1>1, <1>3, <1>4, <1>6, <1>8, <2>1, <2>2, <2>3, <3>1
        DEF AcceptEnds, Succeeded, Failed, Answering, Orphaned, Owned, InHand,
            Untold, AtRest, Left, Held
      <4>. QED  BY <4>1 DEF Stage
    <3>2. CASE Ends
      <4>1. Ends'
        BY <1>1, <1>3, <1>4, <1>6, <1>8, <2>1, <2>2, <2>3, <3>2
        DEF Ends, Dropped, Rejected, Orphaned, InHand, Clearing, Reported, AtRest,
            Left, Held
      <4>. QED  BY <4>1 DEF Stage
    <3>. QED  BY <1>2, <3>1, <3>2
  <2>6. PhaseOfCall' = PhaseOfCall
    BY <1>6, <2>1, <2>2 DEF PhaseOfCall, Orphaned, Left, InHand
  <2>. QED  BY <1>6, <2>2, <2>4, <2>5, <2>6, Unseen DEF Proper
<1>. QED  BY <1>7, <1>8


LEMMA ReleasedIs ==
    ASSUME seq \in SeqType, NEW s, s = Released(seq)
    PROVE  /\ s \in SeqType
           /\ s.callref = 0 /\ s.disconnecting = 0 /\ s.sentRdis = 0 /\ s.id = 0
           /\ ~s.media /\ s.connect = seq.connect /\ s.interface = seq.interface
           /\ s.named = seq.named /\ s.busy = seq.busy /\ s.spec = seq.spec
BY DEF Released, SeqType

LEMMA AcceptanceForgotten ==
    ASSUME Kept, Stage, troubles = {}, troubles' = {}, Accepted
    PROVE  Proper
<1>1. /\ worker.pc = "accepted" /\ LockFree /\ Returns
      /\ UNCHANGED <<trunk, tx, iface, media>>
  BY DEF Accepted, Called
<1>2. AcceptEnds \/ Ends
  BY <1>1 DEF Stage, Waits, Arrives, Dials, Dialing, Dialed, Talks, Stands, HungUp,
              Accepting, Gone, AtRest, Left, Held
<1>3. worker' \in WorkerType /\ worker'.pc = "none" /\ worker'.then = worker.then
  BY <1>1, WorkerReturns
<1>4. /\ seq \in SeqType /\ WellKept(trunk)' /\ IsOutgoing(trunk)' = IsOutgoing(trunk)
      /\ worker \in WorkerType
  BY <1>1 DEF Kept, IsOutgoing
<1>5. /\ seq.callref # 0 /\ seq.connect = 0 /\ AtRest
      /\ seq.id # 0 => OpAnswer # "none"
      /\ worker.ok => (seq.named /\ seq.disconnecting = 0) \/ Orphaned \/ Left
      /\ ~worker.ok => ~seq.named
      /\ Owned \/ Orphaned \/ Left \/ ~worker.ok
  BY <1>1, <1>2, <1>4
  DEF AcceptEnds, Ends, Orphaned, Answering, Owned, InHand, LockFree, Succeeded,
      Failed, OpAnswer, AtRest, Left, Held
<1>6. CASE worker.ok
  <2>1. seq' = [seq EXCEPT !.spec = FALSE, !.id = 0]
    BY <1>6 DEF Accepted
  <2>2. /\ seq' \in SeqType
        /\ seq'.callref = seq.callref /\ seq'.interface = seq.interface
        /\ seq'.connect = 0 /\ seq'.disconnecting = seq.disconnecting
        /\ seq'.sentRdis = seq.sentRdis /\ seq'.id = 0 /\ ~seq'.spec
        /\ seq'.media = seq.media /\ seq'.busy = seq.busy /\ seq'.named = seq.named
    BY <1>4, <1>5, <2>1 DEF SeqType
  <2>3. Kept'
    BY <1>1, <1>3, <1>4, <1>5, <2>2, SeqKept DEF OpAnswer
  <2>4. Stage'
    <3>1. CASE AcceptEnds
      <4>1. Talks'
        BY <1>1, <1>3, <1>4, <1>5, <1>6, <2>2, <3>1
        DEF AcceptEnds, Talks, Stands, HungUp, Succeeded, Failed, Answering,
            Orphaned, Dropped, Owned, InHand, Untold, AtRest, Left, Held
      <4>. QED  BY <4>1 DEF Stage
    <3>2. CASE Ends
      <4>1. Ends'
        BY <1>1, <1>3, <1>4, <1>5, <1>6, <2>2, <3>2
        DEF Ends, Dropped, Rejected, Orphaned, InHand, Clearing, Reported, AtRest,
            Left, Held
      <4>. QED  BY <4>1 DEF Stage
    <3>. QED  BY <1>2, <3>1, <3>2
  <2>5. PhaseOfCall' = PhaseOfCall
    <3>1. Orphaned \/ Left => ~seq.named
      BY DEF Orphaned, Left
    <3>. QED  BY <1>1, <1>3, <1>4, <1>5, <1>6, <2>2, <3>1 DEF PhaseOfCall
  <2>. QED  BY <1>1, <2>2, <2>3, <2>4, <2>5, Unseen DEF Proper
<1>7. CASE ~worker.ok
  <2>1. seq' = Released(seq)
    BY <1>7 DEF Accepted
  <2>2. /\ seq' \in SeqType
        /\ seq'.callref = 0 /\ seq'.disconnecting = 0 /\ seq'.sentRdis = 0
        /\ seq'.id = 0 /\ ~seq'.media /\ seq'.connect = 0 /\ seq'.named = seq.named
    BY <1>4, <1>5, <2>1, ReleasedIs
  <2>3. Kept'
    BY <1>1, <1>3, <1>4, <1>5, <2>2, SeqKept DEF OpAnswer
  <2>4. Gone'
    BY <1>1, <1>2, <1>3, <1>4, <1>5, <1>7, <2>2
    DEF AcceptEnds, Ends, Succeeded, Failed, Gone, NoCall, Clearing, Reported,
        AtRest, Left, Held
  <2>5. PhaseOfCall = "ending" /\ PhaseOfCall' = "free"
    BY <1>5, <1>7, <2>2 DEF PhaseOfCall
  <2>6. TheCall!Ends
    BY <1>1, <1>5, <2>2, <2>5, NothingAsked DEF TheCall!Ends, TheCall!Moves
  <2>. QED  BY <2>3, <2>4, <2>6 DEF Proper, Stage, TheCall!CallNext
<1>. QED  BY <1>6, <1>7

LEMMA DisconnectionRequested ==
    ASSUME Kept, Stage, troubles = {}, troubles' = {}, DisconnectRequest
    PROVE  Proper
<1>1. /\ worker.pc = "disconnectRequest" /\ Returns
      /\ UNCHANGED <<trunk, tx, iface, media>>
  BY DEF DisconnectRequest, Called
<1>2. Talks \/ Accepting \/ Ends \/ Gone
  BY <1>1 DEF Stage, Waits, Arrives, Dials, Dialing, Dialed, AcceptEnds, AtRest, Left, Held
<1>3. worker' \in WorkerType /\ worker'.pc = "none" /\ worker'.then = worker.then
  BY <1>1, WorkerReturns
<1>4. seq \in SeqType /\ WellKept(trunk)' /\ IsOutgoing(trunk)' = IsOutgoing(trunk)
  BY <1>1 DEF Kept, IsOutgoing
<1>5. PICK told : told = IF seq.disconnecting = 0 THEN seq.callref ELSE seq.sentRdis
  OBVIOUS
<1>6. told \in Nat
  BY <1>4, <1>5 DEF SeqType
<1>7. seq' = [seq EXCEPT !.media = @ /\ seq.busy, !.sentRdis = told]
  BY <1>5 DEF DisconnectRequest
<1>8. /\ seq' \in SeqType
      /\ seq'.callref = seq.callref /\ seq'.interface = seq.interface
      /\ seq'.connect = seq.connect /\ seq'.disconnecting = seq.disconnecting
      /\ seq'.sentRdis = told /\ seq'.id = seq.id /\ seq'.spec = seq.spec
      /\ seq'.media = (seq.media /\ seq.busy)
      /\ seq'.busy = seq.busy /\ seq'.named = seq.named
  BY <1>4, <1>6, <1>7 DEF SeqType
<1>9. OpCmd' = OpCmd /\ OpAnswer' = OpAnswer
  BY <1>1, <1>8 DEF OpCmd, OpAnswer
<1>10. Kept'
  BY <1>1, <1>3, <1>4, <1>8, SeqKept
<1>11. ASSUME Talks PROVE Stage'
  <2>1. Talks'
    BY <1>1, <1>3, <1>4, <1>5, <1>8, <1>9, <1>11
    DEF Talks, Stands, HungUp, Dropped, Orphaned, Owned, InHand, Untold, AtRest, Left, Held
  <2>. QED  BY <2>1 DEF Stage
<1>12. ASSUME Accepting PROVE Stage'
  <2>1. Accepting'
    BY <1>1, <1>3, <1>4, <1>5, <1>8, <1>9, <1>12
    DEF Accepting, Stands, HungUp, Answering, Owned, InHand, Untold, AtRest, Left, Held
  <2>. QED  BY <2>1 DEF Stage
<1>13. ASSUME Ends PROVE Stage'
  <2>1. Ends'
    BY <1>1, <1>3, <1>4, <1>5, <1>8, <1>9, <1>13
    DEF Ends, Dropped, Rejected, Orphaned, InHand, Clearing, Reported, AtRest, Left, Held
  <2>. QED  BY <2>1 DEF Stage
<1>14. ASSUME Gone, LockFree PROVE Stage'
  <2>1. Gone'
    BY <1>1, <1>3, <1>4, <1>5, <1>8, <1>14
    DEF Gone, NoCall, Clearing, Reported, LockFree, AtRest
  <2>. QED  BY <2>1 DEF Stage
<1>15. LockFree
  BY DEF DisconnectRequest
<1>16. PhaseOfCall' = PhaseOfCall
  BY <1>1, <1>3, <1>4, <1>8 DEF PhaseOfCall
<1>17. CASE told # 0 /\ seq.sentRdis = 0 /\ seq.interface
  <2>1. Owned
    BY <1>1, <1>2, <1>5, <1>17
    DEF Talks, Accepting, Answering, Ends, Gone, NoCall, Dropped, Orphaned, InHand,
        AtRest, Left, Held
  <2>2. PhaseOfCall \in {"offered", "up"}
    BY <2>1 DEF PhaseOfCall, Owned, InHand
  <2>3. TheCall!TellsRemoteHangup
    BY <1>1, <1>8, <1>16, <1>17, <2>2 DEF TheCall!TellsRemoteHangup
  <2>. QED
    BY <1>2, <1>10, <1>11, <1>12, <1>13, <1>14, <1>15, <2>3
    DEF Proper, TheCall!CallNext
<1>18. CASE ~(told # 0 /\ seq.sentRdis = 0 /\ seq.interface)
  <2>1. (seq'.sentRdis # 0 /\ seq'.interface) <=> (seq.sentRdis # 0 /\ seq.interface)
    <3>1. seq.sentRdis # 0 => told # 0
      BY <1>1, <1>2, <1>5
      DEF Talks, Stands, HungUp, Untold, Accepting, Answering, Owned, Ends, Gone,
          NoCall, Dropped, Orphaned, InHand, Left
    <3>. QED  BY <1>8, <1>18, <3>1
  <2>. QED
    BY <1>1, <1>2, <1>10, <1>11, <1>12, <1>13, <1>14, <1>15, <1>16, <2>1, Unseen
    DEF Proper
<1>. QED  BY <1>17, <1>18

LEMMA DisconnectionDone ==
    ASSUME Kept, Stage, troubles = {}, troubles' = {}, DisconnectDone
    PROVE  Proper
<1>1. /\ worker.pc = "disconnectDone" /\ LockFree /\ Returns
      /\ UNCHANGED <<trunk, iface, media>>
  BY DEF DisconnectDone, Called
<1>2. Ends \/ Gone
  BY <1>1 DEF Stage, Waits, Arrives, Dials, Dialing, Dialed, Talks, Stands, HungUp,
              Accepting, AcceptEnds, AtRest, Left, Held
<1>3. worker' \in WorkerType /\ worker'.pc = "none" /\ worker'.then = worker.then
  BY <1>1, WorkerReturns
<1>4. seq \in SeqType /\ WellKept(trunk)'
  BY <1>1 DEF Kept
<1>5. seq.connect = 0 /\ AtRest
  BY <1>1, <1>2
    DEF Ends, Dropped, Orphaned, Rejected, InHand, Gone, LockFree, AtRest, Left,
        Held
<1>6. CASE seq.interface /\ seq.id # 0
  <2>1. seq' = [Released(seq) EXCEPT !.named = FALSE] /\ tx' = Answer(tx, seq.id, "ok")
    BY <1>6 DEF DisconnectDone
  <2>2. PICK s : s = Released(seq)
    OBVIOUS
  <2>3. /\ seq' \in SeqType
        /\ seq'.callref = 0 /\ seq'.disconnecting = 0 /\ seq'.sentRdis = 0
        /\ seq'.id = 0 /\ ~seq'.media /\ seq'.connect = 0 /\ ~seq'.named
    <3>1. /\ s \in SeqType
          /\ s.callref = 0 /\ s.disconnecting = 0 /\ s.sentRdis = 0 /\ s.id = 0
          /\ ~s.media /\ s.connect = 0
      BY <1>4, <1>5, <2>2, ReleasedIs
    <3>. QED  BY <2>1, <2>2, <3>1 DEF SeqType
  <2>4. /\ Ends /\ seq.callref # 0 /\ seq.disconnecting # 0
        /\ tx[seq.id].cmd = "DISC" /\ tx[seq.id].answer = "none"
    BY <1>2, <1>6 DEF Ends, Dropped, Orphaned, Rejected, InHand, OpCmd, OpAnswer,
                      Gone, NoCall, AtRest, Left, Held
  <2>5. Settles(seq.id, "ok")
    <3>1. seq.id \in 0..Len(tx)
      BY DEF Kept, TxWell
    <3>. QED  BY <1>6, <2>1, <2>4, <3>1, AnswerSettles
  <2>6. Kept'
    <3>1. MediaWell'
      BY <2>3 DEF MediaWell
    <3>. QED  BY <1>3, <1>4, <1>5, <1>6, <2>3, <2>5, <3>1, SettledKept
  <2>7. Gone'
    BY <1>1, <1>3, <1>5, <2>3, <2>4 DEF Ends, Gone, NoCall, Clearing, Reported, AtRest
  <2>8. PhaseOfCall = "ending" /\ PhaseOfCall' = "free"
    BY <1>5, <2>3, <2>4 DEF PhaseOfCall
  <2>9. TheCall!Ends
    BY <2>3, <2>4, <2>5, <2>8
    DEF TheCall!Ends, TheCall!Moves, TheCall!Pending, TheCall!AnswersCommand, Settles
  <2>. QED  BY <2>6, <2>7, <2>9 DEF Proper, Stage, TheCall!CallNext
<1>7. CASE ~(seq.interface /\ seq.id # 0)
  <2>1. seq' = Released(seq) /\ tx' = tx
    BY <1>7 DEF DisconnectDone
  <2>2. ~seq.named /\ (seq.id # 0 => OpAnswer # "none")
    BY <1>2, <1>7
      DEF Ends, Dropped, Orphaned, Rejected, Gone, NoCall, OpCmd, AtRest, Left, Held
  <2>3. /\ seq' \in SeqType
        /\ seq'.callref = 0 /\ seq'.disconnecting = 0 /\ seq'.sentRdis = 0
        /\ seq'.id = 0 /\ ~seq'.media /\ seq'.connect = 0 /\ ~seq'.named
    BY <1>4, <1>5, <2>1, <2>2, ReleasedIs
  <2>4. Kept'
    BY <1>3, <1>4, <1>5, <2>1, <2>2, <2>3, SeqKept DEF OpAnswer
  <2>5. Gone'
    BY <1>1, <1>2, <1>3, <1>5, <2>3 DEF Ends, Gone, NoCall, Clearing, Reported, AtRest
  <2>6. PhaseOfCall' = "free"
    BY <2>3 DEF PhaseOfCall
  <2>7. CASE Ends
    <3>1. PhaseOfCall = "ending"
      BY <1>5, <2>2, <2>7
      DEF PhaseOfCall, Ends, Dropped, Orphaned, Rejected, InHand, AtRest, Left, Held
    <3>2. TheCall!Ends
      BY <1>5, <2>1, <2>2, <2>3, <2>6, <3>1, NothingAsked
      DEF TheCall!Ends, TheCall!Moves
    <3>. QED  BY <2>4, <2>5, <3>2 DEF Proper, Stage, TheCall!CallNext
  <2>8. CASE Gone
    <3>1. PhaseOfCall = "free" /\ seq.sentRdis = 0
      BY <1>5, <2>8 DEF PhaseOfCall, Gone, NoCall, AtRest
    <3>. QED  BY <2>1, <2>3, <2>4, <2>5, <2>6, <3>1, Unseen DEF Proper, Stage
  <2>. QED  BY <1>2, <2>7, <2>8
<1>. QED  BY <1>6, <1>7


----------------------------------------------------------------------------
(*                          The client's commands                           *)

(* Another command was sent.                                                *)
Adds(cmd, answer) ==
    /\ tx' = Append(tx, [cmd |-> cmd, answer |-> answer])
    /\ tx' \in Seq(Transactions) /\ Len(tx') = Id
    /\ Id \in Nat /\ Id # 0 /\ Id \notin DOMAIN tx
    /\ DOMAIN tx' = DOMAIN tx \cup {Id}
    /\ tx'[Id] = [cmd |-> cmd, answer |-> answer]
    /\ \A i \in DOMAIN tx : tx'[i] = tx[i]
    /\ ConnFailed => ConnFailed'

LEMMA SendingAdds ==
    ASSUME Kept, NEW cmd \in {"ACPT", "DISC", "CONN"},
           NEW answer \in {"none", "failed", "violation"}, Sends(cmd, answer)
    PROVE  Adds(cmd, answer) /\ iface = "none"
<1>1. tx \in Seq(Transactions) /\ DOMAIN tx = 1..Len(tx) /\ Len(tx) \in Nat
  BY DEF Kept, TxWell
<1>2. PICK new \in Transactions : new = [cmd |-> cmd, answer |-> answer]
  BY DEF Transactions
<1>3. tx' = Append(tx, new) /\ iface = "none"
  BY <1>2 DEF Sends
<1>4. /\ tx' \in Seq(Transactions) /\ Len(tx') = Len(tx) + 1
      /\ tx'[Len(tx) + 1] = new
      /\ \A i \in 1..Len(tx) : tx'[i] = tx[i]
  BY <1>1, <1>3
<1>5. DOMAIN tx' = 1..(Len(tx) + 1)
  BY <1>4
<1>6. ConnFailed => ConnFailed'
  BY <1>1, <1>4, <1>5 DEF ConnFailed
<1>. QED  BY <1>1, <1>2, <1>3, <1>4, <1>5, <1>6 DEF Adds, Id

LEMMA AddedKept ==
    ASSUME Kept, WellKept(trunk)', worker' \in WorkerType, seq' \in SeqType,
           NEW cmd, NEW answer, Adds(cmd, answer),
           cmd = "CONN" => seq.connect = 0 /\ answer = "none",
           answer = "none" /\ cmd # "CONN" => seq.id = 0 /\ cmd \in {"ACPT", "DISC"},
           seq'.connect = IF cmd = "CONN" THEN Id ELSE seq.connect,
           seq'.id = IF answer = "none" /\ cmd # "CONN" THEN Id ELSE seq.id,
           MediaWell'
    PROVE  Kept'
<1>1. /\ seq.id # 0 => seq.id \in DOMAIN tx
      /\ seq.connect # 0 => seq.connect \in DOMAIN tx
      /\ 0 \notin DOMAIN tx
  BY DEF Kept, TxWell
<1>2. tx' \in Seq(Transactions)
  BY DEF Adds
<1>3. seq'.id \in 0..Len(tx') /\ seq'.connect \in 0..Len(tx')
  <2>1. Len(tx') = Id /\ Id = Len(tx) + 1 /\ Len(tx) \in Nat
    BY DEF Adds, Id, Kept, TxWell
  <2>2. seq.id \in 0..Len(tx) /\ seq.connect \in 0..Len(tx)
    BY DEF Kept, TxWell
  <2>. QED  BY <2>1, <2>2
<1>4. seq'.id # 0 => tx'[seq'.id].cmd \in {"ACPT", "DISC"}
  BY <1>1 DEF Adds, Kept, TxWell
<1>5. seq'.connect # 0 => tx'[seq'.connect] = [cmd |-> "CONN", answer |-> "none"]
  BY <1>1 DEF Adds, Kept, TxWell
<1>6. \A i \in DOMAIN tx' : tx'[i].answer = "none" => i \in {seq'.id, seq'.connect}
  <2>1. ASSUME NEW i \in DOMAIN tx, tx'[i].answer = "none"
        PROVE  i \in {seq'.id, seq'.connect}
    <3>1. i \in {seq.id, seq.connect} /\ i # 0
      BY <2>1, <1>1 DEF Adds, Kept, TxWell
    <3>. QED  BY <3>1
  <2>2. tx'[Id].answer = "none" => Id \in {seq'.id, seq'.connect}
    BY DEF Adds
  <2>. QED  BY <2>1, <2>2 DEF Adds
<1>7. TxWell'
  BY <1>2, <1>3, <1>4, <1>5, <1>6 DEF TxWell
<1>. QED  BY <1>7 DEF Kept

LEMMA OperationAdded ==
    ASSUME Kept, NEW cmd, NEW answer, Adds(cmd, answer)
    PROVE  /\ seq'.id = seq.id => OpCmd' = OpCmd /\ OpAnswer' = OpAnswer
           /\ seq'.id = Id => OpCmd' = cmd /\ OpAnswer' = answer
<1>1. seq.id # 0 => seq.id \in DOMAIN tx
  BY DEF Kept, TxWell
<1>2. /\ Id # 0 /\ tx'[Id] = [cmd |-> cmd, answer |-> answer]
      /\ \A i \in DOMAIN tx : tx'[i] = tx[i]
  BY DEF Adds
<1>. QED  BY <1>1, <1>2 DEF OpCmd, OpAnswer

(* A named line has its call in hand.                                       *)
LEMMA NamedHasCall ==
    ASSUME Stage, seq.named
    PROVE  /\ seq.callref # 0 /\ seq.connect = 0 /\ seq.interface
           /\ PhaseOfCall \in {"offered", "up", "ending", "out of order"}
           /\ Talks \/ Accepting \/ AcceptEnds \/ Ends
<1>1. Talks \/ Accepting \/ AcceptEnds \/ Ends
  BY DEF Stage, Waits, Arrives, Dials, Gone, NoCall, AtRest
<1>2. InHand /\ seq.interface /\ seq.callref # 0
  BY <1>1 DEF Talks, Accepting, Answering, AcceptEnds, Ends, Dropped, Orphaned,
              Rejected, Owned, InHand, AtRest, Left, Held
<1>. QED  BY <1>1, <1>2 DEF InHand, PhaseOfCall

(* Nothing but the threads that hang up moves, or the channels start and    *)
(* stop.                                                                    *)
SameButBusy ==
    /\ seq'.callref = seq.callref /\ seq'.interface = seq.interface
    /\ seq'.connect = seq.connect /\ seq'.disconnecting = seq.disconnecting
    /\ seq'.sentRdis = seq.sentRdis /\ seq'.id = seq.id /\ seq'.spec = seq.spec
    /\ seq'.media = seq.media /\ seq'.named = seq.named
    /\ OpCmd' = OpCmd /\ OpAnswer' = OpAnswer

LEMMA StaysInStage ==
    ASSUME Stage, UNCHANGED <<trunk, worker>>, SameButBusy,
           \/ iface' = iface
           \/ AtRest /\ iface # "none" /\ AtRest' /\ (InHand => iface' # "none"),
           InHand /\ seq.disconnecting # 0 /\ Held => Held'
    PROVE  Stage'
<1>. USE DEF SameButBusy, AtRest
<1>1. /\ InHand' = InHand /\ NoCall' = NoCall /\ Owned' = Owned
      /\ Rejected' = Rejected /\ Answering' = Answering
      /\ Orphaned' = Orphaned /\ Dropped' = Dropped
  BY DEF InHand, NoCall, Owned, Rejected, Answering, Orphaned, Dropped
<1>2. /\ Stands' = Stands /\ HungUp' = HungUp /\ Untold' = Untold
      /\ Clearing' = Clearing /\ Reported' = Reported
      /\ StateOf(trunk)' = StateOf(trunk) /\ DueOf(trunk)' = DueOf(trunk)
      /\ IsOutgoing(trunk)' = IsOutgoing(trunk)
  BY DEF Stands, HungUp, Untold, Clearing, Reported, StateOf, DueOf, IsOutgoing
<1>3. /\ Left => Left'
      /\ Dropped /\ Held => Dropped' /\ Held'
      /\ Orphaned /\ Held => Orphaned' /\ Held'
  <2>1. Dropped \/ Orphaned => InHand /\ seq.disconnecting # 0
    BY DEF Dropped, Orphaned, InHand
  <2>2. Left => Left'
    BY <1>1 DEF Left
  <2>. QED  BY <1>1, <2>1, <2>2
<1>. USE <1>1, <1>2, <1>3
<1>4. Waits => Waits'
  BY DEF Waits, Idling
<1>5. Arrives => Arrives'
  BY DEF Arrives, Idling
<1>6. Dials => Dials'
  BY DEF Dials, Dialing, Dialed
<1>7. Talks => Talks'
  BY DEF Talks, Owned
<1>8. Accepting => Accepting'
  BY DEF Accepting
<1>9. AcceptEnds => AcceptEnds'
  BY DEF AcceptEnds, Succeeded, Failed
<1>10. Ends => Ends'
  BY DEF Ends
<1>11. Gone => Gone'
  BY DEF Gone
<1>. QED  BY <1>4, <1>5, <1>6, <1>7, <1>8, <1>9, <1>10, <1>11 DEF Stage

LEMMA StageUntouched ==
    ASSUME Stage, UNCHANGED <<trunk, seq, worker, iface, media>>,
           OpCmd' = OpCmd, OpAnswer' = OpAnswer
    PROVE  Stage'
BY StaysInStage DEF SameButBusy, Held

LEMMA PendingRefused ==
    ASSUME Kept, Stage, troubles = {}, troubles' = {},
           NEW cmd \in {"ACPT", "DISC"}, RefusesPending(cmd)
    PROVE  Proper
<1>1. seq.named /\ Sends(cmd, "violation") /\ UNCHANGED <<trunk, seq, worker, iface, media>>
  BY DEF RefusesPending
<1>2. Adds(cmd, "violation")
  BY <1>1, SendingAdds
<1>3. Stage'
  BY <1>1, <1>2, OperationAdded, StageUntouched
<1>4. seq.callref # 0 /\ seq.connect = 0
  BY <1>1, NamedHasCall
<1>5. Kept'
  <2>1. WellKept(trunk)' /\ worker' \in WorkerType /\ seq' \in SeqType /\ MediaWell'
    BY <1>1, <1>4 DEF Kept, MediaWell
  <2>. QED  BY <1>1, <1>2, <2>1, AddedKept
<1>6. PhaseOfCall' = PhaseOfCall /\ PhaseOfCall \in {"offered", "up", "ending"}
  BY <1>1, <1>4 DEF PhaseOfCall
<1>7. TheCall!Commands
  BY <1>1, <1>2, <1>6 DEF TheCall!Commands, Adds
<1>. QED  BY <1>3, <1>5, <1>7 DEF Proper, TheCall!CallNext

(* A command for a call that nothing else is asked of                       *)
LEMMA Free ==
    ASSUME Stage, seq.named, seq.id = 0, iface = "none"
    PROVE  Talks /\ Owned
<1>1. Talks \/ Accepting \/ AcceptEnds \/ Ends
  BY NamedHasCall
<1>. QED
  BY <1>1 DEF Talks, Accepting, Answering, AcceptEnds, Ends, Dropped, Orphaned, Rejected,
              Owned, OpCmd, AtRest, Left, Held

LEMMA IdSet ==
    ASSUME seq \in SeqType, NEW id \in Nat, seq' = [seq EXCEPT !.id = id]
    PROVE  /\ seq' \in SeqType
           /\ seq'.callref = seq.callref /\ seq'.interface = seq.interface
           /\ seq'.connect = seq.connect /\ seq'.disconnecting = seq.disconnecting
           /\ seq'.sentRdis = seq.sentRdis /\ seq'.id = id /\ seq'.spec = seq.spec
           /\ seq'.media = seq.media /\ seq'.busy = seq.busy /\ seq'.named = seq.named
BY DEF SeqType

LEMMA AcceptAsked ==
    ASSUME Kept, Stage, troubles = {}, troubles' = {}, ACPT
    PROVE  Proper
<1>1. /\ seq.named /\ seq.id = 0 /\ seq' = [seq EXCEPT !.id = Id] /\ UNCHANGED worker
  BY DEF ACPT
<1>2. iface = "none"
  BY DEF ACPT, Sends
<1>3. Talks /\ Owned
  BY <1>1, <1>2, Free
<1>4. /\ Sends("ACPT", "none") /\ trunk' = [trunk EXCEPT !.cmd = "accept"]
      /\ iface' = "accepting"
  BY <1>3 DEF ACPT, Talks, Owned, InHand, AtRest, Left, Held
<1>5. Adds("ACPT", "none")
  BY <1>4, SendingAdds
<1>6. /\ seq' \in SeqType
      /\ seq'.callref = seq.callref /\ seq'.interface = seq.interface
      /\ seq'.connect = seq.connect /\ seq'.disconnecting = seq.disconnecting
      /\ seq'.sentRdis = seq.sentRdis /\ seq'.id = Id /\ seq'.spec = seq.spec
      /\ seq'.media = seq.media /\ seq'.busy = seq.busy /\ seq'.named = seq.named
  BY <1>1, <1>5, IdSet DEF Kept, Adds
<1>7. OpCmd' = "ACPT" /\ OpAnswer' = "none" /\ seq'.id # 0
  BY <1>5, <1>6, OperationAdded DEF Adds
<1>8. /\ WellKept(trunk')
      /\ StateOf(trunk') = StateOf(trunk) /\ DueOf(trunk') = DueOf(trunk)
      /\ IsOutgoing(trunk') = IsOutgoing(trunk)
      /\ trunk'.cmd = "accept" /\ trunk'.callref = trunk.callref
      /\ trunk'.last = trunk.last
  <2>1. trunk \in TrunkType /\ WellKept(trunk) /\ trunk.callref \in {0, trunk.last}
    BY TrunkFields DEF Kept
  <2>2. /\ trunk' \in TrunkType /\ SameHandles(trunk', trunk)
        /\ trunk'.cmd = "accept" /\ trunk'.callref = trunk.callref
        /\ trunk'.last = trunk.last
    BY <1>4, <2>1 DEF TrunkType, SameHandles, TrunkCommands
  <2>. QED  BY <2>1, <2>2, KeepsHandles
<1>9. Accepting'
  BY <1>1, <1>3, <1>4, <1>6, <1>7, <1>8
  DEF Talks, Owned, Accepting, Answering, Stands, HungUp, Untold, InHand, AtRest, Left, Held
<1>10. seq.callref # 0 /\ seq.connect = 0
  BY <1>1, NamedHasCall
<1>11. Kept'
  <2>1. worker' \in WorkerType /\ MediaWell'
    BY <1>1, <1>6, <1>10 DEF Kept, MediaWell
  <2>. QED  BY <1>1, <1>5, <1>6, <1>8, <2>1, AddedKept
<1>12. PhaseOfCall' = PhaseOfCall /\ PhaseOfCall \in {"offered", "up", "ending"}
  BY <1>1, <1>6, <1>8, <1>10 DEF PhaseOfCall, IsOutgoing
<1>13. TheCall!Commands
  BY <1>5, <1>6, <1>12 DEF TheCall!Commands, Adds
<1>. QED  BY <1>9, <1>11, <1>13 DEF Proper, Stage, TheCall!CallNext


LEMMA HangUpAsked ==
    ASSUME Kept, Stage, troubles = {}, troubles' = {}, DISC
    PROVE  Proper
<1>1. /\ seq.named /\ seq.id = 0 /\ seq' = [seq EXCEPT !.id = Id]
      /\ Sends("DISC", "none") /\ iface' = "disconnecting"
      /\ UNCHANGED <<trunk, worker>>
  BY DEF DISC
<1>2. Adds("DISC", "none") /\ iface = "none"
  BY <1>1, SendingAdds
<1>3. Talks /\ Owned
  BY <1>1, <1>2, Free
<1>4. /\ seq' \in SeqType
      /\ seq'.callref = seq.callref /\ seq'.interface = seq.interface
      /\ seq'.connect = seq.connect /\ seq'.disconnecting = seq.disconnecting
      /\ seq'.sentRdis = seq.sentRdis /\ seq'.id = Id /\ seq'.spec = seq.spec
      /\ seq'.media = seq.media /\ seq'.busy = seq.busy /\ seq'.named = seq.named
  BY <1>1, <1>2, IdSet DEF Kept, Adds
<1>5. OpCmd' = "DISC" /\ OpAnswer' = "none"
  BY <1>2, <1>4, OperationAdded DEF Adds
<1>6. Talks'
  BY <1>1, <1>3, <1>4, <1>5
    DEF Talks, Owned, Stands, HungUp, Untold, InHand, AtRest, Left, Held
<1>7. seq.callref # 0 /\ seq.connect = 0
  BY <1>1, NamedHasCall
<1>8. Kept'
  <2>1. worker' \in WorkerType /\ WellKept(trunk)' /\ MediaWell'
    BY <1>1, <1>4, <1>7 DEF Kept, MediaWell
  <2>. QED  BY <1>1, <1>2, <1>4, <2>1, AddedKept
<1>9. PhaseOfCall' = PhaseOfCall /\ PhaseOfCall \in {"offered", "up", "ending"}
  BY <1>1, <1>4, <1>7 DEF PhaseOfCall
<1>10. TheCall!Commands
  BY <1>2, <1>4, <1>9 DEF TheCall!Commands, Adds
<1>. QED  BY <1>6, <1>8, <1>10 DEF Proper, Stage, TheCall!CallNext

LEMMA AcceptCalled ==
    ASSUME Kept, Stage, troubles = {}, troubles' = {}, Accepts
    PROVE  Proper
<1>1. /\ iface = "accepting" /\ iface' = "none" /\ StateOf(trunk) = "ringing"
      /\ trunk' = [trunk EXCEPT !.state[trunk.handle] = "accepting"]
      /\ UNCHANGED <<seq, tx, worker>>
  BY DEF Accepts, StateOf
<1>2. Accepting /\ Answering /\ Stands
  BY <1>1 DEF Stage, Waits, Arrives, NoCall, Idling, Dials, Talks, Accepting, HungUp,
              AcceptEnds, Succeeded, Failed, Orphaned, Owned, Ends, Gone, AtRest, Left, Held
<1>3. WellKept(trunk) /\ trunk \in TrunkType
  BY DEF Kept, WellKept
<1>4. trunk.state \in [Handles -> HandleStates] /\ trunk.handle \in Handles
  BY <1>3 DEF TrunkType
<1>5. PICK states : states = [trunk.state EXCEPT ![trunk.handle] = "accepting"]
  OBVIOUS
<1>6. trunk' = [trunk EXCEPT !.state = states]
  BY <1>1, <1>3, <1>5 DEF TrunkType
<1>7. states \in [Handles -> HandleStates]
  BY <1>4, <1>5 DEF HandleStates
<1>8. trunk' \in TrunkType
  BY <1>3, <1>6, <1>7 DEF TrunkType
<1>9. /\ trunk'.state = states /\ trunk'.events = trunk.events
      /\ trunk'.handle = trunk.handle /\ trunk'.shadow = trunk.shadow
      /\ trunk'.out = trunk.out /\ trunk'.cmd = trunk.cmd
      /\ trunk'.callref = trunk.callref /\ trunk'.last = trunk.last
  BY <1>3, <1>6 DEF TrunkType
<1>10. /\ HandlesWell(trunk') /\ StateOf(trunk') = "accepting"
       /\ IsOutgoing(trunk') = IsOutgoing(trunk)
  <2>1. "accepting" \in HandleStates /\ "accepting" # "closed"
    BY DEF HandleStates
  <2>. QED  BY <1>3, <1>5, <1>8, <1>9, <2>1, ChangesState
<1>11. Orderly(trunk')
  BY <1>3, <1>9 DEF WellKept, Orderly
<1>12. DueOf(trunk') = DueOf(trunk)
  BY <1>9 DEF DueOf
<1>13. Accepting'
  BY <1>1, <1>2, <1>9, <1>10, <1>12
  DEF Accepting, Answering, Stands, Owned, InHand, OpCmd, OpAnswer, Untold, AtRest,
      Left, Held
<1>. QED
  BY <1>1, <1>8, <1>10, <1>11, <1>13, OthersKept, SamePhase
  DEF Proper, Stage, WellKept, Kept

(* What goes wrong is recorded.                                             *)
LEMMA FailuresAreTroubles ==
    ASSUME troubles' = {}
    PROVE  ~AcceptFails /\ ~OpenOutFails /\ ~OnIncomingNoMedia
BY DEF AcceptFails, OpenOutFails, OnIncomingNoMedia, Trouble


(* DISC, and who loses the client, hang up or leave it to the media thread. *)
LEMMA DisconnectingSet ==
    ASSUME seq \in SeqType, seq' = [seq EXCEPT !.disconnecting = seq.callref]
    PROVE  /\ seq' \in SeqType
           /\ seq'.callref = seq.callref /\ seq'.interface = seq.interface
           /\ seq'.connect = seq.connect /\ seq'.disconnecting = seq.callref
           /\ seq'.sentRdis = seq.sentRdis /\ seq'.id = seq.id /\ seq'.spec = seq.spec
           /\ seq'.media = seq.media /\ seq'.busy = seq.busy /\ seq'.named = seq.named
BY DEF SeqType

LEMMA HangUpCarriedOut ==
    ASSUME Kept, Stage, troubles = {}, troubles' = {}, Disconnecting
    PROVE  Proper
<1>1. iface = "disconnecting" /\ UNCHANGED <<tx, worker, media>>
  BY DEF Disconnecting
<1>2. Talks /\ Owned /\ OpCmd = "DISC" /\ OpAnswer = "none"
  BY <1>1 DEF Stage, Waits, Arrives, NoCall, Idling, Dials, Talks, Accepting,
              AcceptEnds, Succeeded, Failed, Ends, Gone, AtRest, Left, Held
<1>3. /\ seq.callref = trunk.callref /\ seq.callref # 0 /\ seq.connect = 0
      /\ seq.disconnecting = 0 /\ seq.named /\ seq.id # 0
  BY <1>2 DEF Talks, Owned, InHand, OpCmd, AtRest, Left, Held
<1>4. seq.busy \/ MayHangUp(trunk)
  BY <1>3, NeverLate DEF Disconnecting, HangsUpLate
<1>5. iface' = "none" /\ seq' = [seq EXCEPT !.disconnecting = seq.callref]
  BY <1>3, <1>4 DEF Disconnecting, Disconnects
<1>6. seq \in SeqType /\ worker' \in WorkerType
  BY <1>1 DEF Kept
<1>7. /\ seq' \in SeqType
      /\ seq'.callref = seq.callref /\ seq'.interface = seq.interface
      /\ seq'.connect = seq.connect /\ seq'.disconnecting = seq.callref
      /\ seq'.sentRdis = seq.sentRdis /\ seq'.id = seq.id /\ seq'.spec = seq.spec
      /\ seq'.media = seq.media /\ seq'.busy = seq.busy /\ seq'.named = seq.named
  BY <1>5, <1>6, DisconnectingSet
<1>8. OpCmd' = OpCmd /\ OpAnswer' = OpAnswer
  BY <1>1, <1>7 DEF OpCmd, OpAnswer
<1>9. WellKept(trunk)' /\ Stage'
  <2>1. CASE seq.busy
    <3>1. trunk' = trunk
      BY <2>1 DEF Disconnecting
    <3>2. Talks'
      BY <1>1, <1>2, <1>5, <1>7, <1>8, <2>1, <3>1
      DEF Talks, Owned, Dropped, Stands, HungUp, Untold, InHand, AtRest, Left, Held
    <3>. QED  BY <3>1, <3>2 DEF Stage, Kept
  <2>2. CASE ~seq.busy
    <3>1. Cleared
      BY <1>3, <1>4, <2>2, HangsUpCall DEF Disconnecting
    <3>2. Ends'
      BY <1>1, <1>2, <1>5, <1>7, <1>8, <3>1
      DEF Talks, Stands, HungUp, Owned, InHand, Ends, Dropped, Clearing, Cleared,
          AtRest, Left, Held
    <3>. QED  BY <3>1, <3>2 DEF Stage, Cleared
  <2>. QED  BY <2>1, <2>2
<1>10. Kept'
  BY <1>1, <1>3, <1>6, <1>7, <1>9, SeqKept
<1>11. PhaseOfCall \in {"offered", "up"} /\ PhaseOfCall' = "ending"
  BY <1>3, <1>7 DEF PhaseOfCall
<1>12. TheCall!Pending("DISC", seq.id)
  BY <1>2, <1>3 DEF OpCmd, OpAnswer, TheCall!Pending, Kept, TxWell
<1>13. TheCall!HangsUp
  BY <1>1, <1>7, <1>11, <1>12 DEF TheCall!HangsUp, TheCall!Moves, TheCall!Pending
<1>. QED  BY <1>9, <1>10, <1>13 DEF Proper, TheCall!CallNext

(* What is left of the commands when nobody waits for an answer             *)
LEMMA NobodyAnswered ==
    ASSUME Kept, seq.connect = 0, NEW s,
           s = [i \in DOMAIN tx |-> IF tx[i].answer # "none" THEN tx[i]
                                    ELSE [tx[i] EXCEPT !.answer = "gone"]]
    PROVE  /\ s \in Seq(Transactions) /\ DOMAIN s = DOMAIN tx /\ Len(s) = Len(tx)
           /\ \A i \in DOMAIN tx : s[i].cmd = tx[i].cmd /\ s[i].answer # "none"
           /\ \A i \in DOMAIN tx : tx[i].answer # "none" => s[i] = tx[i]
<1>1. tx \in Seq(Transactions) /\ DOMAIN tx = 1..Len(tx) /\ Len(tx) \in Nat
  BY DEF Kept, TxWell
<1>2. ASSUME NEW i \in DOMAIN tx
      PROVE  /\ s[i] \in Transactions /\ s[i].cmd = tx[i].cmd /\ s[i].answer # "none"
             /\ tx[i].answer # "none" => s[i] = tx[i]
  <2>1. tx[i] \in Transactions
    BY <1>1, <1>2
  <2>. QED  BY <2>1 DEF Transactions
<1>3. DOMAIN s = 1..Len(tx)
  BY <1>1
<1>4. s \in Seq(Transactions) /\ Len(s) = Len(tx)
  BY <1>1, <1>2, <1>3
<1>. QED  BY <1>1, <1>2, <1>3, <1>4

(* The client vanishes: the call is left, and lost_connection() goes on.    *)
LEMMA ConnectionLost ==
    ASSUME Kept, Stage, troubles = {}, troubles' = {}, LostConnection
    PROVE  Proper
<1>1. /\ seq.named /\ iface = "none" /\ iface' = "leaving"
      /\ UNCHANGED <<trunk, worker, media>>
  BY DEF LostConnection
<1>2. /\ seq.callref # 0 /\ seq.connect = 0 /\ seq.interface
      /\ PhaseOfCall \in {"offered", "up", "ending"}
      /\ Talks \/ Accepting \/ AcceptEnds \/ Ends
  <2>1. PhaseOfCall # "out of order"
    BY DEF PhaseOfCall
  <2>. QED  BY <1>1, <2>1, NamedHasCall
<1>3. seq \in SeqType /\ worker' \in WorkerType /\ WellKept(trunk)'
  BY <1>1 DEF Kept
<1>4. /\ seq' \in SeqType
      /\ seq'.callref = seq.callref /\ ~seq'.interface /\ ~seq'.named
      /\ seq'.connect = seq.connect /\ seq'.disconnecting = seq.disconnecting
      /\ seq'.sentRdis = seq.sentRdis /\ seq'.id = seq.id /\ seq'.spec = seq.spec
      /\ seq'.media = seq.media /\ seq'.busy = seq.busy
  BY <1>3 DEF LostConnection, SeqType
<1>5. /\ tx' \in Seq(Transactions) /\ DOMAIN tx' = DOMAIN tx /\ Len(tx') = Len(tx)
      /\ \A i \in DOMAIN tx : tx'[i].cmd = tx[i].cmd /\ tx'[i].answer # "none"
      /\ \A i \in DOMAIN tx : tx[i].answer # "none" => tx'[i] = tx[i]
  BY <1>2, NobodyAnswered DEF LostConnection
<1>6. seq.id # 0 => seq.id \in DOMAIN tx /\ OpAnswer' # "none"
  BY <1>4, <1>5 DEF OpAnswer, Kept, TxWell
<1>7. TxWell' /\ MediaWell'
  <2>1. seq.id \in 0..Len(tx) /\ seq.id # 0 => tx[seq.id].cmd \in {"ACPT", "DISC"}
    BY DEF Kept, TxWell
  <2>. QED  BY <1>2, <1>4, <1>5, <1>6, <2>1 DEF Kept, TxWell, MediaWell
<1>8. InHand
  BY <1>1, <1>2 DEF Talks, Accepting, Answering, AcceptEnds, Ends, Dropped, Orphaned,
                    Rejected, Owned, Left
<1>9. /\ AtRest' /\ Held'
      /\ seq.disconnecting = 0 => Left'
      /\ Dropped => Orphaned'
  BY <1>1, <1>4, <1>6, <1>8 DEF AtRest, Held, Left, Dropped, Orphaned, InHand
<1>10. Stage'
  <2>1. Talks => Talks'
    BY <1>1, <1>4, <1>9
    DEF Talks, Owned, Dropped, Stands, HungUp, Untold, Left
  <2>2. Accepting => Accepting'
    BY <1>1, <1>2, <1>4, <1>9
    DEF Accepting, Answering, Owned, Orphaned, Untold, Left
  <2>3. AcceptEnds => AcceptEnds'
    BY <1>1, <1>2, <1>4, <1>9
    DEF AcceptEnds, Succeeded, Failed, Answering, Owned, Orphaned, Untold, AtRest, Left
  <2>4. Ends => Ends'
    BY <1>1, <1>4, <1>9
    DEF Ends, Dropped, Rejected, Clearing, Reported, Orphaned
  <2>. QED  BY <1>2, <2>1, <2>2, <2>3, <2>4 DEF Stage
<1>11. Kept'
  BY <1>3, <1>4, <1>7 DEF Kept
<1>12. PhaseOfCall' = "ending"
  BY <1>2, <1>4 DEF PhaseOfCall
<1>13. TheCall!LosesClient
  <2>1. tx' = [i \in DOMAIN tx |-> IF tx[i].answer = "none"
                                   THEN [tx[i] EXCEPT !.answer = "gone"] ELSE tx[i]]
    BY DEF LostConnection
  <2>. QED  BY <1>2, <1>4, <1>12, <2>1 DEF TheCall!LosesClient, TheCall!Moves
<1>. QED  BY <1>10, <1>11, <1>13 DEF Proper, TheCall!CallNext

LEMMA CallLeft ==
    ASSUME Kept, Stage, troubles = {}, troubles' = {}, Leaves
    PROVE  Proper
<1>1. /\ iface = "leaving" /\ UNCHANGED <<trunk, seq, tx, worker, media>>
      /\ iface' = IF seq.callref = 0 THEN "none" ELSE "dropping"
  BY DEF Leaves
<1>2. SameButBusy
  BY <1>1 DEF SameButBusy, OpCmd, OpAnswer
<1>3. InHand => seq.callref # 0
  BY DEF InHand
<1>4. Stage'
  BY <1>1, <1>2, <1>3, StaysInStage DEF AtRest, Held
<1>5. worker' \in WorkerType /\ WellKept(trunk)'
  BY <1>1 DEF Kept
<1>6. IsOutgoing(trunk)' = IsOutgoing(trunk)
  BY <1>1
<1>. QED  BY <1>1, <1>4, <1>5, <1>6, OthersKept, SamePhase DEF Proper

(* A call that was left or dropped is hung up.                              *)
LEMMA DroppedEnds ==
    ASSUME Stage, MayHangUp(trunk), Cleared, worker' = worker, AtRest',
           seq'.media = seq.media, Left \/ Dropped, Dropped', Left \/ Orphaned => Orphaned',
           iface # "disconnecting"
    PROVE  Ends'
<1>1. InHand /\ (Left => seq.disconnecting = 0)
  BY DEF Left, Dropped, Orphaned
<1>2. CASE Talks
  BY <1>2 DEF Talks, Stands, HungUp, Ends, Clearing, Cleared
<1>3. CASE Accepting
  BY <1>3 DEF Accepting, Answering, Owned, Stands, HungUp, Ends, Clearing, Cleared, Left,
              Dropped, Orphaned, InHand
<1>4. CASE AcceptEnds
  BY <1>4 DEF AcceptEnds, Answering, Owned, Succeeded, Failed, Untold, Ends, Clearing,
              Cleared, Left, Dropped, Orphaned, InHand
<1>5. ~Ends
  BY MayHangUpIs DEF Ends, Clearing, Reported
<1>6. ~Waits /\ ~Arrives /\ ~Dials /\ ~Gone
  BY <1>1 DEF Waits, Arrives, Dials, Gone, NoCall, InHand
<1>. QED  BY <1>2, <1>3, <1>4, <1>5, <1>6 DEF Stage

LEMMA CallDropped ==
    ASSUME Kept, Stage, troubles = {}, troubles' = {}, Drops
    PROVE  Proper
<1>1. /\ iface = "dropping" /\ iface' = "none" /\ UNCHANGED <<tx, worker, media>>
      /\ seq' = [seq EXCEPT !.disconnecting = seq.callref]
  BY DEF Drops
<1>2. seq.callref # 0 /\ ~seq.interface
  BY DEF Drops, Trouble
<1>3. seq \in SeqType /\ worker' \in WorkerType
  BY <1>1 DEF Kept
<1>4. /\ seq' \in SeqType
      /\ seq'.callref = seq.callref /\ seq'.interface = seq.interface
      /\ seq'.connect = seq.connect /\ seq'.disconnecting = seq.callref
      /\ seq'.sentRdis = seq.sentRdis /\ seq'.id = seq.id /\ seq'.spec = seq.spec
      /\ seq'.media = seq.media /\ seq'.busy = seq.busy /\ seq'.named = seq.named
  BY <1>1, <1>3, DisconnectingSet
<1>5. OpCmd' = OpCmd /\ OpAnswer' = OpAnswer
  BY <1>1, <1>4 DEF OpCmd, OpAnswer
<1>6. Talks \/ Accepting \/ AcceptEnds \/ Ends
  BY <1>2 DEF Stage, Waits, Arrives, Dials, Gone, NoCall
<1>7. Left \/ Orphaned \/ (Rejected /\ Ends)
  BY <1>1, <1>2, <1>6
  DEF Talks, Accepting, Answering, Owned, AcceptEnds, Ends, Dropped
<1>8. /\ InHand /\ seq.connect = 0 /\ ~seq.named /\ seq.callref = trunk.last
      /\ seq.id # 0 => OpAnswer # "none"
  BY <1>7 DEF Left, Orphaned, Rejected, InHand
<1>9. trunk'.last = trunk.last => Orphaned' /\ Dropped'
  BY <1>2, <1>4, <1>5, <1>8 DEF Orphaned, Dropped, InHand
<1>10. AtRest'
  BY <1>1 DEF AtRest
<1>11. WellKept(trunk)' /\ Stage' /\ IsOutgoing(trunk)' = IsOutgoing(trunk)
  <2>1. CASE seq.busy
    <3>1. trunk' = trunk
      BY <2>1 DEF Drops
    <3>2. Orphaned' /\ Dropped' /\ Held'
      BY <1>4, <1>9, <2>1, <3>1 DEF Held
    <3>3. Talks => Talks'
      BY <1>1, <1>2, <1>4, <1>10, <3>1, <3>2 DEF Talks, Stands, HungUp, Untold
    <3>4. Accepting => Accepting'
      BY <1>1, <1>2, <1>4, <1>10, <3>1, <3>2 DEF Accepting, Untold
    <3>5. AcceptEnds => AcceptEnds'
      BY <1>1, <1>2, <1>4, <1>10, <3>1, <3>2
      DEF AcceptEnds, Succeeded, Failed, Untold, Answering, Owned
    <3>6. Ends => Ends'
      BY <1>1, <1>4, <1>10, <3>1, <3>2 DEF Ends, Clearing, Reported
    <3>. QED  BY <1>6, <3>1, <3>3, <3>4, <3>5, <3>6 DEF Stage, Kept
  <2>2. CASE ~seq.busy /\ trunk.callref = seq.callref
    <3>1. MayHangUp(trunk)
      BY <1>2, <2>2, NeverLate DEF Drops, HangsUpLate
    <3>2. Cleared
      BY <2>2, <3>1, HangsUpCall DEF Drops
    <3>3. ~Ends
      BY <3>1, MayHangUpIs DEF Ends, Clearing, Reported
    <3>4. Ends'
      BY <1>1, <1>4, <1>7, <1>9, <1>10, <3>1, <3>2, <3>3, DroppedEnds
      DEF Cleared, Dropped
    <3>. QED  BY <3>2, <3>4 DEF Stage, Cleared
  <2>3. CASE ~seq.busy /\ trunk.callref # seq.callref
    <3>1. trunk' = trunk
      BY <2>3 DEF Drops, TrunkDisconnect
    <3>2. Ends
      BY <1>6, <1>8, <2>3 DEF Talks, Accepting, AcceptEnds
    <3>3. Ends'
      BY <1>1, <1>4, <1>9, <1>10, <3>1, <3>2 DEF Ends, Clearing, Reported
    <3>. QED  BY <3>1, <3>3 DEF Stage, Kept
  <2>. QED  BY <2>1, <2>2, <2>3
<1>12. Kept'
  BY <1>1, <1>3, <1>4, <1>8, <1>11, SeqKept
<1>13. PhaseOfCall' = PhaseOfCall
  BY <1>2, <1>4, <1>8 DEF PhaseOfCall
<1>. QED  BY <1>1, <1>4, <1>11, <1>12, <1>13, Unseen DEF Proper

(* The lie of DISC is told after a trouble only.                            *)
LEMMA NeverRefused ==
    ASSUME Stage
    PROVE  iface \notin {"refused", "lying"}
BY DEF Stage, Waits, Arrives, Idling, Dials, Talks, Accepting, AcceptEnds, Succeeded,
       Failed, Ends, Gone, AtRest

LEMMA ConnectAsked ==
    ASSUME Kept, Stage, troubles = {}, troubles' = {}, CONN
    PROVE  Proper
<1>1. /\ seq.callref = 0 /\ seq.connect = 0 /\ Sends("CONN", "none")
      /\ seq' = [seq EXCEPT !.media = TRUE, !.connect = Id]
      /\ UNCHANGED worker
  BY DEF CONN
<1>2. /\ trunk.cmd = "none" /\ iface' = "connecting"
      /\ trunk' = [trunk EXCEPT !.cmd = "connect", !.calls = @ + 1]
  BY DEF CONN, Trouble
<1>3. Adds("CONN", "none") /\ iface = "none"
  BY <1>1, SendingAdds
<1>4. Waits \/ Arrives \/ Gone
  BY <1>1 DEF Stage, Dials, Talks, Accepting, Answering, AcceptEnds, Ends, Dropped,
              Orphaned, Rejected, Owned, InHand, AtRest, Left, Held
<1>5. seq \in SeqType /\ worker' \in WorkerType
  BY <1>1 DEF Kept
<1>6. /\ seq' \in SeqType
      /\ seq'.callref = 0 /\ seq'.connect = Id /\ seq'.media
      /\ seq'.disconnecting = seq.disconnecting /\ seq'.sentRdis = seq.sentRdis
      /\ seq'.id = seq.id /\ seq'.named = seq.named
      /\ seq'.interface = seq.interface
  BY <1>1, <1>3, <1>5 DEF SeqType, Adds
<1>7. Id # 0
  BY <1>3 DEF Adds
<1>8. /\ WellKept(trunk')
      /\ StateOf(trunk') = StateOf(trunk) /\ DueOf(trunk') = DueOf(trunk)
      /\ IsOutgoing(trunk') = IsOutgoing(trunk)
      /\ trunk'.cmd = "connect" /\ trunk'.callref = trunk.callref
      /\ trunk'.last = trunk.last
  <2>1. trunk \in TrunkType /\ WellKept(trunk) /\ trunk.callref \in {0, trunk.last}
    BY TrunkFields DEF Kept
  <2>2. /\ trunk' \in TrunkType /\ SameHandles(trunk', trunk)
        /\ trunk'.cmd = "connect" /\ trunk'.callref = trunk.callref
        /\ trunk'.last = trunk.last
    <3>1. PICK calls \in Nat : calls = trunk.calls + 1
      BY <2>1 DEF TrunkType
    <3>2. trunk' = [trunk EXCEPT !.cmd = "connect", !.calls = calls]
      BY <1>2, <2>1, <3>1 DEF TrunkType
    <3>. QED  BY <2>1, <3>1, <3>2 DEF TrunkType, SameHandles, TrunkCommands
  <2>. QED  BY <2>1, <2>2, KeepsHandles
<1>9. Waits => Waits'
  BY <1>1, <1>2, <1>6, <1>7, <1>8 DEF Waits, NoCall, Idling, AtRest
<1>10. Arrives => Arrives'
  BY <1>1, <1>2, <1>6, <1>7, <1>8 DEF Arrives, NoCall, Idling, AtRest
<1>11. Gone => Gone'
  BY <1>1, <1>2, <1>6, <1>7, <1>8 DEF Gone, NoCall, Clearing, Reported, AtRest
<1>12. Kept'
  <2>1. MediaWell'
    BY <1>6, <1>7 DEF MediaWell
  <2>. QED  BY <1>1, <1>3, <1>5, <1>6, <1>8, <2>1, AddedKept
<1>13. PhaseOfCall = "free" /\ PhaseOfCall' = "dialing"
  BY <1>1, <1>6, <1>7 DEF PhaseOfCall
<1>14. TheCall!Dials
  BY <1>3, <1>6, <1>13 DEF TheCall!Dials, TheCall!Moves, Adds
<1>. QED
  BY <1>4, <1>9, <1>10, <1>11, <1>12, <1>14 DEF Proper, Stage, TheCall!CallNext

LEMMA OpenedOut ==
    ASSUME Kept, Stage, troubles = {}, troubles' = {}, OpensOut
    PROVE  Proper
<1>1. /\ iface = "connecting" /\ iface' = "none"
      /\ trunk' = [Opens(trunk, FreeHandle(trunk), "dialing") EXCEPT
                      !.shadow = trunk.handle, !.out = @ \cup {FreeHandle(trunk)}]
      /\ UNCHANGED <<seq, tx, worker>>
  BY DEF OpensOut
<1>2. StateOf(trunk) = "waiting"
  BY DEF OpensOut, Trouble, StateOf
<1>3. Waits /\ seq.connect # 0
  BY <1>1, <1>2 DEF Stage, Waits, Idling, Arrives, Dials, Talks, Stands, HungUp, Accepting,
                    AcceptEnds, Succeeded, Failed, Ends, Gone, Clearing, Reported,
                    AtRest, Left, Held
<1>4. /\ WellKept(trunk') /\ StateOf(trunk') = "dialing" /\ DueOf(trunk') = {}
      /\ IsOutgoing(trunk') /\ SameLabels(trunk', trunk)
  <2>1. WellKept(trunk) /\ ~IsOutgoing(trunk) /\ DueOf(trunk) = {}
    BY <1>3 DEF Waits, Kept
  <2>. QED  BY <1>1, <1>2, <2>1, OpensAnother
<1>5. Dials'
  BY <1>1, <1>3, <1>4 DEF Waits, Idling, NoCall, Dials, Dialing, SameLabels, AtRest
<1>6. worker' \in WorkerType /\ seq.callref = 0
  BY <1>1, <1>3 DEF Kept, Waits, NoCall
<1>. QED  BY <1>1, <1>4, <1>5, <1>6, OthersKept, SamePhase DEF Proper, Stage

----------------------------------------------------------------------------
(*                             The channels                                 *)

LEMMA BusySet ==
    ASSUME Kept, NEW busy \in BOOLEAN, seq' = [seq EXCEPT !.busy = busy],
           UNCHANGED <<tx, worker>>
    PROVE  /\ seq' \in SeqType /\ worker' \in WorkerType
           /\ seq'.callref = seq.callref /\ seq'.interface = seq.interface
           /\ seq'.connect = seq.connect /\ seq'.disconnecting = seq.disconnecting
           /\ seq'.sentRdis = seq.sentRdis /\ seq'.id = seq.id /\ seq'.spec = seq.spec
           /\ seq'.media = seq.media /\ seq'.busy = busy /\ seq'.named = seq.named
           /\ OpCmd' = OpCmd /\ OpAnswer' = OpAnswer
BY DEF Kept, SeqType, OpCmd, OpAnswer

LEMMA Played ==
    ASSUME Kept, Stage, troubles = {}, troubles' = {}, Plays
    PROVE  Proper
<1>1. /\ seq.named /\ seq.disconnecting = 0 /\ seq' = [seq EXCEPT !.busy = TRUE]
      /\ UNCHANGED <<trunk, tx, worker, iface, media>>
  BY DEF Plays
<1>2. /\ seq' \in SeqType /\ worker' \in WorkerType
      /\ seq'.callref = seq.callref /\ seq'.interface = seq.interface
      /\ seq'.connect = seq.connect /\ seq'.disconnecting = seq.disconnecting
      /\ seq'.sentRdis = seq.sentRdis /\ seq'.id = seq.id /\ seq'.spec = seq.spec
      /\ seq'.media = seq.media /\ seq'.busy /\ seq'.named = seq.named
      /\ OpCmd' = OpCmd /\ OpAnswer' = OpAnswer
  BY <1>1, BusySet
<1>3. SameButBusy /\ Held'
  BY <1>2 DEF SameButBusy, Held
<1>4. Stage'
  BY <1>1, <1>3, StaysInStage
<1>5. Kept'
  <2>1. WellKept(trunk)'
    BY <1>1 DEF Kept
  <2>. QED  BY <1>1, <1>2, <2>1, SeqKept
<1>6. PhaseOfCall' = PhaseOfCall
  BY <1>1, <1>2 DEF PhaseOfCall
<1>. QED  BY <1>1, <1>2, <1>4, <1>5, <1>6, Unseen DEF Proper

LEMMA FellSilent ==
    ASSUME Kept, Stage, troubles = {}, troubles' = {}, FallsSilent
    PROVE  Proper
<1>1. /\ seq.busy /\ seq' = [seq EXCEPT !.busy = FALSE] /\ media' = "looking"
      /\ UNCHANGED <<trunk, tx, worker, iface>>
  BY DEF FallsSilent
<1>2. /\ seq' \in SeqType /\ worker' \in WorkerType
      /\ seq'.callref = seq.callref /\ seq'.interface = seq.interface
      /\ seq'.connect = seq.connect /\ seq'.disconnecting = seq.disconnecting
      /\ seq'.sentRdis = seq.sentRdis /\ seq'.id = seq.id /\ seq'.spec = seq.spec
      /\ seq'.media = seq.media /\ ~seq'.busy /\ seq'.named = seq.named
      /\ OpCmd' = OpCmd /\ OpAnswer' = OpAnswer
  BY <1>1, BusySet
<1>3. SameButBusy /\ Held'
  BY <1>1, <1>2 DEF SameButBusy, Held
<1>4. Stage'
  BY <1>1, <1>3, StaysInStage
<1>5. Kept'
  <2>1. WellKept(trunk)'
    BY <1>1 DEF Kept
  <2>. QED  BY <1>1, <1>2, <2>1, SeqKept
<1>6. PhaseOfCall' = PhaseOfCall
  BY <1>1, <1>2 DEF PhaseOfCall
<1>. QED  BY <1>1, <1>2, <1>4, <1>5, <1>6, Unseen DEF Proper

(* What completed() asks changes nothing; while a DISC waits it goes on.    *)
LEMMA LookedAround ==
    ASSUME Kept, Stage, troubles = {}, troubles' = {}, Looks \/ Decides
    PROVE  Proper
<1>1. UNCHANGED <<trunk, seq, tx, worker, iface>>
  BY DEF Looks, Decides
<1>2. SameButBusy
  BY <1>1 DEF SameButBusy, OpCmd, OpAnswer
<1>3. seq.disconnecting # 0 => Held'
  BY <1>1 DEF Looks, Decides, Held
<1>4. Stage'
  BY <1>1, <1>2, <1>3, StaysInStage
<1>5. worker' \in WorkerType /\ WellKept(trunk)'
  BY <1>1 DEF Kept
<1>6. IsOutgoing(trunk)' = IsOutgoing(trunk)
  BY <1>1
<1>. QED  BY <1>1, <1>4, <1>5, <1>6, OthersKept, SamePhase DEF Proper

LEMMA MediaHungUp ==
    ASSUME Kept, Stage, troubles = {}, troubles' = {}, HangsUp
    PROVE  Proper
<1>1. /\ trunk' = TrunkDisconnect(trunk, seq.disconnecting)
      /\ UNCHANGED <<seq, tx, worker, iface>>
  BY DEF HangsUp
<1>2. seq.disconnecting # 0 /\ ~HangsUpLate(trunk, seq.disconnecting)
  BY DEF HangsUp, TroubleIf, Trouble
<1>3. Talks \/ Accepting \/ AcceptEnds \/ Ends
  BY <1>2 DEF Stage, Waits, Arrives, Dials, Gone, NoCall
<1>4. Dropped /\ seq.disconnecting = seq.callref /\ AtRest
  BY <1>2, <1>3 DEF Talks, Accepting, Answering, AcceptEnds, Ends, Dropped, Orphaned,
                    Rejected, Owned, Left, Succeeded, Failed, AtRest
<1>5. OpCmd' = OpCmd /\ OpAnswer' = OpAnswer /\ AtRest'
  BY <1>1, <1>4 DEF OpCmd, OpAnswer, AtRest
<1>6. trunk'.last = trunk.last => Dropped' /\ (Orphaned => Orphaned')
  BY <1>1, <1>4, <1>5 DEF Dropped, Orphaned, InHand
<1>7. WellKept(trunk)' /\ Stage' /\ IsOutgoing(trunk)' = IsOutgoing(trunk)
  <2>1. CASE trunk.callref = seq.callref
    <3>1. MayHangUp(trunk)
      BY <1>2, <1>4, <2>1 DEF HangsUpLate
    <3>2. Cleared
      BY <1>1, <1>4, <2>1, <3>1, HangsUpCall
    <3>3. Dropped' /\ (Orphaned => Orphaned') /\ ~Left /\ iface # "disconnecting"
      BY <1>2, <1>4, <1>6, <3>2 DEF Cleared, Left, AtRest
    <3>4. Ends'
      BY <1>1, <1>4, <1>5, <3>1, <3>2, <3>3, DroppedEnds
    <3>. QED  BY <3>2, <3>4 DEF Stage, Cleared
  <2>2. CASE trunk.callref # seq.callref
    <3>1. trunk' = trunk
      BY <1>1, <1>4, <2>2 DEF TrunkDisconnect
    <3>2. Ends
      BY <1>3, <1>4, <2>2 DEF Talks, Accepting, AcceptEnds, Dropped, Orphaned, InHand
    <3>3. Ends'
      BY <1>1, <1>5, <1>6, <3>1, <3>2 DEF Ends, Clearing, Reported, Rejected, InHand
    <3>. QED  BY <3>1, <3>3 DEF Stage, Kept
  <2>. QED  BY <2>1, <2>2
<1>8. Kept'
  <2>1. worker' \in WorkerType
    BY <1>1 DEF Kept
  <2>. QED  BY <1>1, <1>7, <2>1, OthersKept
<1>9. PhaseOfCall' = PhaseOfCall
  BY <1>1, <1>7 DEF PhaseOfCall, IsOutgoing
<1>. QED  BY <1>1, <1>7, <1>8, <1>9, Unseen DEF Proper


----------------------------------------------------------------------------
(*                           The specification                              *)

LEMMA LineStarts == Init => IInv /\ TheCall!CallInit
<1>. SUFFICES ASSUME Init PROVE IInv /\ TheCall!CallInit
  OBVIOUS
<1>1. PICK states : states = [h \in Handles |-> IF h = 1 THEN "waiting" ELSE "closed"]
  OBVIOUS
<1>2. /\ trunk.state = states /\ trunk.events = << >> /\ trunk.handle = 1
      /\ trunk.shadow = 0 /\ trunk.out = {} /\ trunk.cmd = "none"
      /\ trunk.callref = 0 /\ trunk.last = 0
  BY <1>1 DEF Init
<1>3. 1 \in Handles /\ states \in [Handles -> HandleStates]
  BY <1>1, LineAssumption DEF HandleStates
<1>4. trunk \in TrunkType
  <2>1. << >> \in Seq(Events) /\ {} \in SUBSET Handles /\ 0 \in Nat
    OBVIOUS
  <2>. QED  BY <1>1, <1>3, <2>1 DEF Init, TrunkType, TrunkCommands
<1>5. Orderly(trunk) /\ DueOf(trunk) = {}
  BY <1>2, NothingOrdered
<1>6. /\ StateOf(trunk) = "waiting" /\ ~IsOutgoing(trunk)
      /\ \A h \in Handles : trunk.state[h] # "closed" => h = 1
  BY <1>1, <1>2, <1>3 DEF StateOf, IsOutgoing
<1>7. HandlesWell(trunk)
  BY <1>2, <1>6 DEF HandlesWell
<1>8. seq \in SeqType /\ worker \in WorkerType /\ TxWell /\ MediaWell
  <2>1. seq \in SeqType /\ worker \in WorkerType
    BY DEF Init, SeqType, WorkerType, Waiting
  <2>2. tx = << >> /\ tx \in Seq(Transactions) /\ Len(tx) = 0 /\ DOMAIN tx = {}
    BY DEF Init
  <2>. QED  BY <2>1, <2>2 DEF Init, TxWell, MediaWell
<1>9. Waits
  BY <1>2, <1>5, <1>6 DEF Init, Waits, NoCall, Idling, Waiting, AtRest
<1>10. TheCall!CallInit
  BY DEF Init, TheCall!CallInit, PhaseOfCall
<1>. QED  BY <1>4, <1>5, <1>7, <1>8, <1>9, <1>10 DEF IInv, Kept, WellKept, Stage

(* Troubles are never forgotten.                                            *)
LEMMA TroublesStay == Next => troubles \subseteq troubles'
<1>1. Driver => troubles \subseteq troubles'
  BY DEF Driver, Rings, Answers, Proceeds, IsAnswered, Clears, FarEndHangsUp,
         GetsNoAnswer, IsLost, Calm, TroubleIf, Trouble
<1>2. TrunkThread => troubles \subseteq troubles'
  BY DEF TrunkThread, OnIdle, OnIncomingCallDetected, OnCallConnected,
         OnOutgoingProceeding, OnRemoteDisconnect, ReleasesAndListens, HangsUpRefused,
         ConnectRequest, OnIncomingServed, OnIncomingRejected, OnIncomingNoMedia,
         ConnectDone, AcceptDone, Accepted, DisconnectRequest, DisconnectDone,
         Calm, TroubleIf, Trouble
<1>3. Commands => troubles \subseteq troubles'
  BY DEF Commands, RefusesPending, ACPT, DISC, CONN, LostConnection, Calm, TroubleIf,
         Trouble
<1>4. InterfaceThread => troubles \subseteq troubles'
  BY DEF InterfaceThread, Accepts, AcceptFails, Disconnecting, Refused, Lies, Leaves,
         Drops, OpensOut, OpenOutFails, Calm, TroubleIf, Trouble
<1>5. Plays \/ MediaThread => troubles \subseteq troubles'
  BY DEF Plays, MediaThread, FallsSilent, Looks, Decides, HangsUp, Calm, TroubleIf,
         Trouble
<1>. QED  BY <1>1, <1>2, <1>3, <1>4, <1>5 DEF Next

(* Every step from a line that is in order is a proper one.                 *)
LEMMA StepIsProper ==
    ASSUME Kept, Stage, troubles = {}, troubles' = {}, Next
    PROVE  Proper
<1>1. CASE Driver
  BY <1>1, DriverReports
<1>2. CASE TrunkThread
  BY <1>2, IdleTaken, IncomingTaken, ConnectedTaken, ProceedingTaken, RemoteTaken,
     ListeningAgain, RefusedHungUp, ConnectRequested, IncomingServed, IncomingRejected,
     FailuresAreTroubles, ConnectionDone, AcceptanceDone, AcceptanceForgotten,
     DisconnectionRequested, DisconnectionDone
  DEF TrunkThread
<1>3. CASE Commands
  BY <1>3, PendingRefused, AcceptAsked, HangUpAsked, ConnectAsked, ConnectionLost
  DEF Commands
<1>4. CASE InterfaceThread
  <2>1. ~Refused /\ ~Lies
    BY NeverRefused DEF Refused, Lies
  <2>. QED
    BY <1>4, <2>1, AcceptCalled, HangUpCarriedOut, CallLeft, CallDropped, OpenedOut,
       FailuresAreTroubles
    DEF InterfaceThread
<1>5. CASE Plays \/ MediaThread
  BY <1>5, Played, FellSilent, LookedAround, MediaHungUp DEF MediaThread
<1>. QED  BY <1>1, <1>2, <1>3, <1>4, <1>5 DEF Next

LEMMA StepKeeps ==
    IInv /\ [Next]_vars => IInv' /\ [TheCall!CallNext]_(TheCall!callVars)
<1>. SUFFICES ASSUME IInv, [Next]_vars
              PROVE  IInv' /\ [TheCall!CallNext]_(TheCall!callVars)
  OBVIOUS
<1>1. CASE UNCHANGED vars
  <2>1. UNCHANGED <<trunk, seq, tx, worker, iface, media, troubles>>
    BY <1>1 DEF vars
  <2>2. PhaseOfCall' = PhaseOfCall
    BY <2>1 DEF PhaseOfCall
  <2>3. UNCHANGED TheCall!callVars
    BY <2>1, <2>2 DEF TheCall!callVars
  <2>4. IInv'
    <3>1. SUFFICES ASSUME troubles' = {} PROVE Kept' /\ Stage'
      BY DEF IInv
    <3>2. Kept /\ Stage
      BY <2>1, <3>1 DEF IInv
    <3>3. OpCmd' = OpCmd /\ OpAnswer' = OpAnswer
      BY <2>1 DEF OpCmd, OpAnswer
    <3>4. Kept'
      BY <2>1, <3>2, OthersKept DEF Kept
    <3>. QED  BY <2>1, <3>2, <3>3, <3>4, StageUntouched
  <2>. QED  BY <2>3, <2>4
<1>2. CASE Next
  <2>1. troubles \subseteq troubles'
    BY <1>2, TroublesStay
  <2>2. CASE troubles' = {}
    <3>1. troubles = {}
      BY <2>1, <2>2
    <3>2. Proper
      BY <1>2, <2>2, <3>1, StepIsProper DEF IInv
    <3>. QED  BY <3>2 DEF Proper, IInv
  <2>3. CASE troubles' # {}
    <3>1. PhaseOfCall' = "out of order"
      BY <2>3 DEF PhaseOfCall
    <3>. QED  BY <2>3, <3>1 DEF IInv, TheCall!CallNext, TheCall!GoesOutOfOrder
  <2>. QED  BY <2>2, <2>3
<1>. QED  BY <1>1, <1>2

(* A line that is quiet waits for the next call or has one in hand.         *)
LEMMA OrderServes == IInv => InService
<1>. SUFFICES ASSUME IInv, troubles = {} PROVE
        /\ Quiet => /\ (Listening /\ MediaReturned) \/ (HasCall /\ IsUsable)
                    /\ \A i \in DOMAIN tx : tx[i].answer # "none"
        /\ worker.ok /\ worker.pc \in {"accepted", "connectDone"} => seq.media
  BY DEF InService
<1>1. Kept /\ Stage
  BY DEF IInv
<1>2. ASSUME worker.ok, worker.pc \in {"accepted", "connectDone"}
      PROVE  seq.media
  BY <1>1, <1>2
  DEF Stage, Waits, Arrives, Dials, Talks, Stands, HungUp, Accepting, AcceptEnds,
      Untold, Ends, Gone, AtRest, Left, Held
<1>3. ASSUME Quiet
      PROVE  /\ (Listening /\ MediaReturned) \/ (HasCall /\ IsUsable)
             /\ \A i \in DOMAIN tx : tx[i].answer # "none"
  <2>1. /\ worker.pc = "none" /\ worker.then = "none" /\ iface = "none" /\ ~Held
        /\ DueOf(trunk) = {}
        /\ StateOf(trunk) \notin {"accepting", "dialing", "proceeding", "clearing", "idle"}
    <3>1. trunk.handle \in Handles
      BY <1>1 DEF Kept, WellKept, TrunkType
    <3>. QED  BY <1>3, <3>1, NothingOrdered DEF Quiet, Waiting, StateOf, Held
  <2>2. Waits \/ Talks
    BY <1>1, <2>1
    DEF Stage, Arrives, Dials, Dialing, Dialed, Accepting, Stands, HungUp, AcceptEnds,
        Ends, Gone, Clearing, Reported, AtRest, Left, Held
  <2>3. CASE Waits
    <3>1. seq.callref = 0 /\ seq.id = 0 /\ seq.connect = 0
      BY <2>1, <2>3 DEF Waits, NoCall, Idling, AtRest
    <3>2. Listening
      BY <2>3, <3>1 DEF Waits, Idling, Listening, StateOf, AtRest
    <3>3. MediaReturned
      BY <1>1, <3>1 DEF Kept, MediaWell, ConnFailed, MediaReturned
    <3>. QED  BY <1>1, <3>1, <3>2, <3>3 DEF Kept, TxWell
  <2>4. CASE Talks
    <3>1. Owned /\ seq.id = 0
      BY <2>1, <2>4 DEF Talks, AtRest, Left, Held
    <3>2. HasCall
      BY <2>1, <2>4, <3>1, MayHangUpIs
        DEF Talks, Owned, InHand, Stands, HungUp, HasCall, AtRest, Left, Held
    <3>3. IsUsable
      BY <2>1, <2>4, <3>1
      DEF Talks, Owned, InHand, Stands, HungUp, Untold, IsUsable, StateOf, AtRest,
          Left, Held
    <3>4. \A i \in DOMAIN tx : tx[i].answer # "none"
      BY <1>1, <3>1 DEF Owned, InHand, Kept, TxWell
    <3>. QED  BY <3>2, <3>3, <3>4
  <2>. QED  BY <2>2, <2>3, <2>4
<1>. QED  BY <1>2, <1>3

(* While there was no trouble the line is in a stage of a call and its      *)
(* handles, events and commands are in order: the driver's events are those *)
(* of the handle in hand, in the order of a call (AculabTrunk, Sequencer).  *)
THEOREM Orderliness == Spec => []IInv
<1>1. Init => IInv
  BY LineStarts
<1>2. IInv /\ [Next]_vars => IInv'
  BY StepKeeps
<1>. QED  BY <1>1, <1>2, PTL DEF Spec

(* However the trunk, interface and media threads interleave, without one   *)
(* of the listed troubles a line that is quiet waits for the next call or   *)
(* has one that its client can use and end, with every command answered,    *)
(* and the trunk thread never connects a media channel that is not there.   *)
THEOREM StaysInService == Spec => []InService
<1>1. IInv => InService
  BY OrderServes
<1>. QED  BY <1>1, Orderliness, PTL

(* The trunk, its sequencer and the driver implement the call that the      *)
(* client was promised: offered or dialed, perhaps up, ended, each command  *)
(* answered once by what it achieved and RDIS sent once, at most.           *)
THEOREM Implementation == Spec => ImplementsCall
<1>1. Init => TheCall!CallInit
  BY LineStarts
<1>2. IInv /\ [Next]_vars => [TheCall!CallNext]_(TheCall!callVars)
  BY StepKeeps
<1>. QED
  BY <1>1, <1>2, Orderliness, PTL DEF Spec, ImplementsCall, TheCall!CallSpec
=============================================================================
