------------------------------ MODULE Conferences ------------------------------
(****************************************************************************)
(* Conferences (sequencer/conference.cpp) and the calls that join and leave *)
(* them through ConferenceAtom (activ.cpp), each on its own thread.         *)
(*                                                                          *)
(* A conference knows its parties; what a party hears is the low-level      *)
(* conference of its own channel in the board.  An action is a critical     *)
(* section of Conferences::m_mutex or of Conference::m_mutex, or the        *)
(* deletion of a conference, outside of both.                               *)
(*                                                                          *)
(* The board copies a low-level conference only from a channel that has     *)
(* one, identifies a party by one number in all of them, and ignores the    *)
(* departure of a party that is not in one.                                 *)
(****************************************************************************)
EXTENDS Integers, FiniteSets

CONSTANTS Handles,   \* conferences, named by the handle that create() returns
          NoHandle,  \* no conference
          Parties,   \* addresses of the channels, the order of m_parties
          Modes,     \* the modes in which they join
          MaxParty   \* CONF_MAX_PARTY

AllModes == {"listen", "speak", "duplex"}

ASSUME HandlesAssumption == NoHandle \notin Handles
ASSUME PartiesAssumption == Parties \subseteq Nat /\ IsFiniteSet(Parties)
ASSUME ModesAssumption == Modes \subseteq AllModes

VARIABLES conf,    \* the Conference objects
          hears,   \* the channels in the low-level conference of a channel
          low,     \* the channels that have a low-level conference
          call,    \* where the thread of each party is
          closer,  \* the conference that close() is closing
          fault    \* a deleted conference was used

vars == <<conf, hears, low, call, closer, fault>>

Listens(m) == m \in {"listen", "duplex"}
Speaks(m) == m \in {"speak", "duplex"}

ConferenceType ==
    [mapped : BOOLEAN, created : BOOLEAN, closed : BOOLEAN, deleted : BOOLEAN,
     parties : SUBSET Parties, speakers : Nat, listeners : Nat]

CallType ==
    [pc : {"out", "found", "in", "deleting"}, conf : Handles \cup {NoHandle},
     mode : AllModes]

TypeOK ==
    /\ conf \in [Handles -> ConferenceType]
    /\ hears \in [Parties -> SUBSET Parties]
    /\ low \subseteq Parties
    /\ call \in [Parties -> CallType]
    /\ closer \in Handles \cup {NoHandle}
    /\ fault \in BOOLEAN

Out == [pc |-> "out", conf |-> NoHandle, mode |-> "duplex"]

Init ==
    /\ conf = [h \in Handles |->
                  [mapped |-> FALSE, created |-> FALSE, closed |-> FALSE,
                   deleted |-> FALSE, parties |-> {}, speakers |-> 0,
                   listeners |-> 0]]
    /\ hears = [p \in Parties |-> {}]
    /\ low = {}
    /\ call = [p \in Parties |-> Out]
    /\ closer = NoHandle
    /\ fault = FALSE

----------------------------------------------------------------------------
(*                     Conferences, on the interface thread                 *)

(* Conferences::create.  The handle is one that is not in the map; that     *)
(* handles are used again after 2^32 conferences is left out.               *)
Create(h) ==
    /\ ~conf[h].created
    /\ conf' = [conf EXCEPT ![h].created = TRUE, ![h].mapped = TRUE]
    /\ UNCHANGED <<hears, low, call, closer, fault>>

\* Variant: the handle stays in the map
CloseKeepsHandle(h) ==
    /\ closer = NoHandle
    /\ conf[h].mapped
    /\ closer' = h
    /\ UNCHANGED <<conf, hears, low, call, fault>>

(* Conferences::close removes the handle, ...                               *)
Close(h) ==
    /\ closer = NoHandle
    /\ conf[h].mapped
    /\ conf' = [conf EXCEPT ![h].mapped = FALSE]
    /\ closer' = h
    /\ UNCHANGED <<hears, low, call, fault>>

(* ... and then marks the conference; one without parties is never deleted. *)
CloseMarks ==
    /\ closer # NoHandle
    /\ conf' = [conf EXCEPT ![closer].closed = TRUE]
    /\ closer' = NoHandle
    /\ fault' = conf[closer].deleted
    /\ UNCHANGED <<hears, low, call>>

----------------------------------------------------------------------------
(*                        ConferenceAtom::start                             *)

SpeakersIn(c) == {q \in c.parties : Speaks(call[q].mode)}
ListenersIn(c) == {q \in c.parties : Listens(call[q].mode)}

(* Conferences::operator[]: the pointer outlives the lock.                  *)
Find(p, h, m) ==
    /\ call[p].pc = "out"
    /\ conf[h].mapped
    /\ call' = [call EXCEPT ![p] = [pc |-> "found", conf |-> h, mode |-> m]]
    /\ UNCHANGED <<conf, hears, low, closer, fault>>

(* What a new party hears: the first listener starts a low-level conference *)
(* with all speakers, the others copy that of the first party and add that  *)
(* party to it.                                                             *)
JoinsHearing(p, c, first) ==
    IF ~Listens(call[p].mode) THEN hears[p]
    ELSE IF c.listeners > 0 THEN hears[first] \cup {first} ELSE SpeakersIn(c)

(* add() throws if the conference is full, or if the board cannot copy from *)
(* the first party because that one only speaks.                            *)
AddFails(p, c, first) ==
    \/ Cardinality(c.parties) >= MaxParty
    \/ Listens(call[p].mode) /\ c.listeners > 0 /\ first \notin low

IsFirst(p, S) == p \in S /\ \A q \in S : p <= q

\* Variant: only counts a party that listens
CountsListener(c, p) ==
    [c EXCEPT !.parties = @ \cup {p},
              !.speakers = @ + (IF call[p].mode = "speak" THEN 1 ELSE 0),
              !.listeners = @ + (IF Listens(call[p].mode) THEN 1 ELSE 0)]

WithParty(c, p) ==
    [c EXCEPT !.parties = @ \cup {p},
              !.speakers = @ + (IF Speaks(call[p].mode) THEN 1 ELSE 0),
              !.listeners = @ + (IF Listens(call[p].mode) THEN 1 ELSE 0)]

(* Conference::add; every party that listens hears the new one if it        *)
(* speaks.                                                                  *)
Add(p) ==
    /\ call[p].pc = "found"
    /\ LET h == call[p].conf
           c == conf[h]
       IN /\ fault' = c.deleted
          /\ \E first \in Parties :
                /\ c.parties # {} => IsFirst(first, c.parties)
                /\ IF AddFails(p, c, first)
                   THEN /\ call' = [call EXCEPT ![p] = Out]
                        /\ UNCHANGED <<conf, hears, low>>
                   ELSE /\ conf' = [conf EXCEPT ![h] = WithParty(c, p)]
                        /\ hears' = [q \in Parties |->
                              IF q = p THEN JoinsHearing(p, c, first)
                              ELSE IF q \in ListenersIn(c) /\ Speaks(call[p].mode)
                                   THEN hears[q] \cup {p} ELSE hears[q]]
                        /\ low' = IF Listens(call[p].mode)
                                  THEN low \cup {p} ELSE low
                        /\ call' = [call EXCEPT ![p].pc = "in"]
    /\ UNCHANGED closer

----------------------------------------------------------------------------
(*                        ConferenceAtom::stop                              *)

WithoutParty(c, p) ==
    [c EXCEPT !.parties = @ \ {p},
              !.speakers = @ - (IF Speaks(call[p].mode) THEN 1 ELSE 0),
              !.listeners = @ - (IF Listens(call[p].mode) THEN 1 ELSE 0)]

\* Variant: forgets to take the party out of what the others hear
RemoveAbortsOnly(p) ==
    /\ call[p].pc = "in"
    /\ LET h == call[p].conf
           c == conf[h]
       IN /\ fault' = c.deleted
          /\ conf' = [conf EXCEPT ![h] = WithoutParty(c, p)]
          /\ hears' = [hears EXCEPT ![p] = {}]
          /\ low' = low \ {p}
          /\ call' = [call EXCEPT ![p] =
                IF c.closed /\ c.parties = {p}
                THEN [@ EXCEPT !.pc = "deleting"] ELSE Out]
    /\ UNCHANGED closer

(* Conference::remove up to the end of its critical section: a party that   *)
(* speaks leaves every low-level conference, one that listens aborts its    *)
(* own.                                                                     *)
Remove(p) ==
    /\ call[p].pc = "in"
    /\ LET h == call[p].conf
           c == conf[h]
       IN /\ fault' = c.deleted
          /\ conf' = [conf EXCEPT ![h] = WithoutParty(c, p)]
          /\ hears' = [q \in Parties |->
                IF q = p /\ Listens(call[p].mode) THEN {}
                ELSE IF q \in ListenersIn(c) /\ Speaks(call[p].mode)
                     THEN hears[q] \ {p} ELSE hears[q]]
          /\ low' = IF Listens(call[p].mode) THEN low \ {p} ELSE low
          /\ call' = [call EXCEPT ![p] =
                IF c.closed /\ c.parties = {p}
                THEN [@ EXCEPT !.pc = "deleting"] ELSE Out]
    /\ UNCHANGED closer

(* The last party of a closed conference deletes it, after it has released  *)
(* the lock.                                                                *)
Delete(p) ==
    /\ call[p].pc = "deleting"
    /\ fault' = conf[call[p].conf].deleted
    /\ conf' = [conf EXCEPT ![call[p].conf].deleted = TRUE]
    /\ call' = [call EXCEPT ![p] = Out]
    /\ UNCHANGED <<hears, low, closer>>

(* Nothing is said of what follows the use of a deleted conference.         *)
Next ==
    /\ ~fault
    /\ \/ \E h \in Handles : Create(h) \/ Close(h)
       \/ CloseMarks
       \/ \E p \in Parties :
             \/ \E h \in Handles, m \in Modes : Find(p, h, m)
             \/ Add(p)
             \/ Remove(p)
             \/ Delete(p)

Spec == Init /\ [][Next]_vars

----------------------------------------------------------------------------
(* A party that listens hears exactly the others that speak, whichever of   *)
(* them came and left in whatever order, and whether its low-level          *)
(* conference was started or copied.                                        *)
HearsSpeakers ==
    \A h \in Handles : \A p \in ListenersIn(conf[h]) :
        hears[p] = SpeakersIn(conf[h]) \ {p}

(* m_speakers and m_listeners, which decide whether a low-level conference  *)
(* is started or copied, agree with the parties.                            *)
CountsAgree ==
    \A h \in Handles :
        /\ conf[h].speakers = Cardinality(SpeakersIn(conf[h]))
        /\ conf[h].listeners = Cardinality(ListenersIn(conf[h]))

(* A handle never leads to a deleted conference: close() marks it for       *)
(* deletion only when the handle is gone.                                   *)
NoDanglingHandle == \A h \in Handles : conf[h].mapped => ~conf[h].deleted

(* The counters of a conference are never below zero, and no handle leads   *)
(* to a conference that its last party has deleted.                         *)
Sound == TypeOK /\ NoDanglingHandle
=============================================================================
