------------------------------- MODULE Sequencer -------------------------------
(****************************************************************************)
(* One Sequencer object (sequencer/sequence.cpp) and the threads that call  *)
(* it: the interface thread with the client's commands, the media           *)
(* dispatcher thread with the ends of samples and touchtones, the timer     *)
(* thread with the ends of silences and the trunk thread with call events.  *)
(*                                                                          *)
(* An action is a critical section of Sequencer::m_mutex with everything it *)
(* calls (module Playlist), or what a thread does without the lock between  *)
(* two looks at what others may change: the end of completed() and all of   *)
(* MLCD() are such steps.                                                   *)
(****************************************************************************)
EXTENDS Playlist

CONSTANTS Offers,   \* what a client may ask for: channel, priority, mode, atoms
          MaxAtoms, \* the most atoms that an offer has
          Stimuli   \* the commands and events that may arrive besides MLCA

AllStimuli == {"MLCD", "MLDP", "DISC", "BGRC", "CNFC", "lost_connection",
               "touchtone", "disconnectRequest", "onIncoming"}

ASSUME MaxAtomsAssumption == MaxAtoms \in Nat

\* MLCA drops empty molecules
ASSUME OffersAssumption ==
    /\ Offers \subseteq [channel : Channels, priority : Nat,
                         mode : SUBSET Flags, atoms : Seq(Kinds)]
    /\ \A o \in Offers : Len(o.atoms) \in 1..MaxAtoms

ASSUME StimuliAssumption == Stimuli \subseteq AllStimuli

Threads == {"client", "media", "timer"}

VARIABLES seq,       \* the Sequencer object
          client,    \* the interface thread: where it is in a command
          thread,    \* where each thread is in completed() and what calls it
          sweep,     \* the MLDP in progress: molecules it has still to visit
          overtaken  \* history: MLCA added to channels seen idle by a thread
                     \* that had yet to see whether to hang up

vars == <<seq, client, thread, sweep, overtaken>>

(* A thread is in completed(), at one of the first six places for molecule, *)
(* or has returned to a caller of completed().  rest is its call stack:     *)
(* where it goes on when it returns.  own and atom are what it came for:    *)
(* the silence of on_timer(), the molecule that MLCD has found.             *)
Places == {"idle", "locking", "answering", "looking", "deciding", "hanging",
           "closing", "leaving", "checking", "forgetting", "testing",
           "setting", "stopping", "removing", "replying"}

\* What completed() returns to
Callers == {"leaving", "checking", "forgetting", "replying"}

Idle == [pc |-> "idle", molecule |-> NoId, status |-> "ok", answer |-> FALSE,
         own |-> NoId, atom |-> 0, rest |-> << >>]

NoRequest == [pc |-> "idle", request |-> UnusedMolecule(NoId)]

NoSweep == [todo |-> << >>, from |-> 0, to |-> 0, immediately |-> FALSE]

ThreadType ==
    [pc : Places, molecule : Ids \cup {NoId}, status : Statuses,
     answer : BOOLEAN, own : Ids \cup {NoId}, atom : Nat, rest : Seq(Callers)]

ClientType ==
    [pc : {"idle", "adding", "losing", "disconnecting", "closing"},
     request : MoleculeType(Ids, NoId)]

TypeOK ==
    /\ seq \in SequencerType
    /\ client \in ClientType
    /\ thread \in [Threads -> ThreadType]
    /\ sweep \in [todo : Seq(Ids), from : Nat, to : Nat, immediately : BOOLEAN]
    /\ overtaken \in BOOLEAN

Init ==
    /\ seq = [list |-> [c \in Channels |-> << >>],
              state |-> [c \in Channels |-> "idle"],
              molecule |-> [i \in Ids |-> UnusedMolecule(NoId)],
              completions |-> << >>,
              answers |-> [i \in Ids |-> 0],
              inCompleted |-> 0,
              media |-> TRUE,
              interface |-> TRUE,
              callref |-> HasTrunk,
              disconnecting |-> FALSE,
              sentRdis |-> FALSE,
              closing |-> FALSE,
              deleted |-> FALSE,
              hangups |-> 0,
              conference |-> TRUE,
              fault |-> FALSE]
    /\ client = NoRequest
    /\ thread = [t \in Threads |-> Idle]
    /\ sweep = NoSweep
    /\ overtaken = FALSE

----------------------------------------------------------------------------
(* Nothing new reaches a deleted sequencer, and nothing is said of what the *)
(* program does once it has used a freed object.                            *)
Alive == ~seq.fault /\ ~seq.deleted

(* Nobody else holds m_mutex: MLDP keeps it from one molecule to the next.  *)
LockFree == ~seq.fault /\ sweep.todo = << >>

(* A thread that is inside of the sequencer already carries on, even if the *)
(* sequencer was deleted meanwhile.                                         *)
CarriesOn(next) == IF seq.deleted THEN Fault(seq) ELSE next

HasOutput(r) == r.cur \in DOMAIN r.atoms /\ IsOutput(CurrentKind(r))

(* The atoms that setPos() may land on                                      *)
Landings ==
    {f \in [Ids -> 0..MaxAtoms] :
        \A i \in Ids :
            f[i] <= IF IsQueued(seq, i) /\ Repositions(seq.molecule[i])
                    THEN Len(seq.molecule[i].atoms) ELSE 0}

----------------------------------------------------------------------------
(*                  completed(), called without the lock                    *)

Sets(t, place) == thread' = [thread EXCEPT ![t] = place]

(* Back to the caller, if there is one in the sequencer                     *)
Returned(t) ==
    LET r == thread[t]
    IN IF r.rest = << >> THEN Idle
       ELSE [r EXCEPT !.pc = Head(r.rest), !.rest = Tail(r.rest),
                      !.molecule = NoId, !.status = "ok", !.answer = FALSE]

(* Sequencer::completed(Sample) counts the thread in.  While another one is *)
(* inside, the completion is put off.                                       *)
Enters(s, m, status) ==
    LET inside == [s EXCEPT !.inCompleted = @ + 1]
    IN IF s.inCompleted > 0 THEN AddCompleted(inside, m, status) ELSE inside

Entered(t, m, status, rest) ==
    IF seq.inCompleted > 0
    THEN [thread[t] EXCEPT !.pc = "leaving", !.rest = rest]
    ELSE [thread[t] EXCEPT !.pc = "locking", !.rest = <<"leaving">> \o rest,
                           !.molecule = m, !.status = status]

(* The critical section of completed()                                      *)
Completes(t, landed) ==
    LET r == thread[t]
    IN /\ LockFree
       /\ r.pc = "locking"
       /\ seq' = CarriesOn(CompletedLocked(seq, r.molecule, r.status, landed))
       /\ Sets(t, [r EXCEPT !.pc = "answering", !.status = "ok",
                            !.answer = Answers(seq, r.molecule, r.status)])
       /\ UNCHANGED <<client, sweep, overtaken>>

(* Then, without the lock: the answer, and channelsIdle() looks at the      *)
(* first channel ...                                                        *)
AnswersMLCA(t) ==
    LET r == thread[t]
    IN /\ ~seq.fault
       /\ r.pc = "answering"
       /\ seq' = CarriesOn(IF r.answer THEN SendMLCA(seq, r.molecule) ELSE seq)
       /\ Sets(t, IF seq.state[0] # "idle" THEN Returned(t)
                  ELSE [r EXCEPT !.pc = "looking", !.molecule = NoId,
                                 !.answer = FALSE])
       /\ UNCHANGED <<client, sweep, overtaken>>

(* ... and at the second.  completed() returns if one of them was not idle. *)
Looks(t) ==
    /\ ~seq.fault
    /\ thread[t].pc = "looking"
    /\ seq' = CarriesOn(seq)
    /\ Sets(t, IF seq.state[1] # "idle" THEN Returned(t)
               ELSE [thread[t] EXCEPT
                       !.pc = IF HasTrunk THEN "deciding" ELSE "closing"])
    /\ UNCHANGED <<client, sweep, overtaken>>

\* Variant: a DISC that waited for the channels is forgotten
DecidesNot(t) ==
    /\ ~seq.fault
    /\ thread[t].pc = "deciding"
    /\ seq' = CarriesOn(seq)
    /\ Sets(t, [thread[t] EXCEPT !.pc = "closing"])
    /\ UNCHANGED <<client, sweep, overtaken>>

(* Does a DISC wait for the channels to become idle?                        *)
Decides(t) ==
    /\ ~seq.fault
    /\ thread[t].pc = "deciding"
    /\ seq' = CarriesOn(seq)
    /\ Sets(t, [thread[t] EXCEPT
                   !.pc = IF seq.disconnecting THEN "hanging" ELSE "closing"])
    /\ UNCHANGED <<client, sweep, overtaken>>

(* Trunk::disconnect(m_disconnecting), which the trunk refuses if release() *)
(* has reset it meanwhile                                                   *)
HangsUp(t) ==
    /\ ~seq.fault
    /\ thread[t].pc = "hanging"
    /\ seq' = CarriesOn(IF seq.disconnecting THEN Hangup(seq) ELSE seq)
    /\ Sets(t, [thread[t] EXCEPT !.pc = "closing"])
    /\ UNCHANGED <<client, sweep, overtaken>>

(* A BGRC that waited is answered, and the object deletes itself.           *)
ClosesAtLast(t) ==
    /\ IF seq.closing THEN LockFree ELSE ~seq.fault
    /\ thread[t].pc = "closing"
    /\ seq' = CarriesOn(IF seq.closing
                        THEN [Release(seq) EXCEPT !.deleted = TRUE] ELSE seq)
    /\ Sets(t, Returned(t))
    /\ UNCHANGED <<client, sweep, overtaken>>

(* Back in completed(Sample): the last one to leave ...                     *)
Leaves(t) ==
    /\ ~seq.fault
    /\ thread[t].pc = "leaving"
    /\ seq' = CarriesOn([seq EXCEPT !.inCompleted = @ - 1])
    /\ Sets(t, IF seq.inCompleted = 1 THEN [thread[t] EXCEPT !.pc = "checking"]
               ELSE Returned(t))
    /\ UNCHANGED <<client, sweep, overtaken>>

(* ... calls checkCompleted(), which takes one completion that was put off. *)
Checks(t) ==
    /\ ~seq.fault
    /\ thread[t].pc = "checking"
    /\ IF seq.completions = << >>
       THEN /\ seq' = CarriesOn(seq)
            /\ Sets(t, Returned(t))
       ELSE /\ seq' = CarriesOn([seq EXCEPT !.completions = Tail(@)])
            /\ Sets(t, [thread[t] EXCEPT
                          !.pc = "locking",
                          !.molecule = Head(seq.completions).molecule,
                          !.status = Head(seq.completions).status])
    /\ UNCHANGED <<client, sweep, overtaken>>

(* What every thread does that is inside of completed()                     *)
Inside(t) ==
    \/ \E landed \in Landings : Completes(t, landed)
    \/ AnswersMLCA(t)
    \/ Looks(t)
    \/ Decides(t)
    \/ HangsUp(t)
    \/ ClosesAtLast(t)
    \/ Leaves(t)
    \/ Checks(t)

----------------------------------------------------------------------------
(*                        The interface thread                              *)

(* One thread serves all clients, one command after the other.              *)
ClientReady ==
    /\ Alive
    /\ client.pc = "idle" /\ thread["client"].pc = "idle"
    /\ sweep.todo = << >>

(* Sequencer::MLCA: a request is refused while the line is disconnecting.   *)
Refuses(s) == s.closing \/ s.disconnecting \/ s.sentRdis \/ ~s.media

(* MLCA looks at that without the lock, ...                                 *)
MLCA(m, o) ==
    /\ ClientReady
    /\ seq.interface
    /\ seq.molecule[m].phase = "new"
    /\ LET r == NewMolecule(o.channel, o.priority, o.mode, o.atoms, NoId)
           refused == SetMolecule(seq, m, [r EXCEPT !.phase = "gone"])
       IN IF Refuses(seq)
          THEN /\ seq' = SendMLCA(refused, m)
               /\ UNCHANGED client
          ELSE /\ client' = [NoRequest EXCEPT !.pc = "adding", !.request = r]
               /\ UNCHANGED seq
    /\ UNCHANGED <<thread, sweep, overtaken>>

(* ... reads the atoms, one of which may not exist, ...                     *)
MLCAFails(m) ==
    /\ ~seq.fault
    /\ client.pc = "adding"
    /\ seq.molecule[m].phase = "new"
    /\ seq' = CarriesOn(SendMLCA(
                 SetMolecule(seq, m, [client.request EXCEPT !.phase = "gone"]), m))
    /\ client' = NoRequest
    /\ UNCHANGED <<thread, sweep, overtaken>>

(* The channels of a thread that sees or has seen them idle may be so no    *)
(* more when it acts on that.                                               *)
Overtakes ==
    \E t \in Threads : thread[t].pc \in {"looking", "deciding", "hanging"}

(* ... and takes the lock to add the molecule.  All it looks at again is    *)
(* the media; without any it drops the molecule, and the client hears       *)
(* nothing.                                                                 *)
MLCAAdds(m, landed) ==
    /\ LockFree
    /\ client.pc = "adding"
    /\ seq.molecule[m].phase = "new"
    /\ LET r == client.request
       IN seq' = CarriesOn(
                    IF seq.media
                    THEN CheckCompleted(ActivityAdd(seq, m, r, landed), landed)
                    ELSE SetMolecule(seq, m, [r EXCEPT !.phase = "gone"]))
    /\ client' = NoRequest
    /\ overtaken' = (overtaken \/ Overtakes)
    /\ UNCHANGED <<thread, sweep>>

(* Sequencer::MLCD never takes the lock: it finds the molecule ...          *)
MLCD(m) ==
    /\ ClientReady
    /\ seq.interface
    /\ InList(seq, m)
    /\ Sets("client", [Idle EXCEPT !.pc = "testing", !.own = m])
    /\ UNCHANGED <<seq, client, sweep, overtaken>>

(* ... and goes on with it, as long as it has not been deleted.             *)
Discards(place) ==
    /\ ~seq.fault
    /\ thread["client"].pc = place
    /\ UNCHANGED <<client, sweep, overtaken>>

Found == thread["client"].own

Holds(m) == ~seq.deleted /\ seq.molecule[m].phase \in {"queued", "detached"}

GoesTo(place) == Sets("client", [thread["client"] EXCEPT !.pc = place])

(* If the molecule is active ...                                            *)
MLCDTests ==
    /\ Discards("testing")
    /\ seq' = IF Holds(Found) THEN seq ELSE Fault(seq)
    /\ GoesTo(IF seq.molecule[Found].active THEN "setting" ELSE "removing")

(* ... it gets the mode discard, which also clears dont_interrupt, ...      *)
MLCDSets ==
    /\ Discards("setting")
    /\ seq' = IF Holds(Found)
              THEN SetMolecule(seq, Found,
                       [seq.molecule[Found] EXCEPT !.mode = {"discard"}])
              ELSE Fault(seq)
    /\ GoesTo("stopping")

\* No handler that stops a molecule without the lock repositions it.
NoLanding == [i \in Ids |-> 0]

(* Molecule::stop, called without the lock.  A touchtone that plays calls   *)
(* completed(Sample) before it returns.                                     *)
Stops(m, next) ==
    LET r == seq.molecule[m]
        tone == /\ Interruptible(r, "stopped")
                /\ HasOutput(r) /\ CurrentKind(r) = "dtmf"
                /\ r.sample = "active"
        stopped == SetMolecule(seq, m, [r EXCEPT
                      !.stopped = TRUE, !.status = "stopped",
                      !.sample = "stopping", !.sstatus = "stopped"])
    IN IF ~Holds(m) THEN seq' = Fault(seq) /\ GoesTo(next)
       ELSE IF tone
       THEN /\ seq' = Enters(stopped, m, "stopped")
            /\ Sets("client", Entered("client", m, "stopped", <<next>>))
       ELSE seq' = MoleculeStop(seq, m, "stopped", NoLanding) /\ GoesTo(next)

(* ... is stopped, which leaves the answer to its completion, ...           *)
MLCDStops ==
    /\ Discards("stopping")
    /\ Stops(Found, "checking")


(* ... or else it is removed, unless it plays by now, ...                   *)
MLCDRemoves ==
    /\ Discards("removing")
    /\ IF Holds(Found) /\ ~seq.molecule[Found].active
       THEN seq' = Delete(seq, Found) /\ GoesTo("replying")
       ELSE Stops(Found, "replying")

(* ... and said to be removed either way.                                   *)
MLCDReplies ==
    /\ Discards("replying")
    /\ seq' = CarriesOn(SendReply(seq, Found))
    /\ Sets("client", Idle)

(* Sequencer::MLDP takes the lock and visits the molecules of one channel   *)
(* or of both in the order of their lists.                                  *)
MLDP(channels, from, to, immediately) ==
    /\ ClientReady
    /\ seq.interface
    /\ \E c \in channels : seq.list[c] # << >>
    /\ sweep' = [todo |-> (IF 0 \in channels THEN seq.list[0] ELSE << >>)
                             \o (IF 1 \in channels THEN seq.list[1] ELSE << >>),
                 from |-> from, to |-> to, immediately |-> immediately]
    /\ UNCHANGED <<seq, client, thread, overtaken>>

(* Setting the mode to discard before stopping also clears dont_interrupt   *)
DiscardActive(s, m, landed) ==
    LET discarded == SetMolecule(s, m, [s.molecule[m] EXCEPT !.mode = {"discard"}])
    IN CheckCompleted(MoleculeStop(discarded, m, "stopped", landed), landed)

(* One turn of its loop.  The iterator has fetched the next molecule before *)
(* this one is handled: it faults if that one is deleted meanwhile.         *)
MLDPVisit(landed) ==
    /\ Alive
    /\ sweep.todo # << >>
    /\ LET m == Head(sweep.todo)
           r == seq.molecule[m]
       IN seq' = StillThere(
                    IF r.phase \notin {"queued", "detached"} THEN Fault(seq)
                    ELSE IF r.priority \notin sweep.from..sweep.to THEN seq
                    ELSE IF r.active /\ sweep.immediately
                         THEN DiscardActive(seq, m, landed)
                         ELSE ActivityRemove(seq, m, landed))
    /\ sweep' = IF Len(sweep.todo) = 1 THEN NoSweep
                ELSE [sweep EXCEPT !.todo = Tail(@)]
    /\ UNCHANGED <<client, thread, overtaken>>

\* Variant: hangs up without waiting for the channels
DisconnectAtOnce(s, landed) ==
    LET asked == StopAll([s EXCEPT !.disconnecting = s.callref], landed)
    IN IF HasTrunk /\ s.callref THEN Hangup(asked) ELSE asked

(* Sequencer::disconnect.  The trunk refuses it when there is no call.      *)
Disconnect(s, landed) ==
    LET HangupIfIdle(asked) ==
            IF ChannelsIdle(asked) /\ HasTrunk /\ s.callref
            THEN Hangup(asked) ELSE asked
    IN HangupIfIdle(CheckCompleted(
            StopAll([s EXCEPT !.disconnecting = s.callref], landed), landed))

(* Sequencer::close.  The completion it runs may already have deleted the   *)
(* object; `destroy' is what the caller does with an idle channel.          *)
Close(s, destroy, landed) ==
    LET CloseIfIdle(asked) ==
            IF asked.deleted \/ ~ChannelsIdle(asked) THEN StillThere(asked)
            ELSE IF destroy THEN [Release(asked) EXCEPT !.deleted = TRUE]
            ELSE [asked EXCEPT !.media = FALSE]
    IN CloseIfIdle(CheckCompleted(
            AbortAll([s EXCEPT !.closing = TRUE], "stopped", landed), landed))

(* Sequencer::DISC is refused while an earlier one is pending               *)
DISC(landed) ==
    /\ ClientReady
    /\ HasTrunk /\ seq.interface
    /\ ~seq.disconnecting
    /\ seq' = Disconnect(seq, landed)
    /\ UNCHANGED <<client, thread, sweep, overtaken>>

(* Sequencer::BGRC, sent for background channels                            *)
BGRC(landed) ==
    /\ ClientReady
    /\ ~HasTrunk /\ seq.interface
    /\ ~seq.closing
    /\ seq' = Close(seq, TRUE, landed)
    /\ UNCHANGED <<client, thread, sweep, overtaken>>

(* Sequencer::lost_connection, called when the client's TCP connection      *)
(* broke: forgets the connection under the lock, ...                        *)
LostConnection ==
    /\ ClientReady
    /\ seq.interface
    /\ seq' = [seq EXCEPT !.interface = FALSE]
    /\ client' = [client EXCEPT !.pc = "losing"]
    /\ UNCHANGED <<thread, sweep, overtaken>>

(* ... looks for a call without it, ...                                     *)
LosesCall ==
    /\ ~seq.fault
    /\ client.pc = "losing"
    /\ seq' = CarriesOn(seq)
    /\ client' = [client EXCEPT !.pc =
                     IF seq.callref THEN "disconnecting"
                     ELSE IF ~HasTrunk THEN "closing" ELSE "idle"]
    /\ UNCHANGED <<thread, sweep, overtaken>>

(* ... and ends what it found.                                              *)
LostCall(landed) ==
    /\ LockFree
    /\ client.pc \in {"disconnecting", "closing"}
    /\ seq' = CarriesOn(IF client.pc = "disconnecting"
                        THEN Disconnect(seq, landed)
                        ELSE Close(seq, FALSE, landed))
    /\ client' = [client EXCEPT !.pc = "idle"]
    /\ UNCHANGED <<thread, sweep, overtaken>>

(* Conferences::close on behalf of any client: the handle is gone           *)
CNFC ==
    /\ ClientReady
    /\ seq.conference
    /\ seq' = [seq EXCEPT !.conference = FALSE]
    /\ UNCHANGED <<client, thread, sweep, overtaken>>

----------------------------------------------------------------------------
(*                          The media thread                                *)

(* The board is done with a sample and Media::completed calls               *)
(* completed(Sample).  A touchtone that was stopped completes once more.    *)
MediaEvent(m) ==
    /\ Alive
    /\ thread["media"].pc = "idle"
    /\ LET r == seq.molecule[m]
       IN /\ HasOutput(r)
          /\ r.sample \in {"active", "stopping"}
          /\ seq' = Enters(SetMolecule(seq, m, [r EXCEPT !.sample = "idle"]),
                           m, r.sstatus)
          /\ Sets("media", Entered("media", m, r.sstatus, << >>))
    /\ UNCHANGED <<client, sweep, overtaken>>

(* Sequencer::touchtone                                                     *)
Touchtone(landed) ==
    /\ LockFree
    /\ seq.media
    /\ thread["media"].pc = "idle"
    /\ seq' = ActivityDTMF(ActivityDTMF(seq, 0, landed), 1, landed)
    /\ UNCHANGED <<client, thread, sweep, overtaken>>

----------------------------------------------------------------------------
(*                          The timer thread                                *)

IsSilence(r) == r.cur \in DOMAIN r.atoms /\ CurrentKind(r) = "slnc"

(* SilenceAtom::on_timer calls completed(Molecule), and then forgets its    *)
(* timer.                                                                   *)
OnTimer(m) == [Idle EXCEPT !.pc = "locking", !.molecule = m, !.own = m,
                           !.atom = seq.molecule[m].cur,
                           !.rest = <<"forgetting">>]

(* The thread takes an expired timer out of the set, without the            *)
(* sequencer's lock: either the one the silence still holds ...             *)
TimerExpires(m) ==
    /\ Alive
    /\ thread["timer"].pc = "idle"
    /\ IsSilence(seq.molecule[m])
    /\ seq.molecule[m].sample = "active"
    /\ seq' = SetMolecule(seq, m, [seq.molecule[m] EXCEPT !.sample = "fired"])
    /\ Sets("timer", OnTimer(m))
    /\ UNCHANGED <<client, sweep, overtaken>>

\* Variant: does not ask whether there is such a timer
OrphanExpiresAnyway(m) ==
    /\ Alive
    /\ thread["timer"].pc = "idle"
    /\ seq' = SetMolecule(seq, m, [seq.molecule[m] EXCEPT !.orphans = @ - 1])
    /\ Sets("timer", OnTimer(m))
    /\ UNCHANGED <<client, sweep, overtaken>>

(* ... or one that it has forgotten                                         *)
OrphanExpires(m) ==
    /\ Alive
    /\ thread["timer"].pc = "idle"
    /\ seq.molecule[m].orphans > 0
    /\ seq' = SetMolecule(seq, m, [seq.molecule[m] EXCEPT !.orphans = @ - 1])
    /\ Sets("timer", OnTimer(m))
    /\ UNCHANGED <<client, sweep, overtaken>>

(* It does so even if completed() has started that silence again, or        *)
(* deleted it.                                                              *)
Invalidate(s, m, atom) ==
    LET r == s.molecule[m]
    IN IF r.phase = "gone" THEN Fault(s)
       ELSE IF IsSilence(r) /\ r.cur = atom
       THEN SetMolecule(s, m, [r EXCEPT
               !.sample = IF @ \in {"active", "fired"} THEN "idle" ELSE @,
               !.orphans = IF r.sample = "active" THEN @ + 1 ELSE @])
       ELSE s

Forgets ==
    /\ ~seq.fault
    /\ thread["timer"].pc = "forgetting"
    /\ seq' = CarriesOn(Invalidate(seq, thread["timer"].own, thread["timer"].atom))
    /\ Sets("timer", Idle)
    /\ UNCHANGED <<client, sweep, overtaken>>

----------------------------------------------------------------------------
(*                          The trunk thread                                *)

(* Sequencer::disconnectRequest: the far end hung up.  When the far end and *)
(* DISC met, the trunk reports it after disconnectDone, without a call.     *)
DisconnectRequest(landed) ==
    /\ LockFree
    /\ HasTrunk
    /\ LET Told(asked) == [asked EXCEPT
                !.media = asked.media /\ ~ChannelsIdle(asked),
                !.sentRdis = @ \/ (asked.callref /\ ~asked.disconnecting)]
       IN seq' = Told(CheckCompleted(
                        AbortAll(seq, "stopped_disconnect", landed), landed))
    /\ UNCHANGED <<client, thread, sweep, overtaken>>

(* Sequencer::disconnectDone: the trunk has executed a disconnect           *)
DisconnectDone ==
    /\ LockFree
    /\ HasTrunk /\ seq.hangups > 0
    /\ seq' = Release(seq)
    /\ UNCHANGED <<client, thread, sweep, overtaken>>

(* Sequencer::onIncoming, for a call that some client accepts               *)
OnIncoming ==
    /\ LockFree
    /\ HasTrunk /\ ~seq.callref
    /\ seq' = [seq EXCEPT !.media = TRUE, !.callref = TRUE, !.interface = TRUE]
    /\ UNCHANGED <<client, thread, sweep, overtaken>>

----------------------------------------------------------------------------
Priorities == {o.priority : o \in Offers}

Arrives(stimulus) == stimulus \in Stimuli

Client ==
    \/ \E m \in Ids, o \in Offers : MLCA(m, o)
    \/ \E m \in Ids : MLCAFails(m)
    \/ \E m \in Ids, landed \in Landings : MLCAAdds(m, landed)
    \/ Arrives("MLCD") /\ \E m \in Ids : MLCD(m)
    \/ MLCDTests
    \/ MLCDSets
    \/ MLCDStops
    \/ MLCDRemoves
    \/ MLCDReplies
    \/ Inside("client")
    \/ /\ Arrives("MLDP")
       /\ \E channels \in {{0}, {1}, Channels}, from, to \in Priorities,
             immediately \in BOOLEAN : MLDP(channels, from, to, immediately)
    \/ Arrives("DISC") /\ \E landed \in Landings : DISC(landed)
    \/ Arrives("BGRC") /\ \E landed \in Landings : BGRC(landed)
    \/ Arrives("lost_connection") /\ LostConnection
    \/ LosesCall
    \/ \E landed \in Landings : LostCall(landed)
    \/ Arrives("CNFC") /\ CNFC

Sweep == \E landed \in Landings : MLDPVisit(landed)

MediaThread ==
    \/ \E m \in Ids : MediaEvent(m)
    \/ Inside("media")

TimerThread ==
    \/ \E m \in Ids : TimerExpires(m)
    \/ \E m \in Ids : OrphanExpires(m)
    \/ Inside("timer")
    \/ Forgets

TrunkThread ==
    \/ /\ Arrives("disconnectRequest")
       /\ \E landed \in Landings : DisconnectRequest(landed)
    \/ DisconnectDone
    \/ Arrives("onIncoming") /\ OnIncoming

Next ==
    \/ Client
    \/ Sweep
    \/ MediaThread
    \/ Arrives("touchtone") /\ \E landed \in Landings : Touchtone(landed)
    \/ TimerThread
    \/ TrunkThread

Spec == Init /\ [][Next]_vars

----------------------------------------------------------------------------
(* The board plays every sample to its end and reports it, timers expire,   *)
(* the driver answers a disconnect, and no thread stays in the sequencer    *)
(* for ever: no handler waits for anything but m_mutex.  Nothing is assumed *)
(* of clients, callers or touchtones.                                       *)
ThreadsLeave ==
    /\ []<>(~Alive \/ client.pc = "idle")
    /\ \A t \in Threads : []<>(~Alive \/ thread[t].pc = "idle")
    /\ []<>(~Alive \/ sweep.todo = << >>)

Fairness ==
    /\ \A m \in Ids : WF_vars(MediaEvent(m)) /\ WF_vars(TimerExpires(m))
    /\ WF_vars(DisconnectDone)
    /\ ThreadsLeave

FairSpec == Spec /\ Fairness

----------------------------------------------------------------------------
(*                             Properties                                   *)

(* The playlist of a channel is in order of descending priority, whatever   *)
(* commands, completions and hangups touched it (Activity::add is the only  *)
(* place that sorts; everything else unlinks).                              *)
ByPriority == SortedIn(seq)

(* No playlist holds a molecule that was deleted, none holds one twice, and *)
(* no molecule is lost while it is linked: commands, completions, hangups   *)
(* and MLDP's sweep all unlink before they delete.                          *)
Linked == LinkedIn(seq)

(* At most one molecule of a channel is active: the channel has one voice,  *)
(* although a stop is asynchronous and Activity::add, completed() and the   *)
(* loop in Activity::start all start molecules without looking at the       *)
(* others.                                                                  *)
OneActive ==
    \A c \in Channels : \A i, j \in DOMAIN seq.list[c] :
        seq.molecule[seq.list[c][i]].active /\ seq.molecule[seq.list[c][j]].active
            => i = j

(* A molecule that plays although it is not the head of its list has been   *)
(* asked to stop, or must not be interrupted: nothing of lower priority     *)
(* goes on playing because a preemption was missed (Activity::add compares  *)
(* with the head only, not with the molecule that plays).                   *)
HeadPreempts ==
    \A c \in Channels : \A i \in DOMAIN seq.list[c] :
        LET r == seq.molecule[seq.list[c][i]]
        IN r.active /\ i > 1
             => r.stopped \/ "dont_interrupt" \in r.mode

(* No completion, delayed or late, reaches a molecule that was deleted, and *)
(* no iterator or null pointer is followed.                                 *)
NoFault == overtaken \/ ~seq.fault

(* A client is told at most once that a molecule is over: the completion of *)
(* its MLCA or the reply to the MLCD that removed it.                       *)
AnsweredOnce == \A m \in Ids : seq.answers[m] <= 1

(* The molecules whose completion is on its way                             *)
InFlight ==
    {seq.completions[i].molecule : i \in DOMAIN seq.completions}
        \cup {thread[t].molecule : t \in {u \in Threads : thread[u].pc = "locking"}}

(* ... or the answer to it                                                  *)
BeingAnswered ==
    {thread[t].molecule : t \in {u \in Threads : thread[u].pc = "answering"}}
        \cup {thread[t].own : t \in {u \in Threads : thread[u].pc = "replying"}}

CallStands == Alive /\ ~seq.disconnecting /\ ~seq.sentRdis /\ ~seq.closing

(* ... and is told so once it is deleted, as long as the call stands.       *)
Answered ==
    CallStands /\ seq.interface =>
        \A m \in Ids : seq.molecule[m].phase = "gone" /\ m \notin InFlight \cup BeingAnswered
                        => seq.answers[m] > 0


(* The trunk is told to hang up only when nothing plays any more: DISC      *)
(* waits for every channel that it had to stop.                             *)
HangsUpSilent ==
    Alive /\ ~overtaken /\ seq.hangups > 0 =>
        \A m \in Ids : seq.molecule[m].active
                        => seq.molecule[m].phase = "gone"

(* The trunk is told to hang up once: m_id and m_disconnecting belong to    *)
(* the one trunk operation that is pending.                                 *)
HangupOnce == seq.hangups <= 1

(* Nothing starts to play once the client has hung up.                      *)
NothingStartsLate ==
    [][seq.disconnecting =>
         \A m \in Ids : seq'.molecule[m].active => seq.molecule[m].active]_vars

(* Nothing starts to play once the far end has hung up.                     *)
NothingStartsAfterRdis ==
    [][seq.sentRdis =>
         \A m \in Ids : seq'.molecule[m].active => seq.molecule[m].active]_vars

(* Activity::abort removes everything that follows the molecule it stops:   *)
(* when disconnectRequest has sent RDIS, no playlist holds more than the    *)
(* molecule that is coming to its end.                                      *)
AbortRemovesAll ==
    [][seq'.sentRdis /\ ~seq.sentRdis =>
         \A c \in Channels : Len(seq'.list[c]) <= 1]_vars

(* DISC leads to a hang-up, whatever was playing (unless a fault, which     *)
(* ends what the model says, comes first).                                  *)
DiscHangsUp == seq.disconnecting ~> seq.hangups > 0 \/ seq.fault

(* Every molecule that does not loop is over some time: neither a           *)
(* preemption nor a completion that was put off leaves it waiting for ever. *)
EveryMoleculeEnds ==
    \A m \in Ids : IsQueued(seq, m) ~> ~IsQueued(seq, m) \/ seq.fault
=============================================================================
