------------------------------- MODULE Playlist -------------------------------
(****************************************************************************)
(* What the sequencer does to a line's playlists, as functions from a       *)
(* sequencer state to a sequencer state: Activity (activ.cpp), the parts of *)
(* Molecule that reach out of the molecule, and Sequencer::completed with   *)
(* its queue of delayed completions (sequence.cpp).                         *)
(*                                                                          *)
(* The code calls itself back: stopping a touchtone completes it before     *)
(* stop() returns, and a completion starts the next molecule.  Everything   *)
(* here runs under Sequencer::m_mutex (recursive on NT), so one function    *)
(* composition is one critical section.                                     *)
(*                                                                          *)
(* `landed' is the outcome of every setPos() the handler may call, see      *)
(* Molecules.                                                               *)
(****************************************************************************)
EXTENDS Molecules, Integers, SequencesExt

CONSTANTS Ids,        \* molecules, one for each MLCA request
          NoId,       \* the null Molecule pointer
          HasTrunk    \* TRUE for a line, FALSE for a background channel

ASSUME NoIdAssumption == NoId \notin Ids
ASSUME TrunkAssumption == HasTrunk \in BOOLEAN

Channels == 0..1      \* MAXCHANNELS is 2

\* Saturation of the two counters that are only compared with 0 and 1
CountBound == 2
Bump(n) == IF n < CountBound THEN n + 1 ELSE n

States == {"idle", "active", "stopping"}

(* A Sequencer object.  answers[m] counts the MLCA completions and MLCD     *)
(* replies that tell the client m is over, hangups the calls of             *)
(* Trunk::disconnect for the current call; fault is set when the code uses  *)
(* a deleted or null object, conference tells whether the conference that   *)
(* "conf" atoms name is open.                                               *)
SequencerType ==
    [list          : [Channels -> Seq(Ids)],
     state         : [Channels -> States],
     molecule      : [Ids -> MoleculeType(Ids, NoId)],
     completions   : Seq([molecule : Ids, status : Statuses]),
     answers       : [Ids -> Nat],
     inCompleted   : Int,
     media         : BOOLEAN,
     interface     : BOOLEAN,
     callref       : BOOLEAN,
     disconnecting : BOOLEAN,
     sentRdis      : BOOLEAN,
     closing       : BOOLEAN,
     deleted       : BOOLEAN,
     hangups       : Nat,
     conference    : BOOLEAN,
     fault         : BOOLEAN]

Fault(s) == [s EXCEPT !.fault = TRUE]

(* The caller goes on with an object that may just have deleted itself.     *)
StillThere(s) == IF s.deleted THEN Fault(s) ELSE s

SetMolecule(s, m, r) == [s EXCEPT !.molecule[m] = r]

SendReply(s, m) == [s EXCEPT !.answers[m] = Bump(@)]

SendMLCA(s, m) == IF s.interface THEN SendReply(s, m) ELSE s

ChannelsIdle(s) == \A c \in Channels : s.state[c] = "idle"

IsQueued(s, m) == s.molecule[m].phase = "queued"

Head1(s, c) == IF s.list[c] = << >> THEN NoId ELSE Head(s.list[c])

----------------------------------------------------------------------------
(*                         Starting a molecule                              *)

(* Atom::start fails only for a conference that does not exist.             *)
Starts(s, m, landed) ==
    LET r == s.molecule[m]
        a == AtomToStart(r, landed[m])
    IN a \in DOMAIN r.atoms /\ (r.atoms[a] = "conf" => s.conference)

\* A touchtone that was stopped stays AculabMedia::m_sending until another
\* output sample takes its place.
IsOutput(kind) == kind \in {"play", "dtmf"}

ForgetStoppedTone(r) ==
    IF r.sample = "stopping" /\ r.cur \in DOMAIN r.atoms /\ CurrentKind(r) = "dtmf"
    THEN [r EXCEPT !.sample = "idle"] ELSE r

MoleculeStart(s, m, landed) ==
    LET r  == s.molecule[m]
        a  == AtomToStart(r, landed[m])
        ok == Starts(s, m, landed)
        started == [r EXCEPT
            !.stopped = FALSE,
            !.cur     = IF a = 0 THEN r.cur ELSE a,
            !.sstatus = IF a \in {0, r.cur} THEN r.sstatus ELSE "ok",
            !.active  = r.active \/ ok,
            !.sample  = IF ok THEN "active" ELSE r.sample]
        others == IF ok /\ IsOutput(r.atoms[a])
                  THEN [i \in Ids |-> ForgetStoppedTone(s.molecule[i])]
                  ELSE s.molecule
    IN [s EXCEPT !.molecule = [others EXCEPT ![m] = started]]

----------------------------------------------------------------------------
(*                          The activity's list                             *)

\* Variant: appends
InsertPositionLast(s, c, priority) == Len(s.list[c]) + 1

(* Activity::add walks past every molecule of at least the new priority     *)
InsertPosition(s, c, priority) ==
    LET L == s.list[c]
    IN Min({i \in 1..Len(L) + 1 :
              i = Len(L) + 1 \/ s.molecule[L[i]].priority < priority})

IndexIn(L, m) == CHOOSE i \in DOMAIN L : L[i] = m

InList(s, m) == \E c \in Channels : \E i \in DOMAIN s.list[c] : s.list[c][i] = m

(* Takes element i out of the list of channel c; its molecule becomes r.    *)
Unlink(s, c, i, r) ==
    SetMolecule([s EXCEPT !.list[c] = RemoveAt(@, i)], s.list[c][i], r)

(* List::removeAfter(before): unlinks what follows, if anything does        *)
UnlinkAfter(s, c, before) ==
    LET i == IndexIn(s.list[c], before) + 1
        r == s.molecule[s.list[c][i]]
    IN IF i > Len(s.list[c]) THEN s
       ELSE Unlink(s, c, i, [r EXCEPT !.phase = "detached",
                                      !.before = before])

(* Activity::remove of a molecule that is not active: unlink and delete it. *)
(* One that abort() has unlinked before still points to its predecessor, so *)
(* that whatever follows the predecessor by now is unlinked in its place.   *)
Delete(s, m) ==
    LET r == s.molecule[m]
        c == r.channel
        gone == [r EXCEPT !.phase = "gone"]
        deleted ==
            IF r.phase = "queued"
            THEN Unlink(s, c, IndexIn(s.list[c], m), gone)
            ELSE SetMolecule(UnlinkAfter(s, c, r.before), m, gone)
    IN IF r.phase = "detached" /\ ~IsQueued(s, r.before) THEN Fault(s)
       ELSE IF deleted.list[c] = << >>
            THEN [deleted EXCEPT !.state[c] = "idle"] ELSE deleted

(* Answers and deletes the molecules before the k-th of channel c's list    *)
DropBefore(s, c, k) ==
    LET L == s.list[c]
        dropped == {L[i] : i \in 1..k - 1}
    IN [s EXCEPT
          !.list[c] = SubSeq(L, k, Len(L)),
          !.molecule = [i \in Ids |->
              IF i \in dropped THEN [s.molecule[i] EXCEPT !.phase = "gone"]
              ELSE s.molecule[i]],
          !.answers = [i \in Ids |->
              IF i \in dropped /\ s.interface THEN Bump(s.answers[i])
              ELSE s.answers[i]]]

(* Activity::start: starts the first molecule that can be started           *)
ActivityStart(s, c, landed) ==
    LET L == s.list[c]
        n == Len(L)
        k == Min({i \in 1..n + 1 : i = n + 1 \/ Starts(s, L[i], landed)})
        left == [DropBefore(s, c, k) EXCEPT
                    !.state[c] = IF k <= n THEN "active" ELSE "idle"]
    IN IF \E i \in 1..k - 1 : s.molecule[L[i]].active THEN Fault(s)
       ELSE IF k <= n THEN MoleculeStart(left, L[k], landed) ELSE left

----------------------------------------------------------------------------
(*                            Completions                                   *)

\* Variant: only a remote hangup is noticed
StopsPlayingRemote(s, status) ==
    (HasTrunk /\ status = "stopped_disconnect") \/ s.closing

(* Neither DISC nor a remote hangup lets the next molecule start.           *)
StopsPlaying(s, status) ==
    \/ HasTrunk /\ (s.disconnecting \/ status = "stopped_disconnect")
    \/ s.closing

\* Variant: a channel whose molecule was removed is left alone
CompletedLockedStalls(s, m, status, landed) ==
    LET r == s.molecule[m]
        after == SetMolecule(s, m, Done(r))
    IN IF s.fault \/ r.phase \notin {"queued", "detached"}
                  \/ r.cur \notin DOMAIN r.atoms
       THEN Fault(s)
       ELSE IF DoneReturns(r) THEN Delete(after, m)
       ELSE ActivityStart(after, r.channel, landed)

(* Sequencer::completed up to the end of its critical section.              *)
CompletedLocked(s, m, status, landed) ==
    LET r == s.molecule[m]
        c == r.channel
        Kept(after) == IF s.state[c] = "stopping" \/ DoneReturns(r)
                       THEN Delete(after, m) ELSE after
        GoOn(kept) ==
            IF kept.fault THEN kept
            ELSE IF StopsPlaying(s, status)
                 THEN [kept EXCEPT !.state[c] = "idle"]
            ELSE ActivityStart(kept, c, landed)
    IN IF s.fault \/ r.phase \notin {"queued", "detached"}
                  \/ r.cur \notin DOMAIN r.atoms
       THEN Fault(s)
       ELSE GoOn(Kept(SetMolecule(s, m, Done(r))))

\* Variant: answers at the last atom, looping or not
AnswersAtEnd(s, m, status) ==
    AtEnd(s.molecule[m]) \/ StopsPlaying(s, status)

(* The rest of completed() needs to know whether to answer the MLCA.        *)
Answers(s, m, status) ==
    LET r == s.molecule[m]
    IN \/ AtEnd(r) /\ DoneReturns(r)
       \/ StopsPlaying(s, status)

\* Variant: forgets the links without deleting the molecules
ReleaseLinks(s) ==
    [s EXCEPT
       !.media = FALSE, !.callref = FALSE, !.disconnecting = FALSE,
       !.sentRdis = FALSE, !.hangups = 0,
       !.list = [c \in Channels |-> << >>]]

(* Sequencer::release: empties the playlists, but neither resets their      *)
(* state nor drops the completions still queued.                            *)
Release(s) ==
    [s EXCEPT
       !.media = FALSE,
       !.callref = FALSE,
       !.disconnecting = FALSE,
       !.sentRdis = FALSE,
       !.hangups = 0,
       !.list = [c \in Channels |-> << >>],
       !.molecule = [i \in Ids |->
           IF IsQueued(s, i) THEN [s.molecule[i] EXCEPT !.phase = "gone"]
           ELSE s.molecule[i]]]

(* Trunk::disconnect for the current call                                   *)
Hangup(s) == [s EXCEPT !.hangups = Bump(@)]

(* The end of completed() when its caller holds the lock all the while:     *)
(* answer, and carry on with a DISC or BGRC that waited for the channels to *)
(* become idle.  A thread that does not hold it takes these steps one by    *)
(* one, see Sequencer.                                                      *)
CompletedRest(s, m, answer) ==
    LET answered == IF answer THEN SendMLCA(s, m) ELSE s
        hungUp == IF HasTrunk /\ answered.disconnecting
                  THEN Hangup(answered) ELSE answered
    IN IF s.fault THEN s
       ELSE IF ~ChannelsIdle(answered) THEN answered
       ELSE IF ~hungUp.closing THEN hungUp
       ELSE IF hungUp.deleted THEN Fault(hungUp)
       ELSE [Release(hungUp) EXCEPT !.deleted = TRUE]

Completed(s, m, status, landed) ==
    CompletedRest(CompletedLocked(s, m, status, landed), m,
                  Answers(s, m, status))

AddCompleted(s, m, status) ==
    [s EXCEPT !.completions =
        Append(@, [molecule |-> m, status |-> status])]

\* Variant: looks at the completion, but leaves it in the queue
CheckCompletedPeeks(s, landed) ==
    IF s.fault \/ s.completions = << >> THEN s
    ELSE Completed(s, Head(s.completions).molecule,
                   Head(s.completions).status, landed)

(* Sequencer::checkCompleted dequeues one completion                        *)
CheckCompleted(s, landed) ==
    IF s.fault \/ s.completions = << >> THEN s
    ELSE LET i == Head(s.completions)
         IN Completed([s EXCEPT !.completions = Tail(@)],
                      i.molecule, i.status, landed)

(* Sequencer::completed(Sample): a completion that arrives while another    *)
(* one is being handled is queued.                                          *)
SampleCompleted(s, m, status, landed) ==
    IF s.inCompleted > 0 THEN AddCompleted(s, m, status)
    ELSE CheckCompleted(StillThere(Completed(s, m, status, landed)), landed)

----------------------------------------------------------------------------
(*                         Stopping a molecule                              *)

(* stop() of the current atom, for every kind of atom                       *)
AtomStop(s, m, status, landed) ==
    LET r == s.molecule[m]
        kind == CurrentKind(r)
        aborted == SetMolecule(s, m, [r EXCEPT !.sample = "stopping",
                                               !.sstatus = status])
        silent == SetMolecule(s, m, [r EXCEPT !.sample = "idle"])
    IN CASE kind = "play" ->
              IF r.sample = "active" THEN aborted ELSE s
         [] kind = "dtmf" ->
              IF r.sample = "active"
              THEN SampleCompleted(aborted, m, status, landed) ELSE s
         [] kind = "slnc" ->
              IF r.sample \in {"active", "fired"}
              THEN AddCompleted(silent, m, status) ELSE s
         [] kind = "conf" -> AddCompleted(silent, m, status)

(* Whether that stop() returns true                                         *)
AtomStopReturns(r) ==
    CASE CurrentKind(r) = "play" -> FALSE
      [] CurrentKind(r) = "dtmf" -> r.sample = "active"
      [] CurrentKind(r) = "slnc" -> r.sample \in {"active", "fired"}
      [] CurrentKind(r) = "conf" -> TRUE

MoleculeAbort(s, m, status, landed) ==
    LET stopped == SetMolecule(s, m, [s.molecule[m] EXCEPT
                                          !.stopped = TRUE,
                                          !.status = status])
    IN IF s.molecule[m].cur \notin DOMAIN s.molecule[m].atoms THEN stopped
       ELSE AtomStop(stopped, m, status, landed)

MoleculeAbortReturns(r) ==
    r.cur \in DOMAIN r.atoms /\ AtomStopReturns(r)

MoleculeStop(s, m, status, landed) ==
    IF Interruptible(s.molecule[m], status)
    THEN MoleculeAbort(s, m, status, landed) ELSE s

MoleculeStopReturns(r, status) ==
    Interruptible(r, status) /\ MoleculeAbortReturns(r)

----------------------------------------------------------------------------
(*                              Activity                                    *)

Link(s, m, r) ==
    LET c == r.channel
    IN SetMolecule([s EXCEPT !.list[c] =
                        InsertAt(@, InsertPosition(s, c, r.priority), m)],
                   m, r)

\* Variant: the new molecule starts although the old one has only been asked
\* to stop
ActivityAddPlays(s, m, r, landed) ==
    LET old == Head1(s, r.channel)
        added == MoleculeStart(Link(s, m, r), m, landed)
    IN IF old # NoId /\ r.priority > s.molecule[old].priority
       THEN MoleculeStop(added, old, "stopped", landed) ELSE added

\* Variant: the old molecule plays on
ActivityAddWaits(s, m, r, landed) ==
    IF Head1(s, r.channel) # NoId THEN Link(s, m, r)
    ELSE [MoleculeStart(Link(s, m, r), m, landed) EXCEPT
             !.state[r.channel] = "active"]

(* Activity::add: links the new molecule r in, starts it if the list was    *)
(* empty, and stops the head of the list if the new one is more important.  *)
ActivityAdd(s, m, r, landed) ==
    LET c == r.channel
        old == Head1(s, c)
        added == Link(s, m, r)
    IN IF old = NoId
       THEN [MoleculeStart(added, m, landed) EXCEPT
                !.state[c] = IF Starts(added, m, landed) THEN "active" ELSE @]
       ELSE IF /\ r.priority > s.molecule[old].priority
               /\ "dont_interrupt" \notin s.molecule[old].mode
            THEN MoleculeStop(added, old, "stopped", landed)
            ELSE added

(* Activity::remove does not remove an active molecule, it stops it         *)
ActivityRemove(s, m, landed) ==
    IF s.molecule[m].active THEN MoleculeStop(s, m, "stopped", landed)
    ELSE Delete(s, m)

(* Activity::stop                                                           *)
ActivityStop(s, c, status, landed) ==
    LET h == Head1(s, c)
        stopping == [s EXCEPT !.state[c] = "stopping"]
        Settle(asked) == IF MoleculeStopReturns(s.molecule[h], status)
                         THEN [asked EXCEPT !.state[c] = "idle"] ELSE asked
    IN IF h = NoId THEN stopping
       ELSE Settle(MoleculeStop(stopping, h, status, landed))

(* Activity::abort unlinks one of the molecules that follow the head        *)
ActivityAbort(s, c, status, landed) ==
    LET h == Head1(s, c)
        stopping == [s EXCEPT !.state[c] = "stopping"]
        Settle(short) == IF MoleculeAbortReturns(s.molecule[h])
                         THEN [short EXCEPT !.state[c] = "idle"] ELSE short
        Shorten(asked) ==
            IF asked.fault \/ Head1(asked, c) = NoId THEN Fault(asked)
            ELSE Settle(UnlinkAfter(asked, c, Head1(asked, c)))
    IN IF h = NoId THEN stopping
       ELSE Shorten(MoleculeAbort(stopping, h, status, landed))

(* Activity::DTMF                                                           *)
ActivityDTMF(s, c, landed) ==
    LET h == Head1(s, c)
    IN IF h # NoId /\ "dtmf_stop" \in s.molecule[h].mode
       THEN ActivityStop(s, c, "stopped_dtmf", landed) ELSE s

(* The loops over MAXCHANNELS activities that stop those that are playing   *)
StopPlaying(s, c, landed) ==
    IF s.state[c] = "active" THEN ActivityStop(s, c, "stopped", landed) ELSE s

StopAll(s, landed) == StopPlaying(StopPlaying(s, 0, landed), 1, landed)

AbortPlaying(s, c, status, landed) ==
    IF s.state[c] = "active" THEN ActivityAbort(s, c, status, landed) ELSE s

AbortAll(s, status, landed) ==
    AbortPlaying(AbortPlaying(s, 0, status, landed), 1, status, landed)

----------------------------------------------------------------------------
(*                    What holds of the playlists                           *)

(* A molecule is in the playlist of its channel, once, exactly as long as   *)
(* it is linked: no playlist holds a molecule that was deleted, and no      *)
(* linked molecule is lost (MLCD, MLDP and Activity::find reach it).        *)
LinkedIn(s) ==
    /\ \A c \in Channels : \A i, j \in DOMAIN s.list[c] :
          s.list[c][i] = s.list[c][j] => i = j
    /\ \A c \in Channels : \A i \in DOMAIN s.list[c] :
          IsQueued(s, s.list[c][i]) /\ s.molecule[s.list[c][i]].channel = c
    /\ \A m \in Ids : IsQueued(s, m) => InList(s, m)

(* A playlist is in order of descending priority.                           *)
SortedIn(s) ==
    \A c \in Channels : \A i, j \in DOMAIN s.list[c] :
        i < j => s.molecule[s.list[c][i]].priority
                    >= s.molecule[s.list[c][j]].priority

(* The prev pointer that Activity::abort leaves in the molecule it unlinks  *)
(* is that of a molecule of the same channel, deleted by now or not.        *)
DetachedIn(s) ==
    \A m \in Ids : s.molecule[m].phase = "detached" =>
        LET b == s.molecule[m].before
        IN /\ b \in Ids
           /\ s.molecule[b].phase # "new"
           /\ s.molecule[b].channel = s.molecule[m].channel
=============================================================================
