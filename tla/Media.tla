--------------------------------- MODULE Media ---------------------------------
(****************************************************************************)
(* A media channel: the ProsodyChannel of a call and its samples            *)
(* (aculab/acuphone.cpp) between the Sequencer above and the Prosody board  *)
(* below (external).                                                        *)
(*                                                                          *)
(* Two threads run the samples.  The thread "client" is whoever calls       *)
(* start() and stop() with Sequencer::m_mutex held (a command, a digit or a *)
(* timer); "media" is the DispatcherThread, woken by the board's events,    *)
(* which are auto-reset and say only that there is something to look at.    *)
(* Both fill the board's buffers, and either may find that a sample is done *)
(* and call completed(), whose handler may start the next sample or delete  *)
(* this one.  An action is a call of the board, a critical section of       *)
(* ProsodyChannel::m_mutex, or what a thread does until the next of them.   *)
(*                                                                          *)
(* Data is counted in chunks, what a buffer of the board holds.             *)
(****************************************************************************)
EXTENDS Integers, FiniteSets

CONSTANTS Samples,   \* the Sample objects of the channel
          KindOf,    \* their classes
          NoSample,  \* the null pointer
          Chunks,    \* the length of a file
          BeepChunks,\* sizeof(beep)
          Beeps,     \* Beep::m_beeps
          Buffers,   \* the chunks that the board holds
          Room,      \* the chunks that UDPStream::m_buffer holds
          MaxStarts, \* bound on the calls of start()
          Troubles   \* what may go wrong

(* "both": both threads are in process() of one sample                      *)
(* "hasty": a sample is done before start() returns                         *)
(* "tones": touchtones are stopped; stop() reports their completion, and so *)
(*    does process() when the board has ended them                          *)
(* "beeps": Beep::process() starts the next beep of one that was stopped    *)
(* "replayed": a Beep is started again; neither m_count nor m_offset was     *)
(*    reset                                                                 *)
(* "waiting": UDPStream::stop() before there was data: it does nothing      *)
(* "hungry": UDPStream::process() without data does not look at the board   *)
(* "relabelled": a recording stopped by a digit or a hang-up is reported as *)
(*    merely stopped                                                        *)
(* "remembered": a sample that was stopped once is started again; m_status  *)
(*    is never reset                                                        *)
AllTroubles == {"both", "hasty", "tones", "beeps", "replayed", "waiting",
                "hungry", "relabelled", "remembered"}

Kinds == {"file", "beep", "tones", "udp", "record"}

ASSUME SamplesAssumption ==
    KindOf \in [Samples -> Kinds] /\ NoSample \notin Samples

ASSUME BoundsAssumption ==
    /\ {Chunks, BeepChunks, Beeps, Buffers, Room} \subseteq Nat \ {0}
    /\ MaxStarts \in Nat
    /\ Troubles \subseteq AllTroubles

VARIABLES sample,    \* the Sample objects
          sending,   \* ProsodyChannel::m_sending
          receiving, \* ProsodyChannel::m_receiving
          out,       \* the board's output, a replay or tones
          in,        \* the board's input, a recording
          events,    \* m_eventRead, m_eventWrite, m_eventUDP
          thread,    \* where the two threads are
          starts,    \* the calls of start() so far
          fault,     \* a thread used a deleted sample or a null pointer
          troubles   \* the troubles there were so far (history)

vars == <<sample, sending, receiving, out, in, events, thread, starts, fault,
          troubles>>

Threads == {"client", "media"}
Events == {"read", "write", "udp"}
Statuses == {"ok", "stopped", "stopped_dtmf", "timeout"}
StopStatuses == {"stopped", "stopped_dtmf"}

(* next is the chunk at the sample's position (m_offset, or the storage's), *)
(* count the beeps that were played, fed the chunks in m_buffer.  open: the *)
(* socket of a UDPStream.  owed counts the calls of start() less those of   *)
(* completed(), wanted is the status it was stopped with (history).         *)
SampleType ==
    [state : {"idle", "waiting", "active", "stopping"}, status : Statuses,
     next : Nat \ {0}, count : 0..Beeps + 1, fed : 0..Room, open : BOOLEAN,
     alive : BOOLEAN, owed : Int, wanted : StopStatuses \cup {"none"}]

(* held: it holds Sequencer::m_mutex; starting: process() was called by     *)
(* start(); seen: the status it has read; chunk: the data it has read.      *)
ThreadType ==
    [pc : {"idle", "checked", "process", "saw", "put", "first", "again", "done",
           "told", "abort"},
     s : Samples \cup {NoSample}, event : Events \cup {"none"},
     seen : {"none", "complete", "all data", "full", "capacity", "data", "no data"},
     chunk : Nat, held : BOOLEAN, starting : BOOLEAN]

TypeOK ==
    /\ sample \in [Samples -> SampleType]
    /\ {sending, receiving} \subseteq Samples \cup {NoSample}
    /\ out \in [job : {"none", "replay", "tones"}, owed : Nat, endless : BOOLEAN,
                got : Nat, buffered : 0..Buffers, ended : BOOLEAN,
                garbled : BOOLEAN]
    /\ in \in [job : {"none", "record"}, data : 0..1, left : 0..1,
               reason : {"none", "stopped", "timeout"}]
    /\ events \in [Events -> BOOLEAN]
    /\ thread \in [Threads -> ThreadType]
    /\ starts \in 0..MaxStarts
    /\ fault \in BOOLEAN
    /\ troubles \subseteq Troubles

IdleThread == [pc |-> "idle", s |-> NoSample, event |-> "none", seen |-> "none",
               chunk |-> 0, held |-> FALSE, starting |-> FALSE]

Silent == [job |-> "none", owed |-> 0, endless |-> FALSE, got |-> 0,
           buffered |-> 0, ended |-> TRUE, garbled |-> FALSE]

Init ==
    /\ sample = [s \in Samples |->
                    [state |-> "idle", status |-> "ok", next |-> 1, count |-> 0,
                     fed |-> 0, open |-> FALSE, alive |-> TRUE, owed |-> 0,
                     wanted |-> "none"]]
    /\ sending = NoSample
    /\ receiving = NoSample
    /\ out = Silent
    /\ in = [job |-> "none", data |-> 0, left |-> 0, reason |-> "none"]
    /\ events = [e \in Events |-> FALSE]
    /\ thread = [t \in Threads |-> IdleThread]
    /\ starts = 0
    /\ fault = FALSE
    /\ troubles = {}

Length(s) == IF KindOf[s] = "beep" THEN BeepChunks ELSE Chunks

IsOutgoing(s) == KindOf[s] # "record"

Trouble(what) == what \subseteq Troubles /\ troubles' = troubles \cup what

Calm == UNCHANGED troubles

Processing == {"process", "saw", "put", "first", "again"}

\* The two threads are in process() of the same sample, or about to be.
Shared(t, s) ==
    \E u \in Threads \ {t} : thread[u].pc \in Processing /\ thread[u].s = s

\* Sequencer::m_mutex
MayLock(t) == \A u \in Threads \ {t} : ~thread[u].held

Goes(t, pc) == [thread EXCEPT ![t].pc = pc, ![t].seen = "none", ![t].chunk = 0]

Returns(t) == [thread EXCEPT ![t] = IdleThread]

(* A thread that comes back to a deleted object: whatever it reads, this is *)
(* where the model leaves it.                                               *)
Faults(t) ==
    /\ fault' = TRUE
    /\ thread' = Returns(t)
    /\ Calm

----------------------------------------------------------------------------
(*                        The Prosody board (external)                      *)

Replay(chunks, from, endless) ==
    [job |-> "replay", owed |-> chunks, endless |-> endless, got |-> from - 1,
     buffered |-> 0, ended |-> FALSE, garbled |-> FALSE]

AllData(o) == ~o.endless /\ o.owed = 0

(* sm_replay_status: Underrun is HasCapacity with nothing left to play.     *)
ReplayStatus ==
    CASE out.job # "replay" \/ out.ended
           \/ (AllData(out) /\ out.buffered = 0) -> "complete"
      [] out.job = "replay" /\ ~out.ended /\ AllData(out)
           /\ out.buffered > 0 -> "all data"
      [] out.job = "replay" /\ ~out.ended /\ ~AllData(out)
           /\ out.buffered = Buffers -> "full"
      [] OTHER -> "capacity"

(* sm_play_tone_status, sm_record_status                                    *)
ToneStatus ==
    IF out.job # "tones" \/ out.ended THEN "complete" ELSE "full"

RecordStatus ==
    IF in.data > 0 THEN "data"
    ELSE IF in.reason # "none" THEN "complete" ELSE "no data"

(* A buffer has been played: there is capacity, or the replay is complete.  *)
Plays ==
    /\ out.job = "replay" /\ ~out.ended /\ out.buffered > 0
    /\ out' = [out EXCEPT !.buffered = @ - 1]
    /\ events' = [events EXCEPT !["write"] = TRUE]
    /\ UNCHANGED <<sample, sending, receiving, in, thread, starts, fault, troubles>>

TonesEnd ==
    /\ out.job = "tones" /\ ~out.ended
    /\ out' = [out EXCEPT !.ended = TRUE]
    /\ events' = [events EXCEPT !["write"] = TRUE]
    /\ UNCHANGED <<sample, sending, receiving, in, thread, starts, fault, troubles>>

(* A recording is bounded as well: it gets one chunk.                       *)
Hears ==
    /\ in.job = "record" /\ in.reason = "none" /\ in.data = 0 /\ in.left > 0
    /\ in' = [in EXCEPT !.data = 1, !.left = @ - 1]
    /\ events' = [events EXCEPT !["read"] = TRUE]
    /\ UNCHANGED <<sample, sending, receiving, out, thread, starts, fault, troubles>>

(* max_elapsed_time (or max_silence, V3_ENDSILENCE): it need not come.      *)
RecordEnds ==
    /\ in.job = "record" /\ in.reason = "none"
    /\ in' = [in EXCEPT !.reason = "timeout"]
    /\ events' = [events EXCEPT !["read"] = TRUE]
    /\ UNCHANGED <<sample, sending, receiving, out, thread, starts, fault, troubles>>

(* A datagram on the port of a UDPStream, whose socket stays open.          *)
DatagramArrives ==
    /\ ~events["udp"]
    /\ \E s \in Samples : sample[s].open
    /\ events' = [events EXCEPT !["udp"] = TRUE]
    /\ UNCHANGED <<sample, sending, receiving, out, in, thread, starts, fault,
                   troubles>>

----------------------------------------------------------------------------
(*                          start() and stop()                              *)

Others(s) == {u \in Samples \ {s} : IsOutgoing(u) <=> IsOutgoing(s)}

(* The Sequencer starts a sample with its mutex held, on the client thread  *)
(* or in completed(), when nothing else plays (or records) on the channel   *)
(* as far as it was told.                                                   *)
MayStart(t, s) ==
    /\ \/ t = "client" /\ thread[t].pc = "idle"
       \/ thread[t].pc = "told"
    /\ MayLock(t)
    /\ starts < MaxStarts
    /\ troubles \cap {"both", "hasty"} = {}   \* a bound
    /\ sample[s].alive
    /\ \A u \in Others(s) \cup {s} : sample[u].owed <= 0

IsStarted(s, state, next) ==
    [sample EXCEPT ![s].state = state, ![s].next = next,
                   ![s].owed = @ + 1, ![s].wanted = "none",
                   ![s].open = @ \/ KindOf[s] = "udp"]

Wears(s) ==
    Trouble({what \in {"remembered"} : sample[s].status # "ok"} \cup
            {what \in {"replayed"} :
                KindOf[s] = "beep" /\ (sample[s].count > 0 \/ sample[s].next > 1)})

Fills(t, s) ==
    thread' = [thread EXCEPT ![t] =
                  [IdleThread EXCEPT !.pc = "process", !.s = s, !.held = TRUE,
                                     !.starting = TRUE]]

(* FileSample::start, Beep::start: sm_replay_start, and then process().     *)
(* A file starts at any position, a beep from m_offset.                     *)
StartReplay(t, s) ==
    /\ KindOf[s] \in {"file", "beep"}
    /\ MayStart(t, s)
    /\ \E p \in IF KindOf[s] = "file" THEN 1..Chunks ELSE {sample[s].next} :
          /\ sample' = IsStarted(s, "active", p)
          /\ out' = IF KindOf[s] = "file" THEN Replay(Chunks - p + 1, p, FALSE)
                                           ELSE Replay(BeepChunks, 1, FALSE)
    /\ sending' = s
    /\ Fills(t, s)
    /\ starts' = starts + 1
    /\ Wears(s)
    /\ UNCHANGED <<receiving, in, events, fault>>

(* Touchtones::start: sm_play_digits, and nothing to fill.                  *)
StartTones(t, s) ==
    /\ KindOf[s] = "tones"
    /\ MayStart(t, s)
    /\ sample' = IsStarted(s, "active", 1)
    /\ out' = [Silent EXCEPT !.job = "tones", !.ended = FALSE]
    /\ sending' = s
    /\ thread' = Returns(t)
    /\ starts' = starts + 1
    /\ Wears(s)
    /\ UNCHANGED <<receiving, in, events, fault>>

(* UDPStream::start binds a socket and waits; the board is not told.        *)
StartUDP(t, s) ==
    /\ KindOf[s] = "udp"
    /\ MayStart(t, s)
    /\ sample' = IsStarted(s, "waiting", 1)
    /\ sending' = s
    /\ thread' = Returns(t)
    /\ starts' = starts + 1
    /\ Wears(s)
    /\ UNCHANGED <<receiving, out, in, events, fault>>

(* RecordFileSample::start: sm_record_start                                 *)
StartRecord(t, s) ==
    /\ KindOf[s] = "record"
    /\ MayStart(t, s)
    /\ sample' = IsStarted(s, "active", 1)
    /\ in' = [job |-> "record", data |-> 0, left |-> 1, reason |-> "none"]
    /\ receiving' = s
    /\ thread' = Returns(t)
    /\ starts' = starts + 1
    /\ Wears(s)
    /\ UNCHANGED <<sending, out, events, fault>>

Stopping(s, status) ==
    [sample EXCEPT ![s].state = "stopping", ![s].status = status,
                   ![s].wanted = status]

\* Only a recording looks at the status again.
StopsWith(s) == IF KindOf[s] = "record" THEN StopStatuses ELSE {"stopped"}

StopTroubles(s, status) ==
    {what \in {"tones"} : KindOf[s] = "tones"}
    \cup {what \in {"relabelled"} : KindOf[s] = "record" /\ status # "stopped"}

(* The first half of stop(), a critical section, for a sample that the      *)
(* Sequencer believes to play; the second half aborts.                      *)
Stop(s, status) ==
    /\ thread["client"].pc = "idle"
    /\ MayLock("client")
    /\ sample[s].alive /\ sample[s].owed > 0
    /\ sample[s].state = "active"
    /\ sample' = Stopping(s, status)
    /\ thread' = [thread EXCEPT !["client"] =
                    [IdleThread EXCEPT !.pc = "abort", !.s = s, !.held = TRUE]]
    /\ Trouble(StopTroubles(s, status))
    /\ UNCHANGED <<sending, receiving, out, in, events, starts, fault>>

(* ... It returns false if the sample is not active: a UDPStream that waits *)
(* for data has not been stopped.  Any other is about to be reported.       *)
StopTooEarly(s) ==
    /\ thread["client"].pc = "idle"
    /\ MayLock("client")
    /\ sample[s].alive /\ sample[s].owed > 0
    /\ sample[s].state = "waiting"
    /\ Trouble({"waiting"})
    /\ UNCHANGED <<sample, sending, receiving, out, in, events, thread, starts,
                   fault>>

\* Variant: stop() of a recording leaves the abort out
NotAborted(i) == i

Aborted(i) == [i EXCEPT !.reason = IF @ = "none" THEN "stopped" ELSE @]

(* sm_replay_abort, sm_record_abort, sm_play_tone_abort: what is playing is *)
(* over, which the board reports.  Touchtones call completed() themselves.  *)
Abort ==
    LET s == thread["client"].s
    IN /\ thread["client"].pc = "abort"
       /\ IF IsOutgoing(s)
          THEN /\ out' = [out EXCEPT !.ended = TRUE]
               /\ events' = [events EXCEPT !["write"] = TRUE]
               /\ UNCHANGED in
          ELSE /\ in' = Aborted(in)
               /\ events' = [events EXCEPT !["read"] = TRUE]
               /\ UNCHANGED out
       /\ thread' = IF KindOf[s] = "tones" THEN Goes("client", "done")
                                           ELSE Returns("client")
       /\ UNCHANGED <<sample, sending, receiving, starts, fault, troubles>>

----------------------------------------------------------------------------
(*                        The dispatcher thread                             *)

Named(event) == IF event = "read" THEN receiving ELSE sending

(* WaitForMultipleObjects takes the first event of those that are set.      *)
Order == [read |-> 1, write |-> 2, udp |-> 3]

(* onRead, onWrite and onUDP look at the pointer under the lock, ...        *)
Dispatch(event) ==
    /\ thread["media"].pc = "idle"
    /\ events[event]
    /\ \A e \in Events : events[e] => Order[event] <= Order[e]
    /\ events' = [events EXCEPT ![event] = FALSE]
    /\ thread' = IF Named(event) = NoSample THEN thread
                 ELSE [thread EXCEPT !["media"] =
                         [IdleThread EXCEPT !.pc = "checked", !.event = event]]
    /\ UNCHANGED <<sample, sending, receiving, out, in, starts, fault, troubles>>

Enters(t, s) ==
    /\ thread' = [thread EXCEPT ![t].pc = "process", ![t].s = s,
                                ![t].event = "none"]
    /\ Trouble({what \in {"both"} : Shared(t, s)})

(* ... and without it when they call process().                             *)
OnEvent ==
    LET s == Named(thread["media"].event)
    IN /\ thread["media"].pc = "checked"
       /\ thread["media"].event # "udp"
       /\ IF s = NoSample \/ (s # NoSample /\ ~sample[s].alive)
          THEN Faults("media")
          ELSE Enters("media", s) /\ UNCHANGED fault
       /\ UNCHANGED <<sample, sending, receiving, out, in, events, starts>>

HasRoom(s) == sample[s].fed < Room

IsWaiting(s) == sample[s].state = "waiting"

(* UDPStream::udp: a datagram, with a whole chunk or not.  When there is no *)
(* room the data is discarded but for a chunk, and the second recvfrom()    *)
(* throws because there is nothing more to read.                            *)
Receives(s) ==
    IF ~HasRoom(s)
    THEN /\ sample' = [sample EXCEPT ![s].fed = 1]
         /\ thread' = Returns("media")
         /\ UNCHANGED <<out, troubles>>
    ELSE \E n \in 0..1 :
           LET fed == sample[s].fed + n
           IN IF fed = 0
              THEN /\ thread' = Returns("media")
                   /\ UNCHANGED <<sample, out, troubles>>
              ELSE IF IsWaiting(s)
              THEN \* startOutput
                   /\ sample' = [sample EXCEPT ![s].fed = fed, ![s].state = "active"]
                   /\ out' = Replay(0, 1, TRUE)
                   /\ thread' = [thread EXCEPT !["media"].pc = "first",
                                               !["media"].s = s,
                                               !["media"].event = "none",
                                               !["media"].chunk = 1]
                   /\ Calm
              ELSE /\ sample' = [sample EXCEPT ![s].fed = fed]
                   /\ Enters("media", s)
                   /\ UNCHANGED out

OnUDP ==
    LET s == sending
    IN /\ thread["media"].pc = "checked"
       /\ thread["media"].event = "udp"
       /\ IF s = NoSample \/ (s # NoSample /\ ~sample[s].alive)
          THEN Faults("media") /\ UNCHANGED <<sample, out>>
          ELSE /\ IF KindOf[s] = "udp" THEN Receives(s)
                  ELSE thread' = Returns("media") /\ UNCHANGED <<sample, out, troubles>>
               /\ UNCHANGED fault
       /\ UNCHANGED <<sending, receiving, in, events, starts>>

----------------------------------------------------------------------------
(*                      process(), on either thread                         *)

StatusOf(s) ==
    IF KindOf[s] = "record" THEN RecordStatus
    ELSE IF KindOf[s] = "tones" THEN ToneStatus ELSE ReplayStatus

(* One round of the loop asks the board first.                              *)
Polls(t) ==
    LET s == thread[t].s
    IN /\ thread[t].pc = "process"
       /\ IF ~sample[s].alive THEN Faults(t)
          ELSE /\ UNCHANGED fault
               /\ IF KindOf[s] = "udp" /\ sample[s].fed = 0
                  THEN /\ thread' = Returns(t)
                       /\ Trouble({what \in {"hungry"} :
                                      sample[s].state = "stopping"})
                  ELSE /\ thread' = [thread EXCEPT ![t].pc = "saw",
                                                   ![t].seen = StatusOf(s)]
                       /\ Calm
       /\ UNCHANGED <<sample, sending, receiving, out, in, events, starts>>

(* There is nothing to do until the board's next event.                     *)
Leaves(t) ==
    /\ thread[t].pc = "saw"
    /\ thread[t].seen \in {"full", "all data", "no data"}
    /\ thread' = Returns(t)
    /\ UNCHANGED <<sample, sending, receiving, out, in, events, starts, fault,
                   troubles>>

\* Variant: leaves when it has read what there was
ReadsOnce(t) ==
    LET s == thread[t].s
    IN /\ thread[t].pc = "saw" /\ thread[t].seen = "data"
       /\ in' = [in EXCEPT !.data = 0]
       /\ thread' = Returns(t)
       /\ UNCHANGED <<sample, sending, receiving, out, events, starts, fault,
                      troubles>>

(* RecordFileSample::receive                                                *)
Receive(t) ==
    /\ thread[t].pc = "saw" /\ thread[t].seen = "data"
    /\ in' = [in EXCEPT !.data = 0]
    /\ thread' = Goes(t, "process")
    /\ UNCHANGED <<sample, sending, receiving, out, events, starts, fault,
                   troubles>>

(* submit(): a file's position moves with the read, a beep's after the      *)
(* chunk was put.  Chunk 0 has no data.                                     *)
NextChunk(s) == IF sample[s].next > Length(s) THEN 0 ELSE sample[s].next

Submit(t) ==
    LET s == thread[t].s
    IN /\ thread[t].pc = "saw" /\ thread[t].seen = "capacity"
       /\ IF ~sample[s].alive THEN Faults(t) /\ UNCHANGED sample
          ELSE /\ sample' = IF KindOf[s] # "file" \/ NextChunk(s) = 0 THEN sample
                            ELSE [sample EXCEPT ![s].next = @ + 1]
               /\ thread' = [thread EXCEPT
                     ![t].pc = "put",
                     ![t].chunk = IF KindOf[s] = "udp" THEN 1 ELSE NextChunk(s)]
               /\ UNCHANGED <<fault, troubles>>
       /\ UNCHANGED <<sending, receiving, out, in, events, starts>>

Accepts ==
    /\ out.job = "replay" /\ ~out.ended /\ out.buffered < Buffers
    /\ ~AllData(out)

IsPut(o, chunk) ==
    IF o.endless THEN [o EXCEPT !.buffered = @ + 1]
    ELSE [o EXCEPT !.buffered = @ + 1, !.owed = @ - 1, !.got = @ + 1,
                   !.garbled = @ \/ chunk # o.got + 1]

(* sm_put_replay_data, of what was read before.  If the board does not take *)
(* it, because it was aborted or the other thread has filled it, the error  *)
(* ends process().  A file at its end ends it as well, a beep polls again.  *)
Put(t) ==
    LET s == thread[t].s
        chunk == thread[t].chunk
    IN /\ thread[t].pc \in {"put", "first"}
       /\ IF ~sample[s].alive THEN Faults(t) /\ UNCHANGED <<sample, out>>
          ELSE /\ UNCHANGED <<fault, troubles>>
               /\ IF chunk = 0
                  THEN /\ thread' = IF KindOf[s] = "beep" THEN Goes(t, "process")
                                                          ELSE Returns(t)
                       /\ UNCHANGED <<sample, out>>
                  ELSE IF ~Accepts
                  THEN thread' = Returns(t) /\ UNCHANGED <<sample, out>>
                  ELSE \* startOutput puts what it has and does not poll
                       /\ out' = IsPut(out, chunk)
                       /\ sample' = [sample EXCEPT
                             ![s].next = IF KindOf[s] = "beep" /\ @ <= BeepChunks
                                         THEN @ + 1 ELSE @,
                             ![s].fed = IF KindOf[s] = "udp" /\ @ > 0
                                        THEN @ - 1 ELSE @]
                       /\ thread' = IF thread[t].pc = "first"
                                    THEN Returns(t) ELSE Goes(t, "process")
       /\ UNCHANGED <<sending, receiving, in, events, starts>>

IsLastBeep(s) == sample[s].count + 1 = Beeps

(* m_count is bounded here, not in the code.                                *)
RewindsBeep(s) ==
    [sample EXCEPT ![s].count = IF @ > Beeps THEN @ ELSE @ + 1, ![s].next = 1]

(* Beep::process at the end of a beep that is not the last: it calls        *)
(* start(), whether it was stopped or not.                                  *)
NextBeep(t) ==
    LET s == thread[t].s
    IN /\ thread[t].pc = "saw" /\ thread[t].seen = "complete"
       /\ sample[s].alive /\ KindOf[s] = "beep" /\ ~IsLastBeep(s)
       /\ sample' = RewindsBeep(s)
       /\ thread' = Goes(t, "again")
       /\ UNCHANGED <<sending, receiving, out, in, events, starts, fault,
                      troubles>>

StartsAgain(t) ==
    LET s == thread[t].s
    IN /\ thread[t].pc = "again"
       /\ IF ~sample[s].alive
          THEN Faults(t) /\ UNCHANGED <<sample, sending, out>>
          ELSE /\ sample' = [sample EXCEPT ![s].state = "active"]
               /\ sending' = s
               /\ out' = Replay(BeepChunks, 1, FALSE)
               /\ thread' = [thread EXCEPT ![t].pc = "process", ![t].starting = TRUE]
               /\ Trouble({what \in {"beeps"} : sample[s].wanted # "none"})
               /\ UNCHANGED fault
       /\ UNCHANGED <<receiving, in, events, starts>>

(* RecordFileSample::process: unless stop() was called with V3_STOPPED, the *)
(* status is why the board has ended it.                                    *)
FinalStatus(s) ==
    IF KindOf[s] = "record" /\ sample[s].status \notin {"stopped", "timeout"}
    THEN in.reason
    ELSE sample[s].status

Finished(s, status) ==
    [sample EXCEPT ![s].state = "idle", ![s].status = status,
                   ![s].count = IF KindOf[s] = "beep" /\ @ <= Beeps THEN @ + 1 ELSE @]

\* Variant: leaves m_sending as it is
StaysSender(s) == sending

SenderAfter(s) == IF IsOutgoing(s) THEN NoSample ELSE sending

(* The board is done: the sample is idle and no longer the channel's, ...   *)
Finishes(t) ==
    LET s == thread[t].s
    IN /\ thread[t].pc = "saw" /\ thread[t].seen = "complete"
       /\ KindOf[s] = "beep" => IsLastBeep(s)
       /\ IF ~sample[s].alive
          THEN Faults(t) /\ UNCHANGED <<sample, sending, receiving>>
          ELSE /\ sample' = Finished(s, FinalStatus(s))
               /\ sending' = SenderAfter(s)
               /\ receiving' = IF IsOutgoing(s) THEN receiving ELSE NoSample
               /\ thread' = Goes(t, "done")
               /\ Trouble({what \in {"hasty"} : thread[t].starting})
               /\ UNCHANGED fault
       /\ UNCHANGED <<out, in, events, starts>>

\* Variant: goes on with the loop afterwards
IsTellingAgain(t, s) == Goes(t, "process")

IsTold(t, s) == [Goes(t, "told") EXCEPT ![t].held = TRUE]

(* ... and phone->completed(this) tells the Sequencer, which may delete the *)
(* sample with its molecule.                                                *)
Tells(t) ==
    LET s == thread[t].s
    IN /\ thread[t].pc = "done"
       /\ MayLock(t)
       /\ IF ~sample[s].alive THEN Faults(t) /\ UNCHANGED sample
          ELSE /\ \E keep \in BOOLEAN :
                     sample' = [sample EXCEPT
                        ![s].owed = @ - 1, ![s].wanted = "none",
                        ![s].alive = keep, ![s].open = @ /\ keep]
               /\ thread' = IsTold(t, s)
               /\ UNCHANGED <<fault, troubles>>
       /\ UNCHANGED <<sending, receiving, out, in, events, starts>>

(* The Sequencer has started nothing more.  process() uses the sample no    *)
(* more, but start() returns its position.                                  *)
Told(t) ==
    /\ thread[t].pc = "told"
    /\ IF thread[t].starting /\ ~sample[thread[t].s].alive
       THEN Faults(t)
       ELSE thread' = Returns(t) /\ UNCHANGED <<fault, troubles>>
    /\ UNCHANGED <<sample, sending, receiving, out, in, events, starts>>

----------------------------------------------------------------------------

Starts(t, s) ==
    \/ StartReplay(t, s)
    \/ StartTones(t, s)
    \/ StartUDP(t, s)
    \/ StartRecord(t, s)

Process(t) ==
    \/ Polls(t)
    \/ Leaves(t)
    \/ Receive(t)
    \/ Submit(t)
    \/ Put(t)
    \/ NextBeep(t)
    \/ StartsAgain(t)
    \/ Finishes(t)
    \/ Tells(t)
    \/ Told(t)

Client ==
    \E s \in Samples :
        \/ \E t \in Threads : Starts(t, s)
        \/ \E status \in StopsWith(s) : Stop(s, status)
        \/ StopTooEarly(s)

Dispatcher ==
    \/ \E event \in Events : Dispatch(event)
    \/ OnEvent
    \/ OnUDP

Board ==
    \/ Plays
    \/ TonesEnd
    \/ Hears
    \/ RecordEnds
    \/ DatagramArrives

(* After a fault there is no telling what the program does.                 *)
Next ==
    /\ ~fault
    /\ \/ Client
       \/ Dispatcher
       \/ Abort
       \/ \E t \in Threads : Process(t)
       \/ Board

Spec == Init /\ [][Next]_vars

(* The board plays what it was given, and no thread waits but for an event  *)
(* or the Sequencer's mutex.  Nobody is obliged to start or stop a sample   *)
(* or to send datagrams, and no recording has to end.                       *)
Fairness ==
    /\ WF_vars(Plays)
    /\ WF_vars(TonesEnd)
    /\ WF_vars(Dispatcher \/ Process("media"))
    /\ WF_vars(Abort \/ Process("client"))

FairSpec == Spec /\ Fairness

----------------------------------------------------------------------------
(*                               Properties                                 *)

(* The board has room for what it is given (TypeOK) and gets the chunks of  *)
(* a file, or of a beep, one after the other.  No thread comes back to a    *)
(* sample that completed() has deleted, and the pointer that a handler      *)
(* tested under the lock is good without it.                                *)
Sound ==
    /\ TypeOK
    /\ troubles \cap {"both", "replayed"} = {} => ~out.garbled
    /\ troubles \cap {"both", "hasty", "tones"} = {} => ~fault

(* A sample that was started is reported at most once, however a stop, the  *)
(* end of its data and the signals of the board cross, as long as only one  *)
(* thread processes it at a time; and with the status it was stopped with,  *)
(* or the reason for which it ended.                                        *)
CompletedOnce ==
    troubles \cap {"both", "hasty", "tones"} = {} =>
        /\ \A s \in Samples : sample[s].owed \in 0..1
        /\ \A t \in Threads :
            LET s == thread[t].s
            IN thread[t].pc = "done" /\ troubles \cap {"relabelled", "remembered"} = {}
               => IF sample[s].wanted # "none"
                  THEN sample[s].status = sample[s].wanted
                  ELSE KindOf[s] = "record" <=> sample[s].status # "ok"

\* The board has still to report something of its own accord.
WillSignal(s) ==
    CASE KindOf[s] = "record" -> receiving = s /\ in.job = "record" /\ in.reason = "none"
      [] KindOf[s] = "tones"  -> sending = s /\ out.job = "tones" /\ ~out.ended
      [] KindOf[s] = "udp"    -> sending = s /\ sample[s].state # "stopping"
      [] OTHER -> sending = s /\ out.job = "replay" /\ ~out.ended /\ out.buffered > 0

(* No sample is forgotten: when both threads are idle and no event is set,  *)
(* the board will report on every sample that has not completed.  (Events   *)
(* are set once for many reasons, and the handlers return without a look at *)
(* the board when the pointer is null.)                                     *)
NotForgotten ==
    /\ thread["client"] = IdleThread /\ thread["media"] = IdleThread
    /\ ~events["read"] /\ ~events["write"]
    /\ troubles \cap {"both", "hasty", "tones", "replayed", "hungry", "waiting"} = {}
    => \A s \in Samples : sample[s].owed > 0 => WillSignal(s)

StopIsPending(outgoing) ==
    \E s \in Samples : IsOutgoing(s) = outgoing /\ sample[s].wanted # "none"

(* A sample that was stopped is reported in the end (there is one at a time *)
(* in each direction).                                                      *)
StopEnds ==
    \A outgoing \in BOOLEAN :
        StopIsPending(outgoing)
        ~> \/ ~StopIsPending(outgoing)
           \/ troubles \cap {"both", "hasty", "tones", "replayed", "hungry"} # {}
=============================================================================
