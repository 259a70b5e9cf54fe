------------------------------ MODULE Media_proofs ------------------------------
(****************************************************************************)
(* Why a media channel loses no sample and reports none twice, although two *)
(* threads fill the board's buffers and look for the ends of its samples,   *)
(* for any number of samples, starts, chunks and buffers.                   *)
(*                                                                          *)
(* First what each action does to the thread that takes it and to its       *)
(* sample.  Then the invariant: which thread is inside of which sample,     *)
(* which of them the channel and the board know, and, for a sample that is  *)
(* not reported yet, who will look at it next.                              *)
(****************************************************************************)
EXTENDS Media, TLAPS

ST == SampleType
TT == ThreadType
States == {"idle", "waiting", "active", "stopping"}

(* The samples whose data the threads put into the board's buffers          *)
Replayed == {"file", "beep", "udp"}

(* What the board may say of a sample                                       *)
SeenOf(kind) ==
    CASE kind = "record" -> {"data", "no data", "complete"}
      [] kind = "tones"  -> {"full", "complete"}
      [] OTHER           -> {"full", "all data", "capacity", "complete"}

(* What a thread knows where it is, ...                                     *)
Place(t) ==
    LET pc == thread[t].pc
        s == thread[t].s
    IN /\ pc \notin {"idle", "checked"} => s \in Samples
       /\ pc = "idle" => thread[t] = IdleThread
       /\ pc = "checked" => t = "media" /\ thread[t].event \in Events
       /\ pc = "saw" => thread[t].seen \in SeenOf(KindOf[s])
       /\ pc = "again" => KindOf[s] = "beep"
       /\ pc \in {"put", "first"} => KindOf[s] \in Replayed
       /\ pc \in {"put", "first"} /\ KindOf[s] = "udp" => thread[t].chunk = 1
       /\ pc = "first" => KindOf[s] = "udp"
       /\ pc = "abort" => t = "client"
       /\ pc = "abort" /\ KindOf[s] = "tones" => "tones" \in troubles
       /\ t = "client" /\ pc \in Processing =>
             KindOf[s] \in {"file", "beep"} /\ thread[t].starting

(* ... and which samples the channel's pointers may have.                   *)
Pointers ==
    /\ sending # NoSample => IsOutgoing(sending)
    /\ receiving # NoSample => ~IsOutgoing(receiving)

Places == (\A t \in Threads : Place(t)) /\ Pointers

(* A recording that was seen to be complete is: why is known.               *)
Reasons ==
    \A t \in Threads :
        thread[t].pc = "saw" /\ thread[t].seen = "complete"
          /\ KindOf[thread[t].s] = "record" => in.reason # "none"

(* The assumptions about the constants, one by one.                         *)
LEMMA Constants ==
    /\ \A s \in Samples : KindOf[s] \in Kinds
    /\ NoSample \notin Samples
    /\ Chunks \in Nat \ {0} /\ BeepChunks \in Nat \ {0} /\ Beeps \in Nat \ {0}
    /\ Buffers \in Nat \ {0} /\ Room \in Nat \ {0} /\ MaxStarts \in Nat
    /\ Troubles \subseteq AllTroubles
    /\ \A s \in Samples : Length(s) \in Nat \ {0}
  BY SamplesAssumption, BoundsAssumption DEF Length

----------------------------------------------------------------------------
(*                     What the actions do, field by field                  *)

(* The types of the fields of a sample                                      *)
LEMMA SampleFields ==
    ASSUME TypeOK, NEW s \in Samples
    PROVE  /\ sample[s] \in ST
           /\ sample[s].state \in States /\ sample[s].status \in Statuses
           /\ sample[s].next \in Nat \ {0} /\ sample[s].count \in 0..Beeps + 1
           /\ sample[s].fed \in 0..Room /\ sample[s].open \in BOOLEAN
           /\ sample[s].alive \in BOOLEAN /\ sample[s].owed \in Int
           /\ sample[s].wanted \in StopStatuses \cup {"none"}
  BY DEF TypeOK, SampleType, ST, States

(* ... and of a thread.                                                     *)
LEMMA ThreadFields ==
    ASSUME TypeOK, NEW t \in Threads
    PROVE  /\ thread[t] \in TT
           /\ thread[t].s \in Samples \cup {NoSample} /\ thread[t].chunk \in Nat
           /\ thread[t].held \in BOOLEAN /\ thread[t].starting \in BOOLEAN
           /\ thread[t].event \in Events \cup {"none"}
  BY DEF TypeOK, ThreadType, TT

(* Only thread t moves.                                                     *)
Moves(t) ==
    /\ thread' \in [Threads -> TT]
    /\ \A u \in Threads \ {t} : thread'[u] = thread[u]

Idles(t) == Moves(t) /\ thread'[t] = IdleThread

(* Thread t goes on elsewhere with the same sample.                         *)
GoesOn(t, pc) ==
    /\ Moves(t)
    /\ thread'[t].pc = pc /\ thread'[t].s = thread[t].s
    /\ thread'[t].starting = thread[t].starting

(* Only sample s changes, and is neither deleted nor reported.              *)
Alters(s) ==
    /\ sample' \in [Samples -> ST]
    /\ \A v \in Samples \ {s} : sample'[v] = sample[v]
    /\ sample'[s].alive = sample[s].alive
    /\ sample'[s].owed = sample[s].owed

(* The samples are the same but for the data that wait in a UDPStream.      *)
Alike(s) ==
    /\ sample'[s].state = sample[s].state
    /\ sample'[s].status = sample[s].status
    /\ sample'[s].next = sample[s].next
    /\ sample'[s].alive = sample[s].alive
    /\ sample'[s].owed = sample[s].owed
    /\ sample'[s].wanted = sample[s].wanted

AllAlike ==
    /\ sample' \in [Samples -> ST]
    /\ \A s \in Samples : Alike(s)

Grows == troubles \subseteq troubles'

(* A thread's record is replaced, ...                                       *)
LEMMA ThreadReplaced ==
    ASSUME TypeOK, NEW t \in Threads, NEW r \in TT, thread' = [thread EXCEPT ![t] = r]
    PROVE  Moves(t) /\ thread'[t] = r
  BY DEF TypeOK, Moves, TT

(* ... or that of a sample.                                                 *)
LEMMA SampleReplaced ==
    ASSUME TypeOK, NEW s \in Samples, NEW r \in ST, sample' = [sample EXCEPT ![s] = r]
    PROVE  /\ sample' \in [Samples -> ST] /\ sample'[s] = r
           /\ \A v \in Samples \ {s} : sample'[v] = sample[v]
  BY DEF TypeOK, ST

(* Where threads wait for something to do.                                  *)
LEMMA IdleType == IdleThread \in TT
  BY DEF TT, ThreadType, IdleThread

(* A thread that returns has nothing to do, ...                             *)
LEMMA Idling ==
    ASSUME TypeOK, NEW t \in Threads, thread' = Returns(t)
    PROVE  Idles(t)
  BY IdleType, ThreadReplaced DEF Returns, Idles

(* ... and one that goes on stays at its sample.                            *)
LEMMA GoingOn ==
    ASSUME TypeOK, NEW t \in Threads, NEW pc \in {"process", "again", "done"},
           thread' = Goes(t, pc)
    PROVE  GoesOn(t, pc)
<1> DEFINE r == [thread[t] EXCEPT !.pc = pc, !.seen = "none", !.chunk = 0]
<1>1. /\ r \in TT /\ r.pc = pc /\ r.s = thread[t].s
      /\ r.starting = thread[t].starting
  BY ThreadFields DEF TT, ThreadType
<1>2. thread' = [thread EXCEPT ![t] = r]
  BY DEF Goes, TypeOK
<1> HIDE DEF r
<1>. QED  BY <1>1, <1>2, ThreadReplaced DEF GoesOn

(* The types of the board                                                   *)
OutType ==
    [job : {"none", "replay", "tones"}, owed : Nat, endless : BOOLEAN, got : Nat,
     buffered : 0..Buffers, ended : BOOLEAN, garbled : BOOLEAN]

InType ==
    [job : {"none", "record"}, data : 0..1, left : 0..1,
     reason : {"none", "stopped", "timeout"}]

(* What the board is given to play, ...                                     *)
LEMMA ReplayType ==
    ASSUME NEW n \in Nat, NEW p \in Nat \ {0}, NEW endless \in BOOLEAN
    PROVE  Replay(n, p, endless) \in OutType
  BY Constants DEF Replay, OutType

(* ... tones among it.                                                      *)
LEMMA TonesType == [Silent EXCEPT !.job = "tones", !.ended = FALSE] \in OutType
<1>1. 0 \in Nat /\ 0 \in 0..Buffers /\ TRUE \in BOOLEAN /\ FALSE \in BOOLEAN
  BY Constants
<1>2. Silent \in OutType
  BY <1>1 DEF Silent, OutType
<1>. QED  BY <1>1, <1>2 DEF OutType

(* The types follow from those of what has changed.                         *)
LEMMA TypesOf ==
    ASSUME TypeOK, sample' \in [Samples -> ST], thread' \in [Threads -> TT],
           {sending', receiving'} \subseteq Samples \cup {NoSample},
           out' \in OutType, in' \in InType, events' \in [Events -> BOOLEAN],
           fault' \in BOOLEAN, starts' = starts, troubles' \subseteq Troubles
    PROVE  TypeOK'
  BY DEF TypeOK, ST, TT, OutType, InType

(* The types of the variables, one by one.                                  *)
LEMMA OldTypes ==
    ASSUME TypeOK
    PROVE  /\ sample \in [Samples -> ST] /\ thread \in [Threads -> TT]
           /\ sending \in Samples \cup {NoSample}
           /\ receiving \in Samples \cup {NoSample}
           /\ out \in OutType /\ in \in InType /\ events \in [Events -> BOOLEAN]
           /\ fault \in BOOLEAN /\ troubles \subseteq Troubles
  BY DEF TypeOK, ST, TT, OutType, InType

----------------------------------------------------------------------------
(* start(): nothing else plays in this direction.                           *)
Started(t, s) ==
    /\ \A u \in Others(s) \cup {s} : sample[u].owed <= 0
    /\ troubles \cap {"both", "hasty"} = {} /\ Grows
    /\ "remembered" \notin troubles' => sample[s].status = "ok"
    /\ "replayed" \notin troubles' /\ KindOf[s] = "beep" => sample[s].next = 1
    /\ thread[t].pc \in {"idle", "told"}
    /\ sample[s].alive /\ sample'[s].alive
    /\ sample' \in [Samples -> ST]
    /\ \A v \in Samples \ {s} : sample'[v] = sample[v]
    /\ sample'[s].state = IF KindOf[s] = "udp" THEN "waiting" ELSE "active"
    /\ sample'[s].owed = sample[s].owed + 1
    /\ sample'[s].status = sample[s].status /\ sample'[s].wanted = "none"
    /\ sending' = IF IsOutgoing(s) THEN s ELSE sending
    /\ receiving' = IF IsOutgoing(s) THEN receiving ELSE s
    /\ IF KindOf[s] \in {"file", "beep"}
       THEN /\ Moves(t)
            /\ thread'[t].pc = "process" /\ thread'[t].s = s /\ thread'[t].starting
       ELSE Idles(t)
    /\ KindOf[s] = "file" => sample'[s].next \in 1..Chunks
    /\ KindOf[s] = "beep" => sample'[s].next = sample[s].next
    /\ LET p == sample'[s].next
       IN out' = CASE KindOf[s] = "file" -> Replay(Chunks - p + 1, p, FALSE)
                   [] KindOf[s] = "beep" -> Replay(BeepChunks, 1, FALSE)
                   [] KindOf[s] = "tones" ->
                         [Silent EXCEPT !.job = "tones", !.ended = FALSE]
                   [] OTHER -> out
    /\ in' = IF IsOutgoing(s) THEN in
             ELSE [job |-> "record", data |-> 0, left |-> 1, reason |-> "none"]
    /\ UNCHANGED <<events, fault>>

(* What start() makes of a sample, whichever it is, ...                     *)
LEMMA StartedSample ==
    ASSUME TypeOK, NEW s \in Samples, NEW x \in States, NEW n \in Nat \ {0},
           sample' = IsStarted(s, x, n)
    PROVE  /\ sample' \in [Samples -> ST]
           /\ \A v \in Samples \ {s} : sample'[v] = sample[v]
           /\ sample'[s].state = x /\ sample'[s].next = n
           /\ sample'[s].owed = sample[s].owed + 1 /\ sample'[s].wanted = "none"
           /\ sample'[s].alive = sample[s].alive
           /\ sample'[s].status = sample[s].status
<1> DEFINE k == sample[s].owed + 1
           b == (sample[s].open \/ KindOf[s] = "udp")
           r == [sample[s] EXCEPT !.state = x, !.next = n, !.owed = k,
                                  !.wanted = "none", !.open = b]
<1>1. k \in Int /\ b \in BOOLEAN /\ sample[s] \in ST
  BY SampleFields
<1>2. r \in ST
  <2> HIDE DEF k, b
  <2>. QED  BY <1>1 DEF ST, SampleType, States
<1>3. sample' = [sample EXCEPT ![s] = r]
  BY DEF IsStarted, TypeOK
<1>4. /\ r.state = x /\ r.next = n /\ r.owed = sample[s].owed + 1
      /\ r.wanted = "none" /\ r.alive = sample[s].alive
      /\ r.status = sample[s].status
  BY <1>1 DEF ST, SampleType
<1> HIDE DEF r
<1>. QED  BY <1>2, <1>3, <1>4, SampleReplaced

(* ... and what was so when it was allowed.                                 *)
LEMMA StartAllowed ==
    ASSUME TypeOK, NEW t \in Threads, NEW s \in Samples, MayStart(t, s), Wears(s)
    PROVE  /\ \A u \in Others(s) \cup {s} : sample[u].owed <= 0
           /\ troubles \cap {"both", "hasty"} = {} /\ Grows
           /\ troubles' \subseteq Troubles
           /\ "remembered" \notin troubles' => sample[s].status = "ok"
           /\ "replayed" \notin troubles' /\ KindOf[s] = "beep" => sample[s].next = 1
           /\ thread[t].pc \in {"idle", "told"}
           /\ sample[s].alive
           /\ starts < MaxStarts
<1>1. "replayed" \notin troubles' /\ KindOf[s] = "beep" => ~(sample[s].next > 1)
  BY DEF Wears, Trouble
<1>. QED  BY <1>1, SampleFields DEF MayStart, Wears, Trouble, TypeOK, Grows

(* Each of the five kinds of samples is started like this.                  *)
LEMMA StartEffect ==
    ASSUME TypeOK, NEW t \in Threads, NEW s \in Samples, Starts(t, s)
    PROVE  Started(t, s) /\ TypeOK'
<1> USE Constants
<1>1. KindOf[s] \in Kinds /\ (IsOutgoing(s) <=> KindOf[s] # "record")
  BY DEF IsOutgoing
<1>2. /\ MayStart(t, s) /\ Wears(s) /\ UNCHANGED <<events, fault>>
      /\ starts' = starts + 1
  BY DEF Starts, StartReplay, StartTones, StartUDP, StartRecord
<1>3. PICK p \in Nat \ {0} :
        /\ sample' = IsStarted(s, IF KindOf[s] = "udp" THEN "waiting" ELSE "active", p)
        /\ KindOf[s] = "file" => p \in 1..Chunks
        /\ KindOf[s] = "beep" => p = sample[s].next
        /\ out' = CASE KindOf[s] = "file" -> Replay(Chunks - p + 1, p, FALSE)
                    [] KindOf[s] = "beep" -> Replay(BeepChunks, 1, FALSE)
                    [] KindOf[s] = "tones" ->
                          [Silent EXCEPT !.job = "tones", !.ended = FALSE]
                    [] OTHER -> out
  <2>1. CASE StartReplay(t, s) /\ KindOf[s] = "file"
    <3>1. PICK p \in 1..Chunks : /\ sample' = IsStarted(s, "active", p)
                                 /\ out' = Replay(Chunks - p + 1, p, FALSE)
      BY <2>1 DEF StartReplay
    <3>2. p \in Nat \ {0} /\ KindOf[s] = "file"
      BY <2>1, <3>1
    <3>. QED  BY <3>1, <3>2
  <2>2. CASE StartReplay(t, s) /\ KindOf[s] = "beep"
    <3>1. /\ sample' = IsStarted(s, "active", sample[s].next)
          /\ out' = Replay(BeepChunks, 1, FALSE)
      BY <2>2 DEF StartReplay
    <3>. QED  BY <2>2, <3>1, SampleFields
  <2>3. CASE StartTones(t, s)
    BY <2>3 DEF StartTones
  <2>4. CASE StartUDP(t, s)
    BY <2>4 DEF StartUDP
  <2>5. CASE StartRecord(t, s)
    BY <2>5 DEF StartRecord
  <2>. QED  BY <2>1, <2>2, <2>3, <2>4, <2>5 DEF Starts, StartReplay
<1>4. IF KindOf[s] \in {"file", "beep"}
      THEN /\ Moves(t)
           /\ thread'[t].pc = "process" /\ thread'[t].s = s /\ thread'[t].starting
      ELSE Idles(t)
  <2> DEFINE r == [IdleThread EXCEPT !.pc = "process", !.s = s, !.held = TRUE,
                                     !.starting = TRUE]
  <2>1. r \in TT /\ r.pc = "process" /\ r.s = s /\ r.starting
    BY DEF TT, ThreadType, IdleThread
  <2>2. CASE StartReplay(t, s)
    <3>1. thread' = [thread EXCEPT ![t] = r] /\ KindOf[s] \in {"file", "beep"}
      BY <2>2 DEF StartReplay, Fills
    <3> HIDE DEF r
    <3>2. Moves(t) /\ thread'[t] = r
      BY <2>1, <3>1, ThreadReplaced
    <3>. QED  BY <2>1, <3>1, <3>2
  <2>3. CASE ~StartReplay(t, s)
    BY <2>3, Idling DEF Starts, StartTones, StartUDP, StartRecord
  <2>. QED  BY <2>2, <2>3
<1>5. /\ sending' = IF IsOutgoing(s) THEN s ELSE sending
      /\ receiving' = IF IsOutgoing(s) THEN receiving ELSE s
      /\ in' = IF IsOutgoing(s) THEN in
               ELSE [job |-> "record", data |-> 0, left |-> 1, reason |-> "none"]
  BY <1>1 DEF Starts, StartReplay, StartTones, StartUDP, StartRecord
<1>6. /\ sample' \in [Samples -> ST]
      /\ \A v \in Samples \ {s} : sample'[v] = sample[v]
      /\ sample'[s].state = (IF KindOf[s] = "udp" THEN "waiting" ELSE "active")
      /\ sample'[s].next = p
      /\ sample'[s].owed = sample[s].owed + 1 /\ sample'[s].wanted = "none"
      /\ sample'[s].alive = sample[s].alive
      /\ sample'[s].status = sample[s].status
  BY <1>3, StartedSample DEF States
<1>7. Started(t, s)
  BY ZenonT(30), <1>2, <1>3, <1>4, <1>5, <1>6, StartAllowed DEF Started
<1>8. out' \in OutType
  <2>1. CASE KindOf[s] = "file"
    <3>1. Chunks - p + 1 \in Nat
      BY <1>3, <2>1
    <3> DEFINE n == Chunks - p + 1
    <3> HIDE DEF n
    <3>2. n \in Nat /\ p \in Nat \ {0} /\ FALSE \in BOOLEAN
      BY <3>1 DEF n
    <3>3. Replay(n, p, FALSE) \in OutType
      BY <3>2, ReplayType
    <3>. QED  BY <1>3, <2>1, <3>3 DEF n
  <2>2. CASE KindOf[s] = "beep"
    <3>1. BeepChunks \in Nat /\ 1 \in Nat \ {0} /\ FALSE \in BOOLEAN
      OBVIOUS
    <3>3. Replay(BeepChunks, 1, FALSE) \in OutType
      BY ONLY <3>1, ReplayType
    <3>. QED  BY <1>3, <2>2, <3>3
  <2>3. CASE KindOf[s] = "tones"
    BY <1>3, <2>3, TonesType
  <2>4. CASE KindOf[s] \in {"udp", "record"}
    BY <1>3, <2>4, OldTypes
  <2>. QED  BY <1>1, <2>1, <2>2, <2>3, <2>4 DEF Kinds
<1>12. in' \in InType
  BY <1>5, OldTypes DEF InType
<1>9. starts' \in 0..MaxStarts /\ troubles' \subseteq Troubles
  BY <1>2, StartAllowed DEF TypeOK
<1>10. {sending', receiving'} \subseteq Samples \cup {NoSample}
  BY <1>5 DEF TypeOK
<1>11. thread' \in [Threads -> TT]
  BY <1>4 DEF Moves, Idles
<1>. QED  BY <1>2, <1>6, <1>7, <1>8, <1>9, <1>10, <1>11, <1>12
          DEF TypeOK, ST, TT, InType, OutType

----------------------------------------------------------------------------
(* stop(), its two halves                                                   *)
StoppedBy(s, status) ==
    /\ thread["client"].pc = "idle"
    /\ sample[s].alive /\ sample[s].owed > 0 /\ sample[s].state = "active"
    /\ Alters(s)
    /\ sample'[s].state = "stopping" /\ sample'[s].status = status
    /\ sample'[s].wanted = status /\ sample'[s].next = sample[s].next
    /\ status \in StopStatuses /\ (KindOf[s] # "record" => status = "stopped")
    /\ Moves("client")
    /\ thread'["client"].pc = "abort" /\ thread'["client"].s = s
    /\ Grows
    /\ "tones" \notin troubles' => KindOf[s] # "tones"
    /\ "relabelled" \notin troubles' /\ KindOf[s] = "record" => status = "stopped"
    /\ UNCHANGED <<sending, receiving, out, in, events, fault>>

(* The first half of stop() does that.                                      *)
LEMMA StopEffect ==
    ASSUME TypeOK, NEW s \in Samples, NEW status \in StopsWith(s), Stop(s, status)
    PROVE  StoppedBy(s, status) /\ TypeOK'
<1> DEFINE q == [sample[s] EXCEPT !.state = "stopping", !.status = status,
                                  !.wanted = status]
           r == [IdleThread EXCEPT !.pc = "abort", !.s = s, !.held = TRUE]
<1>1. status \in StopStatuses /\ (KindOf[s] # "record" => status = "stopped")
  BY DEF StopsWith, StopStatuses
<1>2. /\ q \in ST /\ q.state = "stopping" /\ q.status = status /\ q.wanted = status
      /\ q.next = sample[s].next /\ q.alive = sample[s].alive
      /\ q.owed = sample[s].owed
  BY <1>1, SampleFields DEF ST, SampleType, StopStatuses, Statuses
<1>3. r \in TT /\ r.pc = "abort" /\ r.s = s
  BY DEF TT, ThreadType, IdleThread
<1>4. sample' = [sample EXCEPT ![s] = q] /\ thread' = [thread EXCEPT !["client"] = r]
  BY DEF Stop, Stopping, TypeOK
<1> HIDE DEF q, r
<1>5. Alters(s) /\ sample'[s] = q
  BY <1>2, <1>4, SampleReplaced DEF Alters
<1>6. Moves("client") /\ thread'["client"] = r
  BY <1>3, <1>4, ThreadReplaced DEF Threads
<1>7. StoppedBy(s, status)
  BY <1>1, <1>2, <1>3, <1>5, <1>6 DEF Stop, StoppedBy, StopTroubles, Trouble, Grows
<1>. QED  BY <1>5, <1>6, <1>7, TypesOf, OldTypes DEF Stop, Trouble, Alters, Moves

AbortedBy(s) ==
    /\ thread["client"].pc = "abort" /\ thread["client"].s = s
    /\ IF IsOutgoing(s)
       THEN /\ out' = [out EXCEPT !.ended = TRUE] /\ in' = in
            /\ events' = [events EXCEPT !["write"] = TRUE]
       ELSE /\ in' = Aborted(in) /\ out' = out
            /\ events' = [events EXCEPT !["read"] = TRUE]
    /\ IF KindOf[s] = "tones" THEN GoesOn("client", "done") ELSE Idles("client")
    /\ UNCHANGED <<sample, sending, receiving, fault, troubles>>

(* The board can be told to end, ...                                        *)
LEMMA EndedType ==
    ASSUME NEW o \in OutType
    PROVE  [o EXCEPT !.ended = TRUE] \in OutType
  BY DEF OutType

(* ... a recording as well.                                                 *)
LEMMA AbortedType ==
    ASSUME NEW i \in InType
    PROVE  Aborted(i) \in InType
<1> DEFINE reason == IF i.reason = "none" THEN "stopped" ELSE i.reason
<1>1. reason \in {"none", "stopped", "timeout"}
  BY DEF InType
<1>2. Aborted(i) = [i EXCEPT !.reason = reason]
  BY DEF Aborted
<1> HIDE DEF reason
<1>. QED  BY <1>1, <1>2 DEF InType

(* The second half of stop() does that.                                     *)
LEMMA AbortEffect ==
    ASSUME TypeOK, Abort
    PROVE  AbortedBy(thread["client"].s) /\ TypeOK'
<1>1. "client" \in Threads
  BY DEF Threads
<1>2. AbortedBy(thread["client"].s)
  BY <1>1, Idling, GoingOn DEF Abort, AbortedBy
<1>3. [out EXCEPT !.ended = TRUE] \in OutType
  BY OldTypes, EndedType
<1>4. Aborted(in) \in InType
  BY OldTypes, AbortedType
<1>5. out' \in OutType /\ in' \in InType
  BY <1>2, <1>3, <1>4, OldTypes DEF AbortedBy
<1>6. events' \in [Events -> BOOLEAN]
  BY <1>2, OldTypes DEF AbortedBy
<1>7. thread' \in [Threads -> TT]
  BY <1>2 DEF AbortedBy, Idles, GoesOn, Moves
<1>8. UNCHANGED <<sample, sending, receiving, starts, fault, troubles>>
  BY DEF Abort
<1>. QED  BY <1>2, <1>5, <1>6, <1>7, <1>8, TypesOf, OldTypes

(* The dispatcher: an event is looked at, ...                               *)
Dispatched(event) ==
    /\ thread["media"].pc = "idle" /\ events[event]
    /\ events' = [events EXCEPT ![event] = FALSE]
    /\ IF Named(event) = NoSample THEN UNCHANGED thread
       ELSE /\ Moves("media")
            /\ thread'["media"].pc = "checked" /\ thread'["media"].event = event
    /\ UNCHANGED <<sample, sending, receiving, out, in, fault, troubles>>

(* The dispatcher looks at one event.                                       *)
LEMMA DispatchEffect ==
    ASSUME TypeOK, NEW event \in Events, Dispatch(event)
    PROVE  Dispatched(event) /\ TypeOK'
<1> DEFINE r == [IdleThread EXCEPT !.pc = "checked", !.event = event]
<1>1. r \in TT /\ r.pc = "checked" /\ r.event = event
  BY DEF TT, ThreadType, IdleThread
<1>2. thread' = IF Named(event) = NoSample THEN thread
                ELSE [thread EXCEPT !["media"] = r]
  BY DEF Dispatch
<1> HIDE DEF r
<1>3. Named(event) # NoSample => Moves("media") /\ thread'["media"] = r
  BY <1>1, <1>2, ThreadReplaced DEF Threads
<1>4. Dispatched(event)
  BY <1>1, <1>2, <1>3 DEF Dispatch, Dispatched
<1>. QED  BY <1>2, <1>3, <1>4, TypesOf, OldTypes DEF Dispatch, Moves

(* ... a thread finds the object gone, ...                                  *)
Failed(t) ==
    /\ LET s == thread[t].s
           pc == thread[t].pc
       IN \/ /\ pc = "checked"
             /\ LET n == Named(thread[t].event)
                IN n = NoSample \/ (n \in Samples /\ ~sample[n].alive)
          \/ pc = "told" /\ thread[t].starting
          \/ pc \in Processing \cup {"done"} /\ ~sample[s].alive
    /\ fault' = TRUE
    /\ Idles(t)
    /\ UNCHANGED <<sample, sending, receiving, out, in, events, troubles>>

(* Nothing else happens then.                                               *)
LEMMA FailedType ==
    ASSUME TypeOK, NEW t \in Threads, Failed(t), starts' = starts
    PROVE  TypeOK'
  BY TypesOf, OldTypes DEF Failed, Idles, Moves

(* ... it enters process(), ...                                             *)
Entered(s) ==
    /\ thread["media"].pc = "checked" /\ s # NoSample
    /\ s = Named(thread["media"].event) /\ sample[s].alive
    /\ Moves("media")
    /\ thread'["media"].pc = "process" /\ thread'["media"].s = s
    /\ AllAlike
    /\ Grows /\ ("both" \notin troubles' => ~Shared("media", s))
    /\ UNCHANGED <<sending, receiving, out, in, events, fault>>

(* The media thread enters, and may meet the other.                         *)
LEMMA EnteringEffect ==
    ASSUME TypeOK, NEW s \in Samples, Enters("media", s)
    PROVE  /\ Moves("media")
           /\ thread'["media"].pc = "process" /\ thread'["media"].s = s
           /\ Grows /\ ("both" \notin troubles' => ~Shared("media", s))
           /\ troubles' \subseteq Troubles
<1> DEFINE r == [thread["media"] EXCEPT !.pc = "process", !.s = s, !.event = "none"]
<1>1. "media" \in Threads
  BY DEF Threads
<1>2. r \in TT /\ r.pc = "process" /\ r.s = s
  BY <1>1, ThreadFields DEF TT, ThreadType
<1>3. thread' = [thread EXCEPT !["media"] = r]
  BY DEF Enters, TypeOK
<1> HIDE DEF r
<1>4. Moves("media") /\ thread'["media"] = r
  BY <1>1, <1>2, <1>3, ThreadReplaced
<1>. QED  BY <1>2, <1>4 DEF Enters, Trouble, Grows, TypeOK

(* ... or there is nothing for it to do.                                    *)
Returned(t) ==
    /\ LET s == thread[t].s
           pc == thread[t].pc
       IN \/ pc = "process" /\ KindOf[s] = "udp"
             /\ ("hungry" \notin troubles' => sample[s].state # "stopping")
          \/ pc = "saw" /\ thread[t].seen \in {"full", "all data", "no data"}
          \/ pc \in {"put", "first"} /\ (thread[t].chunk = 0 \/ ~Accepts)
          \/ pc = "checked" /\ thread[t].event = "udp"
          \/ pc = "told"
    /\ Idles(t)
    /\ AllAlike
    /\ Grows
    /\ UNCHANGED <<sending, receiving, out, in, events, fault>>

(* Samples that do not change are alike, ...                                *)
LEMMA SameIsAlike == ASSUME TypeOK, UNCHANGED sample PROVE AllAlike
  BY OldTypes DEF AllAlike, Alike

(* ... and so are those of which a buffer is filled.                        *)
LEMMA FedIsAlike ==
    ASSUME TypeOK, NEW s \in Samples, NEW fed \in 0..Room,
           sample' = [sample EXCEPT ![s].fed = fed]
    PROVE  AllAlike
<1> DEFINE q == [sample[s] EXCEPT !.fed = fed]
<1>1. /\ q \in ST /\ q.state = sample[s].state /\ q.status = sample[s].status
      /\ q.next = sample[s].next /\ q.alive = sample[s].alive
      /\ q.owed = sample[s].owed /\ q.wanted = sample[s].wanted
  BY SampleFields DEF ST, SampleType
<1>2. sample' = [sample EXCEPT ![s] = q]
  OBVIOUS
<1> HIDE DEF q
<1>. QED  BY <1>1, <1>2, SampleReplaced DEF AllAlike, Alike

(* onRead() and onWrite() find the object gone, or enter.                   *)
LEMMA OnEventEffect ==
    ASSUME TypeOK, OnEvent
    PROVE  /\ TypeOK'
           /\ Failed("media") \/ \E s \in Samples : Entered(s)
<1> DEFINE s == Named(thread["media"].event)
<1>1. "media" \in Threads /\ s \in Samples \cup {NoSample}
  BY OldTypes DEF Threads, Named
<1>2. CASE s = NoSample \/ (s # NoSample /\ ~sample[s].alive)
  <2>1. Failed("media") /\ starts' = starts
    BY <1>1, <1>2, Idling DEF OnEvent, Faults, Calm, Failed
  <2>. QED  BY <1>1, <2>1, FailedType
<1>3. CASE ~(s = NoSample \/ (s # NoSample /\ ~sample[s].alive))
  <2>1. s \in Samples /\ Enters("media", s)
        /\ UNCHANGED <<sample, sending, receiving, out, in, events, starts, fault>>
        /\ thread["media"].pc = "checked"
    BY <1>1, <1>3 DEF OnEvent
  <2>2. Entered(s)
    BY <1>3, <2>1, EnteringEffect, SameIsAlike DEF Entered
  <2>. QED  BY <2>1, <2>2, EnteringEffect, TypesOf, OldTypes DEF Entered, Moves
<1>. QED  BY <1>2, <1>3

(* The first chunk of a UDPStream starts the board.                         *)
FirstOne(s) ==
    /\ thread["media"].pc = "checked" /\ thread["media"].event = "udp"
    /\ s = sending
    /\ KindOf[s] = "udp" /\ sample[s].state = "waiting" /\ sample[s].alive
    /\ Alters(s)
    /\ sample'[s].state = "active" /\ sample'[s].status = sample[s].status
    /\ sample'[s].wanted = sample[s].wanted
    /\ out' = Replay(0, 1, TRUE)
    /\ Moves("media")
    /\ thread'["media"].pc = "first" /\ thread'["media"].s = s
    /\ thread'["media"].chunk = 1
    /\ UNCHANGED <<sending, receiving, in, events, fault, troubles>>

(* onUDP() may start the board as well.                                     *)
LEMMA OnUDPEffect ==
    ASSUME TypeOK, OnUDP
    PROVE  /\ TypeOK'
           /\ \/ Failed("media")
              \/ Returned("media")
              \/ \E s \in Samples : Entered(s) \/ FirstOne(s)
<1> DEFINE s == sending
<1>1. /\ "media" \in Threads /\ s \in Samples \cup {NoSample}
      /\ thread["media"].pc = "checked" /\ thread["media"].event = "udp"
      /\ Named("udp") = s
      /\ UNCHANGED <<sending, receiving, in, events, starts>>
  BY OldTypes DEF OnUDP, Threads, Named
<1>2. CASE s = NoSample \/ (s # NoSample /\ ~sample[s].alive)
  <2>1. Failed("media")
    BY <1>1, <1>2, Idling DEF OnUDP, Faults, Calm, Failed
  <2>. QED  BY <1>1, <2>1, FailedType
<1>3. CASE ~(s = NoSample \/ (s # NoSample /\ ~sample[s].alive))
  <2> USE Constants
  <2>1. s \in Samples /\ sample[s].alive /\ fault' = fault
    BY <1>1, <1>3 DEF OnUDP
  <2>2. ASSUME thread' = Returns("media"), AllAlike, UNCHANGED <<out, troubles>>
        PROVE  Returned("media") /\ TypeOK'
    <3>1. Returned("media")
      BY <1>1, <2>1, <2>2, Idling DEF Returned, Grows
    <3>. QED  BY <1>1, <2>1, <2>2, <3>1, TypesOf, OldTypes
              DEF Returned, Idles, Moves, AllAlike
  <2>3. CASE KindOf[s] # "udp"
    BY <1>1, <2>1, <2>2, <2>3, <1>3, SameIsAlike DEF OnUDP
  <2>4. CASE KindOf[s] = "udp" /\ ~HasRoom(s)
    BY <1>1, <2>1, <2>2, <2>4, <1>3, FedIsAlike DEF OnUDP, Receives
  <2>5. CASE KindOf[s] = "udp" /\ HasRoom(s)
    <3>1. PICK n \in 0..1 :
            LET fed == sample[s].fed + n
            IN IF fed = 0
               THEN thread' = Returns("media") /\ UNCHANGED <<sample, out, troubles>>
               ELSE IF IsWaiting(s)
               THEN /\ sample' = [sample EXCEPT ![s].fed = fed, ![s].state = "active"]
                    /\ out' = Replay(0, 1, TRUE)
                    /\ thread' = [thread EXCEPT !["media"].pc = "first",
                                                !["media"].s = s,
                                                !["media"].event = "none",
                                                !["media"].chunk = 1]
                    /\ Calm
               ELSE /\ sample' = [sample EXCEPT ![s].fed = fed]
                    /\ Enters("media", s)
                    /\ UNCHANGED out
      BY <1>3, <2>5 DEF OnUDP, Receives
    <3> DEFINE fed == sample[s].fed + n
    <3>2. fed \in 0..Room
      BY <2>1, <2>5, SampleFields DEF HasRoom
    <3> HIDE DEF fed
    <3>3. CASE fed = 0
      BY <2>2, <3>1, <3>3, SameIsAlike DEF fed
    <3>4. CASE fed # 0 /\ ~IsWaiting(s)
      <4>1. /\ sample' = [sample EXCEPT ![s].fed = fed]
            /\ Enters("media", s) /\ UNCHANGED out
        BY <3>1, <3>4 DEF fed
      <4>2. AllAlike
        BY <2>1, <3>2, <4>1, FedIsAlike
      <4>3. Entered(s)
        BY <1>1, <1>3, <2>1, <4>1, <4>2, EnteringEffect DEF Entered
      <4>. QED  BY <1>1, <2>1, <4>1, <4>2, <4>3, EnteringEffect, TypesOf, OldTypes
                DEF AllAlike, Moves
    <3>5. CASE fed # 0 /\ IsWaiting(s)
      <4> DEFINE q == [sample[s] EXCEPT !.fed = fed, !.state = "active"]
                 r == [thread["media"] EXCEPT !.pc = "first", !.s = s,
                                              !.event = "none", !.chunk = 1]
      <4>1. /\ sample' = [sample EXCEPT ![s].fed = fed, ![s].state = "active"]
            /\ out' = Replay(0, 1, TRUE)
            /\ thread' = [thread EXCEPT !["media"].pc = "first",
                                        !["media"].s = s,
                                        !["media"].event = "none",
                                        !["media"].chunk = 1]
            /\ troubles' = troubles
        BY <3>1, <3>5 DEF fed, Calm
      <4>2. /\ q \in ST /\ q.state = "active" /\ q.status = sample[s].status
            /\ q.wanted = sample[s].wanted /\ q.alive = sample[s].alive
            /\ q.owed = sample[s].owed
        BY ZenonT(30), <2>1, <3>2, SampleFields DEF ST, SampleType
      <4>3. r \in TT /\ r.pc = "first" /\ r.s = s /\ r.chunk = 1
        <5>1. thread["media"] \in TT /\ 1 \in Nat
          BY <1>1, ThreadFields
        <5>. QED  BY <2>1, <5>1 DEF TT, ThreadType
      <4>4. sample' = [sample EXCEPT ![s] = q]
        BY <4>1, <2>1 DEF TypeOK
      <4>5. thread' = [thread EXCEPT !["media"] = r]
        BY <4>1, <1>1 DEF TypeOK
      <4> HIDE DEF q, r
      <4>6. Alters(s) /\ sample'[s] = q
        BY <2>1, <4>2, <4>4, SampleReplaced DEF Alters
      <4>7. Moves("media") /\ thread'["media"] = r
        BY <1>1, <4>3, <4>5, ThreadReplaced
      <4>8. FirstOne(s)
        BY <1>1, <2>1, <2>5, <3>5, <4>1, <4>2, <4>3, <4>6, <4>7
           DEF FirstOne, IsWaiting
      <4>9. out' \in OutType
        <5>1. 0 \in Nat /\ 1 \in Nat \ {0} /\ TRUE \in BOOLEAN
          OBVIOUS
        <5>2. Replay(0, 1, TRUE) \in OutType
          BY ONLY <5>1, ReplayType
        <5>. QED  BY <4>1, <5>2
      <4>. QED  BY <1>1, <2>1, <4>1, <4>6, <4>7, <4>8, <4>9, TypesOf, OldTypes
                DEF Alters, Moves
    <3>. QED  BY <3>3, <3>4, <3>5
  <2>. QED  BY <2>3, <2>4, <2>5
<1>. QED  BY <1>2, <1>3

----------------------------------------------------------------------------
(* process(): what the board says, ...                                      *)
Saw(t) ==
    /\ thread[t].pc = "process"
    /\ GoesOn(t, "saw") /\ thread'[t].seen = StatusOf(thread[t].s)
    /\ UNCHANGED <<sample, sending, receiving, out, in, events, fault, troubles>>

(* What the board says goes with what it does.                              *)
LEMMA StatusType ==
    ASSUME NEW s \in Samples
    PROVE  StatusOf(s) \in SeenOf(KindOf[s])
  BY Constants DEF StatusOf, SeenOf, RecordStatus, ToneStatus, ReplayStatus

(* The status is read, unless a stream has nothing to play.                 *)
LEMMA PollsEffect ==
    ASSUME TypeOK, NEW t \in Threads, Place(t), Polls(t)
    PROVE  /\ TypeOK'
           /\ Failed(t) \/ Returned(t) \/ Saw(t)
<1> DEFINE s == thread[t].s
<1>1. /\ s \in Samples /\ thread[t].pc = "process"
      /\ UNCHANGED <<sample, sending, receiving, out, in, events, starts>>
  BY DEF Place, Polls
<1>2. CASE ~sample[s].alive
  <2>1. Failed(t)
    BY <1>1, <1>2, Idling DEF Polls, Faults, Calm, Failed, Processing
  <2>. QED  BY <1>1, <2>1, FailedType
<1>3. CASE sample[s].alive /\ KindOf[s] = "udp" /\ sample[s].fed = 0
  <2>1. /\ fault' = fault /\ thread' = Returns(t)
        /\ Trouble({what \in {"hungry"} : sample[s].state = "stopping"})
    BY <1>3 DEF Polls
  <2>2. Grows /\ troubles' \subseteq Troubles
        /\ ("hungry" \notin troubles' => sample[s].state # "stopping")
    BY <2>1 DEF Trouble, Grows, TypeOK
  <2>3. Returned(t)
    BY <1>1, <1>3, <2>1, <2>2, Idling, SameIsAlike DEF Returned
  <2>. QED  BY <1>1, <2>1, <2>2, <2>3, TypesOf, OldTypes DEF Returned, Idles, Moves
<1>4. CASE sample[s].alive /\ ~(KindOf[s] = "udp" /\ sample[s].fed = 0)
  <2> DEFINE seen == StatusOf(s)
             r == [thread[t] EXCEPT !.pc = "saw", !.seen = seen]
  <2>1. /\ fault' = fault /\ troubles' = troubles
        /\ thread' = [thread EXCEPT ![t].pc = "saw", ![t].seen = seen]
    BY <1>4 DEF Polls, Calm
  <2>2. seen \in {"complete", "all data", "full", "capacity", "data", "no data"}
    BY <1>1, StatusType DEF SeenOf
  <2> HIDE DEF seen
  <2>3. /\ r \in TT /\ r.pc = "saw" /\ r.s = s /\ r.seen = seen
        /\ r.starting = thread[t].starting
    BY <2>2, ThreadFields DEF TT, ThreadType
  <2>4. thread' = [thread EXCEPT ![t] = r]
    BY <2>1 DEF TypeOK
  <2> HIDE DEF r
  <2>5. Moves(t) /\ thread'[t] = r
    BY <2>3, <2>4, ThreadReplaced
  <2>6. Saw(t)
    BY <1>1, <2>1, <2>3, <2>5 DEF Saw, GoesOn, seen
  <2>. QED  BY <1>1, <2>1, <2>5, <2>6, TypesOf, OldTypes DEF Moves
<1>. QED  BY <1>2, <1>3, <1>4

(* Where there is nothing to do the thread returns.                         *)
LEMMA LeavesEffect ==
    ASSUME TypeOK, NEW t \in Threads, Leaves(t)
    PROVE  TypeOK' /\ Returned(t)
<1>1. Returned(t)
  BY Idling, SameIsAlike DEF Leaves, Returned, Grows
<1>. QED  BY <1>1, TypesOf, OldTypes DEF Leaves, Returned, Idles, Moves

(* ... what was heard is written, ...                                       *)
Received(t) ==
    /\ thread[t].pc = "saw" /\ thread[t].seen = "data"
    /\ GoesOn(t, "process")
    /\ in' = [in EXCEPT !.data = 0]
    /\ UNCHANGED <<sample, sending, receiving, out, events, fault, troubles>>

(* receive() does that.                                                     *)
LEMMA ReceiveEffect ==
    ASSUME TypeOK, NEW t \in Threads, Receive(t)
    PROVE  TypeOK' /\ Received(t)
<1>1. Received(t)
  BY GoingOn DEF Receive, Received
<1>2. in' \in InType
  BY OldTypes DEF Receive, InType
<1>. QED  BY <1>1, <1>2, TypesOf, OldTypes DEF Receive, Received, GoesOn, Moves

(* ... what is played next is read, ...                                     *)
Submitted(t) ==
    LET s == thread[t].s
    IN /\ thread[t].pc = "saw" /\ thread[t].seen = "capacity"
       /\ GoesOn(t, "put")
       /\ thread'[t].chunk = IF KindOf[s] = "udp" THEN 1 ELSE NextChunk(s)
       /\ Alters(s)
       /\ sample'[s].state = sample[s].state /\ sample'[s].status = sample[s].status
       /\ sample'[s].wanted = sample[s].wanted
       /\ sample'[s].next = IF KindOf[s] # "file" \/ NextChunk(s) = 0
                            THEN sample[s].next ELSE sample[s].next + 1
       /\ UNCHANGED <<sending, receiving, out, in, events, fault, troubles>>

(* submit() does that, with the data of one chunk.                          *)
LEMMA SubmitEffect ==
    ASSUME TypeOK, NEW t \in Threads, Place(t), Submit(t)
    PROVE  TypeOK' /\ (Failed(t) \/ Submitted(t))
<1> DEFINE s == thread[t].s
<1>1. /\ s \in Samples /\ thread[t].pc = "saw" /\ thread[t].seen = "capacity"
      /\ UNCHANGED <<sending, receiving, out, in, events, starts>>
  BY DEF Place, Submit
<1>2. CASE ~sample[s].alive
  <2>1. Failed(t)
    BY <1>1, <1>2, Idling DEF Submit, Faults, Calm, Failed, Processing
  <2>. QED  BY <1>1, <2>1, FailedType
<1>3. CASE sample[s].alive
  <2> DEFINE n == IF KindOf[s] # "file" \/ NextChunk(s) = 0
                  THEN sample[s].next ELSE sample[s].next + 1
             chunk == IF KindOf[s] = "udp" THEN 1 ELSE NextChunk(s)
             q == [sample[s] EXCEPT !.next = n]
             r == [thread[t] EXCEPT !.pc = "put", !.chunk = chunk]
  <2>1. /\ sample' = IF KindOf[s] # "file" \/ NextChunk(s) = 0 THEN sample
                     ELSE [sample EXCEPT ![s].next = @ + 1]
        /\ thread' = [thread EXCEPT ![t].pc = "put", ![t].chunk = chunk]
        /\ UNCHANGED <<fault, troubles>>
    BY <1>3 DEF Submit
  <2>2. n \in Nat \ {0} /\ chunk \in Nat
    BY <1>1, SampleFields DEF NextChunk
  <2>3. sample' = [sample EXCEPT ![s] = q]
    BY <1>1, <2>1, SampleFields DEF TypeOK, SampleType
  <2>4. thread' = [thread EXCEPT ![t] = r]
    BY <2>1 DEF TypeOK
  <2> HIDE DEF n, chunk
  <2>5. /\ q \in ST /\ q.state = sample[s].state /\ q.status = sample[s].status
        /\ q.wanted = sample[s].wanted /\ q.next = n /\ q.owed = sample[s].owed
        /\ q.alive = sample[s].alive
    BY <1>1, <2>2, SampleFields DEF ST, SampleType
  <2>6. /\ r \in TT /\ r.pc = "put" /\ r.s = s /\ r.chunk = chunk
        /\ r.starting = thread[t].starting
    BY <2>2, ThreadFields DEF TT, ThreadType
  <2> HIDE DEF q, r
  <2>7. Alters(s) /\ sample'[s] = q
    BY <1>1, <2>3, <2>5, SampleReplaced DEF Alters
  <2>8. Moves(t) /\ thread'[t] = r
    BY <2>4, <2>6, ThreadReplaced
  <2>9. Submitted(t)
    BY <1>1, <2>1, <2>5, <2>6, <2>7, <2>8 DEF Submitted, GoesOn, n, chunk
  <2>. QED  BY <1>1, <2>1, <2>7, <2>8, <2>9, TypesOf, OldTypes DEF Alters, Moves
<1>. QED  BY <1>2, <1>3

(* ... and given to the board, if it still takes it.                        *)
PutOne(t) ==
    LET s == thread[t].s
    IN /\ thread[t].pc \in {"put", "first"} /\ thread[t].chunk # 0 /\ Accepts
       /\ IF thread[t].pc = "first" THEN Idles(t) ELSE GoesOn(t, "process")
       /\ out' = IsPut(out, thread[t].chunk)
       /\ Alters(s)
       /\ sample'[s].state = sample[s].state /\ sample'[s].status = sample[s].status
       /\ sample'[s].wanted = sample[s].wanted
       /\ sample'[s].next = IF KindOf[s] = "beep" /\ sample[s].next <= BeepChunks
                            THEN sample[s].next + 1 ELSE sample[s].next
       /\ UNCHANGED <<sending, receiving, in, events, fault, troubles>>

(* There is room for what the board accepts.                                *)
LEMMA PutType ==
    ASSUME NEW o \in OutType, NEW chunk \in Nat, o.buffered < Buffers,
           ~o.endless => o.owed > 0
    PROVE  IsPut(o, chunk) \in OutType
<1> DEFINE b == o.buffered + 1
           n == o.owed - 1
           g == o.got + 1
           bad == (o.garbled \/ chunk # o.got + 1)
<1>1. b \in 0..Buffers /\ g \in Nat /\ bad \in BOOLEAN /\ (~o.endless => n \in Nat)
  BY Constants DEF OutType
<1>2. o.endless => IsPut(o, chunk) = [o EXCEPT !.buffered = b]
  BY DEF IsPut
<1>3. ~o.endless => IsPut(o, chunk) = [o EXCEPT !.buffered = b, !.owed = n,
                                                !.got = g, !.garbled = bad]
  BY DEF IsPut
<1> HIDE DEF b, n, g, bad
<1>4. o.endless => [o EXCEPT !.buffered = b] \in OutType
  BY <1>1 DEF OutType
<1>5. ~o.endless => [o EXCEPT !.buffered = b, !.owed = n, !.got = g,
                              !.garbled = bad] \in OutType
  BY <1>1 DEF OutType
<1>. QED  BY <1>2, <1>3, <1>4, <1>5

(* A beep at its end looks again.                                           *)
LooksAgain(t) ==
    /\ thread[t].pc \in {"put", "first"} /\ thread[t].chunk = 0
    /\ KindOf[thread[t].s] = "beep"
    /\ GoesOn(t, "process")
    /\ UNCHANGED <<sample, sending, receiving, out, in, events, fault, troubles>>

(* sm_put_replay_data takes the chunk, or the loop is left.                 *)
LEMMA PutEffect ==
    ASSUME TypeOK, NEW t \in Threads, Place(t), Put(t)
    PROVE  /\ TypeOK'
           /\ Failed(t) \/ Returned(t) \/ LooksAgain(t) \/ PutOne(t)
<1> DEFINE s == thread[t].s
           chunk == thread[t].chunk
<1>1. /\ s \in Samples /\ thread[t].pc \in {"put", "first"} /\ chunk \in Nat
      /\ UNCHANGED <<sending, receiving, in, events, starts>>
  BY ThreadFields DEF Place, Put
<1>2. CASE ~sample[s].alive
  <2>1. Failed(t) /\ UNCHANGED out
    BY <1>1, <1>2, Idling DEF Put, Faults, Calm, Failed, Processing
  <2>. QED  BY <1>1, <2>1, FailedType
<1>3. CASE sample[s].alive /\ (chunk = 0 \/ ~Accepts)
  <2>1. /\ UNCHANGED <<sample, out, fault, troubles>>
        /\ \/ thread' = Returns(t)
           \/ KindOf[s] = "beep" /\ chunk = 0 /\ thread' = Goes(t, "process")
    BY <1>3 DEF Put
  <2>2. Returned(t) \/ LooksAgain(t)
    BY <1>1, <1>3, <2>1, Idling, GoingOn, SameIsAlike
       DEF Returned, LooksAgain, Grows
  <2>. QED  BY <1>1, <2>1, <2>2, TypesOf, OldTypes
            DEF Returned, LooksAgain, Idles, GoesOn, Moves
<1>4. CASE sample[s].alive /\ chunk # 0 /\ Accepts
  <2> DEFINE n == IF KindOf[s] = "beep" /\ sample[s].next <= BeepChunks
                  THEN sample[s].next + 1 ELSE sample[s].next
             fed == IF KindOf[s] = "udp" /\ sample[s].fed > 0
                    THEN sample[s].fed - 1 ELSE sample[s].fed
             q == [sample[s] EXCEPT !.next = n, !.fed = fed]
  <2>1. /\ UNCHANGED <<fault, troubles>>
        /\ out' = IsPut(out, chunk)
        /\ sample' = [sample EXCEPT
              ![s].next = IF KindOf[s] = "beep" /\ @ <= BeepChunks THEN @ + 1 ELSE @,
              ![s].fed = IF KindOf[s] = "udp" /\ @ > 0 THEN @ - 1 ELSE @]
        /\ thread' = IF thread[t].pc = "first" THEN Returns(t) ELSE Goes(t, "process")
    BY <1>4 DEF Put
  <2>2. n \in Nat \ {0} /\ fed \in 0..Room
    BY <1>1, SampleFields, Constants
  <2>3. sample' = [sample EXCEPT ![s] = q]
    BY <1>1, <2>1 DEF TypeOK
  <2> HIDE DEF n, fed
  <2>4. /\ q \in ST /\ q.state = sample[s].state /\ q.status = sample[s].status
        /\ q.wanted = sample[s].wanted /\ q.next = n /\ q.owed = sample[s].owed
        /\ q.alive = sample[s].alive
    <3>1. sample[s] \in ST
      BY <1>1, SampleFields
    <3>. QED  BY <2>2, <3>1 DEF ST, SampleType
  <2> HIDE DEF q
  <2>5. Alters(s) /\ sample'[s] = q
    BY <1>1, <2>3, <2>4, SampleReplaced DEF Alters
  <2>6. IF thread[t].pc = "first" THEN Idles(t) ELSE GoesOn(t, "process")
    BY <2>1, Idling, GoingOn
  <2>7. PutOne(t)
    BY <1>1, <1>4, <2>1, <2>4, <2>5, <2>6 DEF PutOne, n
  <2>8. out.buffered < Buffers /\ (~out.endless => out.owed > 0)
    BY <1>4, OldTypes DEF Accepts, AllData, OutType
  <2>9. out' \in OutType
    BY <1>1, <2>1, <2>8, PutType, OldTypes
  <2>10. thread' \in [Threads -> TT]
    BY <2>6 DEF Idles, GoesOn, Moves
  <2>. QED  BY <1>1, <2>1, <2>5, <2>7, <2>9, <2>10, TypesOf, OldTypes DEF Alters
<1>. QED  BY <1>2, <1>3, <1>4

----------------------------------------------------------------------------
(* The end of a beep that is not the last, ...                              *)
Rewound(t) ==
    LET s == thread[t].s
    IN /\ thread[t].pc = "saw" /\ thread[t].seen = "complete"
       /\ KindOf[s] = "beep"
       /\ GoesOn(t, "again")
       /\ Alters(s)
       /\ sample'[s].state = sample[s].state /\ sample'[s].status = sample[s].status
       /\ sample'[s].wanted = sample[s].wanted /\ sample'[s].next = 1
       /\ UNCHANGED <<sending, receiving, out, in, events, fault, troubles>>

(* Beep::process() does that.                                               *)
LEMMA NextBeepEffect ==
    ASSUME TypeOK, NEW t \in Threads, Place(t), NextBeep(t)
    PROVE  TypeOK' /\ Rewound(t)
<1> DEFINE s == thread[t].s
           n == IF sample[s].count > Beeps THEN sample[s].count
                ELSE sample[s].count + 1
           q == [sample[s] EXCEPT !.count = n, !.next = 1]
<1>1. /\ s \in Samples /\ thread[t].pc = "saw" /\ thread[t].seen = "complete"
      /\ KindOf[s] = "beep" /\ thread' = Goes(t, "again")
      /\ sample' = RewindsBeep(s)
      /\ UNCHANGED <<sending, receiving, out, in, events, starts, fault, troubles>>
  BY DEF Place, NextBeep
<1>2. n \in 0..Beeps + 1 /\ sample[s] \in ST /\ 1 \in Nat \ {0}
  BY <1>1, SampleFields, Constants
<1>3. sample' = [sample EXCEPT ![s] = q]
  BY <1>1 DEF RewindsBeep, TypeOK
<1> HIDE DEF n
<1>4. /\ q \in ST /\ q.state = sample[s].state /\ q.status = sample[s].status
      /\ q.wanted = sample[s].wanted /\ q.next = 1 /\ q.owed = sample[s].owed
      /\ q.alive = sample[s].alive
  BY <1>2 DEF ST, SampleType
<1> HIDE DEF q
<1>5. Alters(s) /\ sample'[s] = q
  BY <1>1, <1>3, <1>4, SampleReplaced DEF Alters
<1>6. Rewound(t)
  BY <1>1, <1>4, <1>5, GoingOn DEF Rewound
<1>. QED  BY <1>1, <1>5, <1>6, TypesOf, OldTypes DEF Rewound, GoesOn, Moves, Alters

(* ... after which the next one is started.                                 *)
Restarted(t) ==
    LET s == thread[t].s
    IN /\ thread[t].pc = "again"
       /\ Moves(t) /\ thread'[t].pc = "process" /\ thread'[t].s = s
       /\ thread'[t].starting
       /\ Alters(s)
       /\ sample'[s].state = "active" /\ sample'[s].status = sample[s].status
       /\ sample'[s].wanted = sample[s].wanted /\ sample'[s].next = sample[s].next
       /\ Grows /\ ("beeps" \notin troubles' => sample[s].wanted = "none")
       /\ sending' = s
       /\ out' = Replay(BeepChunks, 1, FALSE)
       /\ UNCHANGED <<receiving, in, events, fault>>

(* Beep::process() calls start().                                           *)
LEMMA StartsAgainEffect ==
    ASSUME TypeOK, NEW t \in Threads, Place(t), StartsAgain(t)
    PROVE  TypeOK' /\ (Failed(t) \/ Restarted(t))
<1> DEFINE s == thread[t].s
<1>1. /\ s \in Samples /\ thread[t].pc = "again"
      /\ UNCHANGED <<receiving, in, events, starts>>
  BY DEF Place, StartsAgain
<1>2. CASE ~sample[s].alive
  <2>1. Failed(t)
    BY <1>1, <1>2, Idling DEF StartsAgain, Faults, Calm, Failed, Processing
  <2>. QED  BY <1>1, <2>1, FailedType
<1>3. CASE sample[s].alive
  <2> DEFINE q == [sample[s] EXCEPT !.state = "active"]
             r == [thread[t] EXCEPT !.pc = "process", !.starting = TRUE]
  <2>1. /\ sample' = [sample EXCEPT ![s].state = "active"]
        /\ sending' = s /\ out' = Replay(BeepChunks, 1, FALSE)
        /\ thread' = [thread EXCEPT ![t].pc = "process", ![t].starting = TRUE]
        /\ Trouble({what \in {"beeps"} : sample[s].wanted # "none"})
        /\ fault' = fault
    BY <1>3 DEF StartsAgain
  <2>2. sample' = [sample EXCEPT ![s] = q] /\ thread' = [thread EXCEPT ![t] = r]
    BY <2>1 DEF TypeOK
  <2>3. sample[s] \in ST
    BY <1>1, SampleFields
  <2>4. /\ q \in ST /\ q.state = "active" /\ q.status = sample[s].status
        /\ q.wanted = sample[s].wanted /\ q.next = sample[s].next
        /\ q.owed = sample[s].owed /\ q.alive = sample[s].alive
    BY <2>3 DEF ST, SampleType
  <2>5. r \in TT /\ r.pc = "process" /\ r.s = s /\ r.starting
    BY ThreadFields DEF TT, ThreadType
  <2> HIDE DEF q, r
  <2>6. Alters(s) /\ sample'[s] = q
    BY <1>1, <2>2, <2>4, SampleReplaced DEF Alters
  <2>7. Moves(t) /\ thread'[t] = r
    BY <2>2, <2>5, ThreadReplaced
  <2>8. /\ Grows /\ troubles' \subseteq Troubles
        /\ ("beeps" \notin troubles' => sample[s].wanted = "none")
    BY <2>1 DEF Trouble, Grows, TypeOK
  <2>9. Restarted(t)
    BY <1>1, <2>1, <2>4, <2>5, <2>6, <2>7, <2>8 DEF Restarted
  <2>10. out' \in OutType
    <3>1. BeepChunks \in Nat /\ 1 \in Nat \ {0} /\ FALSE \in BOOLEAN
      BY Constants
    <3>2. Replay(BeepChunks, 1, FALSE) \in OutType
      BY ONLY <3>1, ReplayType
    <3>. QED  BY <2>1, <3>2
  <2>. QED  BY <1>1, <2>1, <2>6, <2>7, <2>8, <2>9, <2>10, TypesOf, OldTypes
            DEF Alters, Moves
<1>. QED  BY <1>2, <1>3

(* The end of a sample.                                                     *)
Ended(t) ==
    LET s == thread[t].s
    IN /\ thread[t].pc = "saw" /\ thread[t].seen = "complete"
       /\ GoesOn(t, "done")
       /\ Alters(s)
       /\ sample'[s].state = "idle" /\ sample'[s].wanted = sample[s].wanted
       /\ sample'[s].status = FinalStatus(s)
       /\ sample'[s].next = sample[s].next
       /\ sending' = SenderAfter(s)
       /\ receiving' = IF IsOutgoing(s) THEN receiving ELSE NoSample
       /\ Grows /\ ("hasty" \notin troubles' => ~thread[t].starting)
       /\ UNCHANGED <<out, in, events, fault>>

(* process() does that when the board is done.                              *)
LEMMA FinishesEffect ==
    ASSUME TypeOK, NEW t \in Threads, Place(t), Reasons, Finishes(t)
    PROVE  TypeOK' /\ (Failed(t) \/ Ended(t))
<1> DEFINE s == thread[t].s
<1>1. /\ s \in Samples /\ thread[t].pc = "saw" /\ thread[t].seen = "complete"
      /\ UNCHANGED <<out, in, events, starts>>
  BY DEF Place, Finishes
<1>2. CASE ~sample[s].alive
  <2>1. Failed(t) /\ UNCHANGED <<sample, sending, receiving>>
    BY <1>1, <1>2, Idling DEF Finishes, Faults, Calm, Failed, Processing
  <2>. QED  BY <1>1, <2>1, FailedType
<1>3. CASE sample[s].alive
  <2> DEFINE final == FinalStatus(s)
             n == IF KindOf[s] = "beep" /\ sample[s].count <= Beeps
                  THEN sample[s].count + 1 ELSE sample[s].count
             q == [sample[s] EXCEPT !.state = "idle", !.status = final, !.count = n]
  <2>1. /\ sample' = Finished(s, final)
        /\ sending' = SenderAfter(s)
        /\ receiving' = IF IsOutgoing(s) THEN receiving ELSE NoSample
        /\ thread' = Goes(t, "done")
        /\ Trouble({what \in {"hasty"} : thread[t].starting})
        /\ fault' = fault
    BY <1>3 DEF Finishes
  <2>2. sample' = [sample EXCEPT ![s] = q]
    BY <1>1, <2>1 DEF Finished, TypeOK
  <2>3. /\ sample[s] \in ST /\ n \in 0..Beeps + 1
    BY <1>1, SampleFields, Constants
  <2>4. final \in Statuses
    <3>1. KindOf[s] = "record" => in.reason \in {"stopped", "timeout"}
      BY <1>1, OldTypes DEF Reasons, InType
    <3>. QED  BY <1>1, <3>1, SampleFields DEF FinalStatus, Statuses
  <2> HIDE DEF final, n
  <2>5. /\ q \in ST /\ q.state = "idle" /\ q.status = final
        /\ q.wanted = sample[s].wanted /\ q.next = sample[s].next
        /\ q.owed = sample[s].owed /\ q.alive = sample[s].alive
    BY <2>3, <2>4 DEF ST, SampleType
  <2> HIDE DEF q
  <2>6. Alters(s) /\ sample'[s] = q
    BY <1>1, <2>2, <2>5, SampleReplaced DEF Alters
  <2>7. /\ Grows /\ troubles' \subseteq Troubles
        /\ ("hasty" \notin troubles' => ~thread[t].starting)
    BY <2>1 DEF Trouble, Grows, TypeOK
  <2>8. Ended(t)
    BY <1>1, <2>1, <2>5, <2>6, <2>7, GoingOn DEF Ended, final
  <2>9. {sending', receiving'} \subseteq Samples \cup {NoSample}
    BY <2>1, OldTypes DEF SenderAfter
  <2>. QED  BY <1>1, <2>1, <2>6, <2>7, <2>8, <2>9, TypesOf, OldTypes
            DEF Alters, Ended, GoesOn, Moves
<1>. QED  BY <1>2, <1>3

(* Its report, which may delete it.                                         *)
Reported(t) ==
    LET s == thread[t].s
    IN /\ thread[t].pc = "done"
       /\ GoesOn(t, "told")
       /\ sample' \in [Samples -> ST]
       /\ \A v \in Samples \ {s} : sample'[v] = sample[v]
       /\ sample'[s].state = sample[s].state /\ sample'[s].status = sample[s].status
       /\ sample'[s].owed = sample[s].owed - 1 /\ sample'[s].wanted = "none"
       /\ sample'[s].next = sample[s].next
       /\ UNCHANGED <<sending, receiving, out, in, events, fault, troubles>>

(* completed() tells the Sequencer.                                         *)
LEMMA TellsEffect ==
    ASSUME TypeOK, NEW t \in Threads, Place(t), Tells(t)
    PROVE  TypeOK' /\ (Failed(t) \/ Reported(t))
<1> DEFINE s == thread[t].s
<1>1. /\ s \in Samples /\ thread[t].pc = "done"
      /\ UNCHANGED <<sending, receiving, out, in, events, starts>>
  BY DEF Place, Tells
<1>2. CASE ~sample[s].alive
  <2>1. Failed(t) /\ UNCHANGED sample
    BY <1>1, <1>2, Idling DEF Tells, Faults, Calm, Failed
  <2>. QED  BY <1>1, <2>1, FailedType
<1>3. CASE sample[s].alive
  <2>1. PICK keep \in BOOLEAN :
          sample' = [sample EXCEPT ![s].owed = @ - 1, ![s].wanted = "none",
                                   ![s].alive = keep, ![s].open = @ /\ keep]
    BY <1>3 DEF Tells
  <2>2. thread' = IsTold(t, s) /\ UNCHANGED <<fault, troubles>>
    BY <1>3 DEF Tells
  <2> DEFINE n == sample[s].owed - 1
             b == (sample[s].open /\ keep)
             q == [sample[s] EXCEPT !.owed = n, !.wanted = "none",
                                    !.alive = keep, !.open = b]
             r == [thread[t] EXCEPT !.pc = "told", !.seen = "none", !.chunk = 0,
                                    !.held = TRUE]
  <2>3. sample' = [sample EXCEPT ![s] = q]
    BY <1>1, <2>1 DEF TypeOK
  <2>4. thread' = [thread EXCEPT ![t] = r]
    BY <2>2 DEF IsTold, Goes, TypeOK
  <2>5. sample[s] \in ST /\ n \in Int /\ b \in BOOLEAN /\ keep \in BOOLEAN
    BY <1>1, SampleFields
  <2>6. n = sample[s].owed - 1
    OBVIOUS
  <2> HIDE DEF n, b
  <2>7. /\ q \in ST /\ q.state = sample[s].state /\ q.status = sample[s].status
        /\ q.wanted = "none" /\ q.owed = n /\ q.next = sample[s].next
    BY <2>5 DEF ST, SampleType
  <2>8. r \in TT /\ r.pc = "told" /\ r.s = s /\ r.starting = thread[t].starting
    BY ThreadFields DEF TT, ThreadType
  <2> HIDE DEF q, r
  <2>9. /\ sample' \in [Samples -> ST] /\ sample'[s] = q
        /\ \A v \in Samples \ {s} : sample'[v] = sample[v]
    BY <1>1, <2>3, <2>7, SampleReplaced
  <2>10. Moves(t) /\ thread'[t] = r
    BY <2>4, <2>8, ThreadReplaced
  <2>11. Reported(t)
    BY <1>1, <2>2, <2>6, <2>7, <2>8, <2>9, <2>10 DEF Reported, GoesOn
  <2>. QED  BY <1>1, <2>2, <2>9, <2>10, <2>11, TypesOf, OldTypes DEF Moves
<1>. QED  BY <1>2, <1>3

(* After which there is nothing left to do.                                 *)
LEMMA ToldEffect ==
    ASSUME TypeOK, NEW t \in Threads, Told(t)
    PROVE  TypeOK' /\ (Failed(t) \/ Returned(t))
<1>1. /\ thread[t].pc = "told"
      /\ UNCHANGED <<sample, sending, receiving, out, in, events, starts>>
  BY DEF Told
<1>2. CASE thread[t].starting /\ ~sample[thread[t].s].alive
  <2>1. Failed(t)
    BY <1>1, <1>2, Idling DEF Told, Faults, Calm, Failed
  <2>. QED  BY <1>1, <2>1, FailedType
<1>3. CASE ~(thread[t].starting /\ ~sample[thread[t].s].alive)
  <2>1. Returned(t)
    BY <1>1, <1>3, Idling, SameIsAlike DEF Told, Returned, Grows
  <2>. QED  BY <1>1, <1>3, <2>1, TypesOf, OldTypes DEF Told, Returned, Idles, Moves
<1>. QED  BY <1>2, <1>3

----------------------------------------------------------------------------
(* The board plays, hears, ends: threads and samples are left alone.        *)
BoardMoves ==
    /\ \/ /\ out.job = "replay" /\ ~out.ended /\ out.buffered > 0
          /\ out' = [out EXCEPT !.buffered = @ - 1] /\ in' = in
          /\ events' = [events EXCEPT !["write"] = TRUE]
       \/ /\ out.job = "tones"
          /\ out' = [out EXCEPT !.ended = TRUE] /\ in' = in
          /\ events' = [events EXCEPT !["write"] = TRUE]
       \/ /\ in.job = "record" /\ in.reason = "none"
          /\ \/ in' = [in EXCEPT !.data = 1, !.left = @ - 1]
             \/ in' = [in EXCEPT !.reason = "timeout"]
          /\ events' = [events EXCEPT !["read"] = TRUE] /\ out' = out
       \/ /\ events' = [events EXCEPT !["udp"] = TRUE]
          /\ out' = out /\ in' = in
    /\ UNCHANGED <<sample, sending, receiving, thread, fault, troubles>>

(* Whatever the board does is one of these.                                 *)
LEMMA BoardEffect ==
    ASSUME TypeOK, Board
    PROVE  TypeOK' /\ BoardMoves
<1>1. UNCHANGED <<sample, sending, receiving, thread, starts, fault, troubles>>
  BY DEF Board, Plays, TonesEnd, Hears, RecordEnds, DatagramArrives
<1>2. CASE Plays
  <2> DEFINE b == out.buffered - 1
  <2>1. b \in 0..Buffers /\ out' = [out EXCEPT !.buffered = b]
    BY <1>2, OldTypes, Constants DEF Plays, OutType
  <2> HIDE DEF b
  <2>2. out' \in OutType
    BY <2>1, OldTypes DEF OutType
  <2>3. BoardMoves /\ events' \in [Events -> BOOLEAN] /\ in' = in
    BY <1>1, <1>2, OldTypes DEF Plays, BoardMoves
  <2>. QED  BY <1>1, <2>2, <2>3, TypesOf, OldTypes
<1>3. CASE TonesEnd
  <2>1. out' \in OutType
    BY <1>3, OldTypes, EndedType DEF TonesEnd
  <2>2. BoardMoves /\ events' \in [Events -> BOOLEAN] /\ in' = in
    BY <1>1, <1>3, OldTypes DEF TonesEnd, BoardMoves
  <2>. QED  BY <1>1, <2>1, <2>2, TypesOf, OldTypes
<1>4. CASE Hears
  <2> DEFINE n == in.left - 1
  <2>1. n \in 0..1 /\ 1 \in 0..1 /\ in' = [in EXCEPT !.data = 1, !.left = n]
    BY <1>4, OldTypes DEF Hears, InType
  <2> HIDE DEF n
  <2>2. in' \in InType
    BY <2>1, OldTypes DEF InType
  <2>3. BoardMoves /\ events' \in [Events -> BOOLEAN] /\ out' = out
    BY <1>1, <1>4, OldTypes DEF Hears, BoardMoves
  <2>. QED  BY <1>1, <2>2, <2>3, TypesOf, OldTypes
<1>5. CASE RecordEnds
  <2>1. in' \in InType
    BY <1>5, OldTypes DEF RecordEnds, InType
  <2>2. BoardMoves /\ events' \in [Events -> BOOLEAN] /\ out' = out
    BY <1>1, <1>5, OldTypes DEF RecordEnds, BoardMoves
  <2>. QED  BY <1>1, <2>1, <2>2, TypesOf, OldTypes
<1>6. CASE DatagramArrives
  <2>1. /\ BoardMoves /\ events' \in [Events -> BOOLEAN]
        /\ out' = out /\ in' = in
    BY <1>1, <1>6, OldTypes DEF DatagramArrives, BoardMoves
  <2>. QED  BY <1>1, <2>1, TypesOf, OldTypes
<1>. QED  BY <1>2, <1>3, <1>4, <1>5, <1>6 DEF Board

----------------------------------------------------------------------------
(* stop() of a UDPStream that waits: nothing happens.                       *)
TooEarly ==
    /\ troubles' = troubles \cup {"waiting"}
    /\ UNCHANGED <<sample, sending, receiving, out, in, events, thread, fault>>

(* What a thread may do inside of a sample, ...                             *)
Steps(t) ==
    \/ Failed(t) \/ Returned(t) \/ Saw(t) \/ Received(t) \/ Submitted(t)
    \/ PutOne(t) \/ LooksAgain(t) \/ Rewound(t) \/ Restarted(t) \/ Ended(t)
    \/ Reported(t)

(* ... and whatever happens.                                                *)
Effect ==
    \/ \E t \in Threads, s \in Samples : Started(t, s)
    \/ \E s \in Samples, status \in StopStatuses : StoppedBy(s, status)
    \/ AbortedBy(thread["client"].s)
    \/ \E event \in Events : Dispatched(event)
    \/ \E s \in Samples : Entered(s) \/ FirstOne(s)
    \/ \E t \in Threads : Steps(t)
    \/ BoardMoves
    \/ TooEarly

(* Every step keeps the types and has one of the effects.                   *)
LEMMA EffectOfStep ==
    ASSUME TypeOK, Places, Reasons, Next
    PROVE  TypeOK' /\ Effect
<1> USE DEF Effect
<1>1. CASE \E s \in Samples, t \in Threads : Starts(t, s)
  BY <1>1, StartEffect
<1>2. CASE \E s \in Samples : \E status \in StopsWith(s) : Stop(s, status)
  <2>1. PICK s \in Samples : \E status \in StopsWith(s) : Stop(s, status)
    BY <1>2
  <2>2. PICK status \in StopsWith(s) : Stop(s, status)
    BY <2>1
  <2>3. StoppedBy(s, status) /\ TypeOK'
    BY <2>2, StopEffect
  <2>. QED  BY <2>3 DEF StoppedBy
<1>3. CASE \E s \in Samples : StopTooEarly(s)
  <2>1. TooEarly /\ troubles' \subseteq Troubles /\ starts' = starts
    BY <1>3, OldTypes DEF StopTooEarly, TooEarly, Trouble
  <2>. QED  BY <2>1, TypesOf, OldTypes DEF TooEarly
<1>4. CASE Dispatcher
  BY <1>4, DispatchEffect, OnEventEffect, OnUDPEffect DEF Dispatcher, Threads, Steps
<1>5. CASE Abort
  BY <1>5, AbortEffect
<1>6. CASE \E t \in Threads : Process(t)
  <2>1. PICK t \in Threads : Process(t)
    BY <1>6
  <2>2. Place(t)
    BY DEF Places
  <2>3. TypeOK' /\ Steps(t)
    BY <2>1, <2>2, PollsEffect, LeavesEffect, ReceiveEffect, SubmitEffect, PutEffect,
       NextBeepEffect, StartsAgainEffect, FinishesEffect, TellsEffect, ToldEffect
       DEF Process, Steps
  <2>. QED  BY <2>3
<1>7. CASE Board
  BY <1>7, BoardEffect
<1>. QED  BY <1>1, <1>2, <1>3, <1>4, <1>5, <1>6, <1>7 DEF Next, Client

----------------------------------------------------------------------------
(*                              The invariant                               *)

(* What was stopped stops, ...                                              *)
Wanting ==
    \A s \in Samples :
        /\ sample[s].state = "waiting" => sample[s].wanted = "none"
        /\ "beeps" \notin troubles /\ sample[s].wanted # "none" =>
              sample[s].state \in {"stopping", "idle"}

(* ... the threads are inside of different samples, and ...                 *)
Inside(t, s) == thread[t].s = s /\ thread[t].pc \in Processing

IsDone(t, s) == thread[t].s = s /\ thread[t].pc = "done"

Pointed(s) == IF IsOutgoing(s) THEN sending = s ELSE receiving = s

Plain(s) == KindOf[s] = "tones" => "tones" \notin troubles

(* ... the channel knows those of the samples that still play, ...          *)
Owed(s) ==
    /\ sample[s].owed \in 0..1
    /\ sample[s].owed = 1 => sample[s].alive
    /\ Pointed(s) => sample[s].owed = 1 /\ sample[s].state # "idle"
    /\ \A u \in Others(s) : Plain(u) /\ sample[s].owed = 1 => sample[u].owed = 0
    /\ sample[s].owed = 1 /\ sample[s].state = "idle" =>
          \E t \in Threads : IsDone(t, s)
    /\ \A t \in Threads :
          /\ Inside(t, s) => sample[s].owed = 1 /\ sample[s].state # "idle"
          /\ IsDone(t, s) => sample[s].owed = 1 /\ sample[s].state = "idle"
          /\ \A u \in Threads \ {t} : IsDone(t, s) => ~IsDone(u, s)

Alone ==
    /\ \A s \in Samples, t \in Threads :
          Inside(t, s) => \A u \in Threads \ {t} : ~Inside(u, s)
    /\ \A s \in Samples : Plain(s) => Owed(s)

(* ... and the board plays what they are.                                   *)
IsComplete(o) == o.job # "replay" \/ o.ended \/ (AllData(o) /\ o.buffered = 0)

PlaysOn(s) ==
    KindOf[s] \in Replayed /\ sample[s].owed = 1 /\ sample[s].state # "idle"

AtEnd(t) ==
    /\ \/ thread[t].pc = "saw" /\ thread[t].seen = "complete"
       \/ thread[t].pc = "again"
    /\ KindOf[thread[t].s] \in Replayed

Boards ==
    /\ (\A s \in Samples : ~PlaysOn(s)) => IsComplete(out)
    /\ \A s \in Samples : PlaysOn(s) =>
          IF sample[s].state = "waiting" /\ KindOf[s] = "udp" THEN IsComplete(out)
          ELSE out.job = "replay" /\ (out.endless <=> KindOf[s] = "udp")
    /\ \A t \in Threads : AtEnd(t) => IsComplete(out)

(* The board got all chunks before the sample's position, but for the one   *)
(* that a thread has in its hands.                                          *)
Position(s) ==
    /\ (\A t \in Threads : thread[t].s = s => thread[t].pc \notin {"put", "again"})
          => sample[s].next = out.got + 1
    /\ \A t \in Threads : thread[t].s = s =>
          /\ thread[t].pc = "put" =>
                /\ thread[t].chunk = out.got + 1
                /\ sample[s].next = out.got + IF KindOf[s] = "file" THEN 2 ELSE 1
          /\ thread[t].pc = "put"
               \/ (thread[t].pc = "saw" /\ thread[t].seen = "capacity")
             => ~AllData(out) /\ out.buffered < Buffers

Fed ==
    /\ ~out.garbled
    /\ \A t \in Threads : thread[t].pc = "again" => sample[thread[t].s].next = 1
    /\ \A s \in Samples : PlaysOn(s) /\ KindOf[s] # "udp" =>
          /\ out.got + out.owed = Length(s)
          /\ ~out.ended => Position(s)

(* Who looks at a sample or reports on it finds it, ...                     *)
Clean ==
    /\ ~fault
    /\ \A s \in Samples :
          sample[s].owed = 1 /\ sample[s].state # "idle" => Pointed(s)
    /\ \A t \in Threads : thread[t].pc \in {"done", "told"} =>
          t = "media" /\ ~thread[t].starting
    /\ thread["media"].pc = "checked" => Named(thread["media"].event) # NoSample

(* ... with the right status, ...                                           *)
Label ==
    \A s \in Samples : sample[s].owed = 1 =>
        IF sample[s].wanted # "none"
        THEN /\ sample[s].status = sample[s].wanted
             /\ KindOf[s] = "record" => sample[s].wanted = "stopped"
        ELSE IF sample[s].state = "idle"
        THEN KindOf[s] = "record" <=> sample[s].status # "ok"
        ELSE sample[s].status = "ok"

(* ... and somebody will: a thread that has not looked yet, ...             *)
Watched(s) ==
    \E t \in Threads :
        /\ thread[t].s = s
        /\ \/ thread[t].pc \in {"process", "again", "done"}
           \/ thread[t].pc = "saw" /\ thread[t].seen \in {"complete", "data"}

EventOf(s) == IF IsOutgoing(s) THEN "write" ELSE "read"

(* ... or that has seen the event, ...                                      *)
Coming(s) ==
    \/ events[EventOf(s)]
    \/ thread["media"].pc = "checked" /\ thread["media"].event = EventOf(s)

(* ... or will set it, ...                                                  *)
Aborting(s) == thread["client"].pc = "abort" /\ thread["client"].s = s

(* ... or gives the board something to report on.                           *)
Feeding(s) ==
    /\ Accepts
    /\ \E t \in Threads :
          /\ thread[t].s = s
          /\ \/ thread[t].pc = "saw" /\ thread[t].seen = "capacity"
             \/ thread[t].pc \in {"put", "first"} /\ thread[t].chunk # 0

Expected(s) ==
    Watched(s) \/ Coming(s) \/ Aborting(s) \/ WillSignal(s) \/ Feeding(s)

Jobs(s) ==
    /\ KindOf[s] = "record" => in.job = "record"
    /\ KindOf[s] = "tones" /\ sample[s].state # "idle" => out.job = "tones"
    /\ KindOf[s] = "udp" /\ sample[s].state = "stopping" => Aborting(s) \/ out.ended

Remembered ==
    \A s \in Samples : sample[s].owed = 1 => Expected(s) /\ Jobs(s)

(* The troubles that are the end of each part.                              *)
Without(what) == troubles \cap what = {}

IInv ==
    /\ TypeOK /\ Places /\ Wanting /\ Reasons
    /\ Without({"both"}) => Alone /\ Boards
    /\ Without({"both", "replayed"}) => Fed
    /\ Without({"both", "hasty", "tones"}) => Clean
    /\ Without({"both", "hasty", "tones", "relabelled", "remembered"}) => Label
    /\ Without({"both", "hasty", "tones", "replayed", "hungry", "waiting"})
         => Remembered

----------------------------------------------------------------------------
(* A thread that stays where it is keeps its place, ...                     *)
LEMMA PlaceKept ==
    ASSUME NEW u \in Threads, Place(u), thread'[u] = thread[u], Grows
    PROVE  Place(u)'
  BY DEF Place, Grows

(* ... and so does one that returns.                                        *)
LEMMA PlaceLeft ==
    ASSUME NEW u \in Threads, thread'[u] = IdleThread
    PROVE  Place(u)'
  BY DEF Place, IdleThread, Processing

(* What every effect has in common.                                         *)
LEMMA EffectGrows ==
    ASSUME Effect
    PROVE  /\ Grows
           /\ \E t \in Threads : \A u \in Threads \ {t} : thread'[u] = thread[u]
<1> USE DEF Grows
<1>1. "client" \in Threads /\ "media" \in Threads
  BY DEF Threads
<1>2. CASE \E t \in Threads, s \in Samples : Started(t, s)
  BY <1>2 DEF Started, Moves, Idles
<1>3. CASE \E s \in Samples, status \in StopStatuses : StoppedBy(s, status)
  BY <1>1, <1>3 DEF StoppedBy, Moves
<1>4. CASE AbortedBy(thread["client"].s)
  BY <1>1, <1>4 DEF AbortedBy, Moves, GoesOn, Idles
<1>5. CASE \E event \in Events : Dispatched(event)
  BY <1>1, <1>5 DEF Dispatched, Moves
<1>6. CASE \E s \in Samples : Entered(s) \/ FirstOne(s)
  BY <1>1, <1>6 DEF Entered, FirstOne, Moves
<1>7. CASE \E t \in Threads : Steps(t)
  BY ZenonT(30), <1>7 DEF Steps, Failed, Returned, Saw, Received, Submitted, PutOne, LooksAgain,
              Rewound, Restarted, Ended, Reported, Moves, GoesOn, Idles
<1>8. CASE BoardMoves \/ TooEarly
  BY <1>1, <1>8 DEF BoardMoves, TooEarly
<1>. QED  BY <1>2, <1>3, <1>4, <1>5, <1>6, <1>7, <1>8 DEF Effect

(* Every thread knows where it is, after every step.                        *)
LEMMA PlacesStep ==
    ASSUME TypeOK, TypeOK', Places, Effect
    PROVE  Places'
<1> USE DEF Threads
<1>1. Grows
  BY EffectGrows
<1>2. \A t \in Threads : Place(t)
  BY DEF Places
<1>3. ASSUME NEW t \in Threads, Place(t)',
             \A u \in Threads \ {t} : thread'[u] = thread[u]
      PROVE  \A u \in Threads : Place(u)'
  <2> TAKE u \in Threads
  <2>1. CASE u = t
    BY <1>3, <2>1
  <2>2. CASE u # t
    BY <1>1, <1>2, <1>3, <2>2, PlaceKept
  <2>. QED  BY <2>1, <2>2
<1>4. CASE \E t \in Threads, s \in Samples : Started(t, s)
  <2>1. PICK t \in Threads, s \in Samples : Started(t, s)
    BY <1>4
  <2>2. Place(t)'
    <3>1. CASE KindOf[s] \in {"file", "beep"}
      BY <2>1, <3>1 DEF Started, Place, Processing
    <3>2. CASE KindOf[s] \notin {"file", "beep"}
      BY <2>1, <3>2, PlaceLeft DEF Started, Idles
    <3>. QED  BY <3>1, <3>2
  <2>3. \A u \in Threads \ {t} : thread'[u] = thread[u]
    BY <2>1 DEF Started, Moves, Idles
  <2>4. Pointers'
    BY <2>1, Constants DEF Places, Pointers, Started
  <2>. QED  BY <1>3, <2>2, <2>3, <2>4 DEF Places
<1>5. CASE \E s \in Samples, status \in StopStatuses : StoppedBy(s, status)
  <2>1. PICK s \in Samples, status \in StopStatuses : StoppedBy(s, status)
    BY <1>5
  <2>2. Place("client")'
    BY <2>1 DEF StoppedBy, Place, Processing
  <2>3. \A u \in Threads \ {"client"} : thread'[u] = thread[u]
    BY <2>1 DEF StoppedBy, Moves
  <2>. QED  BY <1>3, <2>1, <2>2, <2>3 DEF Places, Pointers, StoppedBy
<1>6. CASE AbortedBy(thread["client"].s)
  <2>1. Place("client")'
    <3>1. Idles("client") => Place("client")'
      BY PlaceLeft DEF Idles
    <3>2. GoesOn("client", "done") => Place("client")'
      BY <1>2, <1>6 DEF AbortedBy, GoesOn, Place, Processing
    <3>. QED  BY <1>6, <3>1, <3>2 DEF AbortedBy
  <2>2. \A u \in Threads \ {"client"} : thread'[u] = thread[u]
    BY <1>6 DEF AbortedBy, Moves, Idles, GoesOn
  <2>. QED  BY <1>3, <1>6, <2>1, <2>2 DEF Places, Pointers, AbortedBy
<1>7. CASE \E event \in Events : Dispatched(event)
  <2>1. PICK event \in Events : Dispatched(event)
    BY <1>7
  <2>2. Place("media")'
    <3>1. CASE Named(event) = NoSample
      BY <1>1, <1>2, <2>1, <3>1, PlaceKept DEF Dispatched
    <3>2. CASE Named(event) # NoSample
      BY <2>1, <3>2 DEF Dispatched, Place, Processing
    <3>. QED  BY <3>1, <3>2
  <2>3. \A u \in Threads \ {"media"} : thread'[u] = thread[u]
    BY <2>1 DEF Dispatched, Moves
  <2>. QED  BY <1>3, <2>1, <2>2, <2>3 DEF Places, Pointers, Dispatched
<1>8. CASE \E s \in Samples : Entered(s) \/ FirstOne(s)
  <2>1. PICK s \in Samples : Entered(s) \/ FirstOne(s)
    BY <1>8
  <2>2. Place("media")'
    BY <2>1 DEF Entered, FirstOne, Place, Processing, Replayed
  <2>3. \A u \in Threads \ {"media"} : thread'[u] = thread[u]
    BY <2>1 DEF Entered, FirstOne, Moves
  <2>. QED  BY <1>3, <2>1, <2>2, <2>3 DEF Places, Pointers, Entered, FirstOne
<1>9. CASE \E t \in Threads : Steps(t)
  <2>1. PICK t \in Threads : Steps(t)
    BY <1>9
  <2>2. Place(t)
    BY <1>2
  <2>3. CASE Failed(t) \/ Returned(t)
    <3>1. Place(t)'
      BY <2>3, PlaceLeft DEF Failed, Returned, Idles
    <3>2. \A u \in Threads \ {t} : thread'[u] = thread[u]
      BY <2>3 DEF Failed, Returned, Moves, Idles
    <3>. QED  BY <1>3, <2>3, <3>1, <3>2 DEF Places, Pointers, Failed, Returned
  <2>4. CASE Saw(t)
    <3>1. thread[t].s \in Samples
      BY <2>2, <2>4 DEF Place, Saw
    <3>2. Place(t)'
      BY <2>2, <2>4, <3>1, StatusType DEF Saw, GoesOn, Place, Processing
    <3>. QED  BY <1>3, <2>4, <3>2 DEF Places, Pointers, Saw, GoesOn, Moves
  <2>5. CASE Received(t) \/ LooksAgain(t)
    <3>1. Place(t)'
      BY <2>2, <2>5 DEF Received, LooksAgain, GoesOn, Place, Processing
    <3>. QED  BY <1>3, <2>5, <3>1
              DEF Places, Pointers, Received, LooksAgain, GoesOn, Moves
  <2>6. CASE Submitted(t)
    <3>1. KindOf[thread[t].s] \in Replayed
      BY <2>2, <2>6, Constants DEF Submitted, Place, SeenOf, Replayed, Kinds
    <3>2. Place(t)'
      BY <2>2, <2>6, <3>1 DEF Submitted, GoesOn, Place, Processing
    <3>. QED  BY <1>3, <2>6, <3>2 DEF Places, Pointers, Submitted, GoesOn, Moves
  <2>7. CASE PutOne(t)
    <3>1. Place(t)'
      <4>1. CASE thread[t].pc = "first"
        BY <2>7, <4>1, PlaceLeft DEF PutOne, Idles
      <4>2. CASE thread[t].pc # "first"
        BY <2>2, <2>7, <4>2 DEF PutOne, GoesOn, Place, Processing
      <4>. QED  BY <4>1, <4>2
    <3>. QED  BY <1>3, <2>7, <3>1 DEF Places, Pointers, PutOne, GoesOn, Idles, Moves
  <2>8. CASE Rewound(t)
    <3>1. Place(t)'
      BY <2>2, <2>8 DEF Rewound, GoesOn, Place, Processing
    <3>. QED  BY <1>3, <2>8, <3>1 DEF Places, Pointers, Rewound, GoesOn, Moves
  <2>9. CASE Restarted(t)
    <3>1. Place(t)'
      BY <2>2, <2>9 DEF Restarted, Place, Processing
    <3>2. Pointers'
      BY <2>2, <2>9 DEF Restarted, Place, Places, Pointers, IsOutgoing
    <3>. QED  BY <1>3, <2>9, <3>1, <3>2 DEF Places, Restarted, Moves
  <2>10. CASE Ended(t)
    <3>1. Place(t)'
      BY <2>2, <2>10 DEF Ended, GoesOn, Place, Processing
    <3>2. Pointers'
      BY <2>10 DEF Ended, Places, Pointers, SenderAfter
    <3>. QED  BY <1>3, <2>10, <3>1, <3>2 DEF Places, Ended, GoesOn, Moves
  <2>11. CASE Reported(t)
    <3>1. Place(t)'
      BY <2>2, <2>11 DEF Reported, GoesOn, Place, Processing
    <3>. QED  BY <1>3, <2>11, <3>1 DEF Places, Pointers, Reported, GoesOn, Moves
  <2>. QED  BY <2>1, <2>3, <2>4, <2>5, <2>6, <2>7, <2>8, <2>9, <2>10, <2>11 DEF Steps
<1>10. CASE BoardMoves \/ TooEarly
  <2>1. UNCHANGED <<thread, sending, receiving>>
    BY <1>10 DEF BoardMoves, TooEarly
  <2>. QED  BY <1>1, <1>2, <2>1, PlaceKept DEF Places, Pointers
<1>. QED  BY <1>4, <1>5, <1>6, <1>7, <1>8, <1>9, <1>10 DEF Effect

----------------------------------------------------------------------------
(* What was stopped stays so until it is reported.                          *)
LEMMA WantingStep ==
    ASSUME TypeOK, Wanting, Effect
    PROVE  Wanting'
<1> SUFFICES ASSUME NEW s \in Samples
             PROVE  /\ sample'[s].state = "waiting" => sample'[s].wanted = "none"
                    /\ "beeps" \notin troubles' /\ sample'[s].wanted # "none" =>
                          sample'[s].state \in {"stopping", "idle"}
  BY DEF Wanting
<1>1. /\ sample[s].state = "waiting" => sample[s].wanted = "none"
      /\ "beeps" \notin troubles /\ sample[s].wanted # "none" =>
            sample[s].state \in {"stopping", "idle"}
      /\ "beeps" \notin troubles' => "beeps" \notin troubles
  BY EffectGrows DEF Wanting, Grows
<1>2. CASE \E t \in Threads, v \in Samples : Started(t, v)
  BY <1>1, <1>2 DEF Started
<1>3. CASE \E v \in Samples, status \in StopStatuses : StoppedBy(v, status)
  BY <1>1, <1>3 DEF StoppedBy, Alters
<1>4. CASE \/ AbortedBy(thread["client"].s) \/ BoardMoves \/ TooEarly
           \/ \E event \in Events : Dispatched(event)
  <2>1. UNCHANGED sample
    BY <1>4 DEF AbortedBy, BoardMoves, TooEarly, Dispatched
  <2>. QED  BY <1>1, <2>1
<1>5. CASE \E v \in Samples : Entered(v) \/ FirstOne(v)
  <2>1. PICK v \in Samples : Entered(v) \/ FirstOne(v)
    BY <1>5
  <2>2. CASE Entered(v)
    BY <1>1, <2>2 DEF Entered, AllAlike, Alike
  <2>3. CASE FirstOne(v)
    BY <1>1, <2>3 DEF FirstOne, Alters, Wanting
  <2>. QED  BY <2>1, <2>2, <2>3
<1>6. CASE \E t \in Threads : Steps(t)
  <2>1. PICK t \in Threads : Steps(t)
    BY <1>6
  <2>2. CASE Failed(t) \/ Saw(t) \/ Received(t) \/ LooksAgain(t)
    BY <1>1, <2>2 DEF Failed, Saw, Received, LooksAgain
  <2>3. CASE Returned(t)
    BY <1>1, <2>3 DEF Returned, AllAlike, Alike
  <2>4. CASE Submitted(t) \/ PutOne(t) \/ Rewound(t)
    BY <1>1, <2>4 DEF Submitted, PutOne, Rewound, Alters
  <2>5. CASE Restarted(t) \/ Ended(t) \/ Reported(t)
    BY <1>1, <2>5 DEF Restarted, Ended, Reported, Alters
  <2>. QED  BY <2>1, <2>2, <2>3, <2>4, <2>5 DEF Steps
<1>. QED  BY <1>2, <1>3, <1>4, <1>5, <1>6 DEF Effect

----------------------------------------------------------------------------
(* Who has which sample is the same, ...                                    *)
SameAlone ==
    /\ Grows /\ UNCHANGED <<sending, receiving>>
    /\ \A s \in Samples :
          /\ sample'[s].owed = sample[s].owed /\ sample'[s].alive = sample[s].alive
          /\ sample'[s].state = "idle" <=> sample[s].state = "idle"
    /\ \A t \in Threads, s \in Samples :
          /\ Inside(t, s)' => Inside(t, s)
          /\ Plain(s) => (IsDone(t, s)' <=> IsDone(t, s))

(* ... and then nothing is lost.                                            *)
LEMMA AloneKept ==
    ASSUME Alone, SameAlone
    PROVE  Alone'
<1>1. \A s \in Samples : Plain(s)' => Plain(s)
  BY DEF Plain, SameAlone, Grows
<1>2. \A s \in Samples : Pointed(s)' <=> Pointed(s)
  BY DEF Pointed, SameAlone
<1>3. \A s \in Samples, t \in Threads :
         Inside(t, s)' => \A u \in Threads \ {t} : ~Inside(u, s)'
  BY DEF Alone, SameAlone
<1>4. ASSUME NEW s \in Samples, Plain(s)' PROVE Owed(s)'
  <2>1. Owed(s) /\ Plain(s)
    BY <1>1, <1>4 DEF Alone
  <2>2. \A u \in Others(s) : Plain(u)' /\ sample'[s].owed = 1 => sample'[u].owed = 0
    BY <1>1, <2>1 DEF Owed, SameAlone, Others
  <2>3. sample'[s].owed = 1 /\ sample'[s].state = "idle" =>
            \E t \in Threads : IsDone(t, s)'
    BY <2>1 DEF Owed, SameAlone
  <2>4. \A t \in Threads :
          /\ Inside(t, s)' => sample'[s].owed = 1 /\ sample'[s].state # "idle"
          /\ IsDone(t, s)' => sample'[s].owed = 1 /\ sample'[s].state = "idle"
          /\ \A u \in Threads \ {t} : IsDone(t, s)' => ~IsDone(u, s)'
    BY <2>1 DEF Owed, SameAlone
  <2>5. /\ sample'[s].owed \in 0..1 /\ (sample'[s].owed = 1 => sample'[s].alive)
        /\ Pointed(s)' => sample'[s].owed = 1 /\ sample'[s].state # "idle"
    BY <1>2, <2>1 DEF Owed, SameAlone
  <2>. QED  BY <2>2, <2>3, <2>4, <2>5 DEF Owed, Others
<1>. QED  BY <1>3, <1>4 DEF Alone

(* Most steps of a thread only take it on, or out.                          *)
LEMMA StepIsSameAlone ==
    ASSUME TypeOK, Places, Alone, NEW t \in Threads, Grows,
           \/ Failed(t) \/ Returned(t) \/ Saw(t) \/ Received(t) \/ Submitted(t)
           \/ PutOne(t) \/ LooksAgain(t) \/ Rewound(t)
    PROVE  SameAlone
<1>1. UNCHANGED <<sending, receiving>>
  BY DEF Failed, Returned, Saw, Received, Submitted, PutOne, LooksAgain, Rewound
<1>2. ASSUME NEW s \in Samples
      PROVE  /\ sample'[s].owed = sample[s].owed /\ sample'[s].alive = sample[s].alive
             /\ sample'[s].state = "idle" <=> sample[s].state = "idle"
  <2>1. CASE Failed(t) \/ Saw(t) \/ Received(t) \/ LooksAgain(t)
    BY <2>1 DEF Failed, Saw, Received, LooksAgain
  <2>2. CASE Returned(t)
    BY <2>2 DEF Returned, AllAlike, Alike
  <2>3. CASE Submitted(t) \/ PutOne(t) \/ Rewound(t)
    BY <2>3 DEF Submitted, PutOne, Rewound, Alters
  <2>. QED  BY <2>1, <2>2, <2>3
<1>3. \A u \in Threads \ {t} : thread'[u] = thread[u]
  BY DEF Failed, Returned, Saw, Received, Submitted, PutOne, LooksAgain, Rewound,
         Idles, GoesOn, Moves
<1>4. \/ thread'[t] = IdleThread
      \/ /\ thread'[t].s = thread[t].s /\ thread[t].pc \in Processing
         /\ thread'[t].pc \in {"process", "saw", "put", "again"}
  <2>1. CASE Failed(t) \/ Returned(t)
    BY <2>1 DEF Failed, Returned, Idles
  <2>2. CASE Saw(t) \/ Received(t) \/ Submitted(t)
    BY <2>2 DEF Saw, Received, Submitted, GoesOn, Processing
  <2>3. CASE PutOne(t) \/ LooksAgain(t) \/ Rewound(t)
    BY <2>3 DEF PutOne, LooksAgain, Rewound, GoesOn, Idles, Processing
  <2>. QED  BY <2>1, <2>2, <2>3
<1>5. ASSUME NEW s \in Samples, Plain(s) PROVE IsDone(t, s)' <=> IsDone(t, s)
  <2>1. ~IsDone(t, s)'
    BY <1>4 DEF IsDone, IdleThread
  <2>2. IsDone(t, s) => sample[s].owed = 1 /\ sample[s].alive
    BY <1>5 DEF Alone, Owed
  <2>3. ~IsDone(t, s)
    BY <2>2 DEF IsDone, Failed, Returned, Saw, Received, Submitted, PutOne, LooksAgain,
                Rewound, Processing
  <2>. QED  BY <2>1, <2>3
<1>6. \A s \in Samples : Inside(t, s)' => Inside(t, s)
  BY <1>4 DEF Inside, IdleThread, Processing
<1>. QED  BY <1>1, <1>2, <1>3, <1>5, <1>6 DEF SameAlone, Inside, IsDone

(* Each sample has its turn, unless both threads are in one.                *)
LEMMA AloneStep ==
    ASSUME TypeOK, TypeOK', Places, Alone, Effect, "both" \notin troubles'
    PROVE  Alone'
<1> USE DEF Threads
<1>1. Grows /\ \A s \in Samples : Plain(s)' => Plain(s)
  BY EffectGrows DEF Grows, Plain
<1>2. CASE \E t \in Threads, s \in Samples : Started(t, s)
  <2>1. PICK t \in Threads, s \in Samples : Started(t, s)
    BY <1>2
  <2>2. /\ \A u \in Others(s) \cup {s} : sample[u].owed <= 0
        /\ \A v \in Samples \ {s} : sample'[v] = sample[v]
        /\ sample'[s].owed = sample[s].owed + 1 /\ sample'[s].state # "idle"
        /\ sample'[s].alive
        /\ thread[t].pc \in {"idle", "told"}
        /\ \A u \in Threads \ {t} : thread'[u] = thread[u]
        /\ Pointed(s)' /\ \A v \in Samples \ {s} : Pointed(v)' => Pointed(v)
        /\ \A v \in Others(s) : ~Pointed(v)'
    BY <2>1 DEF Started, Moves, Idles, Pointed, Others
  <2>3. \A v \in Samples : ~IsDone(t, v) /\ ~IsDone(t, v)' /\ ~Inside(t, v)
    BY <2>1 DEF Started, IsDone, Inside, Idles, IdleThread, Processing
  <2>4. \A v \in Samples : Inside(t, v)' => v = s /\ Plain(s)
    BY <2>1 DEF Started, Inside, Idles, IdleThread, Processing, Plain
  <2>5. \A u \in Threads : Plain(s) => ~Inside(u, s) /\ ~IsDone(u, s)
    BY <2>2 DEF Alone, Owed
  <2>6. \A v \in Samples, u \in Threads :
           Inside(u, v)' => \A w \in Threads \ {u} : ~Inside(w, v)'
    BY <2>2, <2>3, <2>4, <2>5 DEF Alone, Inside
  <2>7. ASSUME NEW v \in Samples, Plain(v)' PROVE Owed(v)'
    <3>1. Owed(v) /\ Plain(v)
      BY <1>1, <2>7 DEF Alone
    <3>2. \A u \in Others(v) : Plain(u)' /\ sample'[v].owed = 1 => sample'[u].owed = 0
      <4>1. ASSUME NEW u \in Others(v), Plain(u)', sample'[v].owed = 1
            PROVE  sample'[u].owed = 0
        <5>1. u \in Samples /\ Owed(u) /\ v \in Others(u) /\ u # v
          BY <1>1, <4>1 DEF Alone, Others
        <5>. QED  BY <2>2, <3>1, <4>1, <5>1 DEF Owed, Others
      <4>. QED  BY <4>1
    <3>3. CASE v = s
      BY <2>2, <2>3, <2>4, <2>5, <3>1, <3>2, <3>3 DEF Owed, Inside, IsDone, Others
    <3>4. CASE v # s
      BY <2>2, <2>3, <2>4, <3>1, <3>2, <3>4 DEF Owed, Inside, IsDone, Others
    <3>. QED  BY <3>3, <3>4
  <2>. QED  BY <2>6, <2>7 DEF Alone
<1>3. CASE \E s \in Samples, status \in StopStatuses : StoppedBy(s, status)
  <2>1. PICK s \in Samples, status \in StopStatuses : StoppedBy(s, status)
    BY <1>3
  <2>2. \A v \in Samples : /\ sample'[v].owed = sample[v].owed
                           /\ sample'[v].alive = sample[v].alive
                           /\ sample'[v].state = "idle" <=> sample[v].state = "idle"
    BY <2>1 DEF StoppedBy, Alters
  <2>3. \A t \in Threads, v \in Samples :
           /\ Inside(t, v)' => Inside(t, v)
           /\ IsDone(t, v)' <=> IsDone(t, v)
    BY <2>1 DEF StoppedBy, Moves, Inside, IsDone, Processing
  <2>4. SameAlone
    BY <1>1, <2>1, <2>2, <2>3 DEF StoppedBy, SameAlone
  <2>. QED  BY <2>4, AloneKept
<1>4. CASE AbortedBy(thread["client"].s)
  <2>1. ASSUME NEW s \in Samples, NEW t \in Threads
        PROVE  /\ Inside(t, s)' => Inside(t, s)
               /\ Plain(s) => (IsDone(t, s)' <=> IsDone(t, s))
    <3>1. CASE t = "media"
      BY <1>4, <3>1 DEF AbortedBy, Idles, GoesOn, Moves, Inside, IsDone
    <3>2. CASE t = "client"
      <4>1. ~Inside(t, s)' /\ ~IsDone(t, s)
        BY <1>4, <3>2
           DEF AbortedBy, Idles, GoesOn, Inside, IsDone, Processing, IdleThread
      <4>2. Plain(s) => ~IsDone(t, s)'
        BY <1>4, <3>2
           DEF AbortedBy, Idles, GoesOn, IsDone, IdleThread, Places, Place, Plain
      <4>. QED  BY <4>1, <4>2
    <3>. QED  BY <3>1, <3>2
  <2>2. SameAlone
    BY <1>1, <1>4, <2>1 DEF AbortedBy, SameAlone
  <2>. QED  BY <2>2, AloneKept
<1>5. CASE \E event \in Events : Dispatched(event)
  <2>1. SameAlone
    BY <1>1, <1>5 DEF Dispatched, Moves, SameAlone, Inside, IsDone, Processing
  <2>. QED  BY <2>1, AloneKept
<1>6. CASE \E s \in Samples : Entered(s) \/ FirstOne(s)
  <2>1. PICK s \in Samples : Entered(s) \/ FirstOne(s)
    BY <1>6
  <2>2. /\ UNCHANGED <<sending, receiving>>
        /\ \A v \in Samples : /\ sample'[v].owed = sample[v].owed
                              /\ sample'[v].alive = sample[v].alive
                              /\ sample'[v].state = "idle" <=> sample[v].state = "idle"
        /\ thread'["client"] = thread["client"]
        /\ thread["media"].pc = "checked"
        /\ thread'["media"].s = s /\ thread'["media"].pc \in {"process", "first"}
    BY ZenonT(30), <2>1 DEF Entered, FirstOne, AllAlike, Alike, Alters, Moves
  <2>3. Pointed(s)
    <3>1. CASE Entered(s)
      BY <3>1 DEF Entered, Pointed, Places, Pointers, Named
    <3>2. CASE FirstOne(s)
      BY <3>2 DEF FirstOne, Pointed, IsOutgoing
    <3>. QED  BY <2>1, <3>1, <3>2
  <2>4. ~Inside("client", s)
    <3>1. CASE Entered(s)
      BY <3>1 DEF Entered, Shared, Inside
    <3>2. CASE FirstOne(s)
      BY <3>2 DEF FirstOne, Places, Place, Inside
    <3>. QED  BY <2>1, <3>1, <3>2
  <2>5. \A v \in Samples : /\ Inside("client", v)' <=> Inside("client", v)
                           /\ IsDone("client", v)' <=> IsDone("client", v)
                           /\ Inside("media", v)' <=> v = s
                           /\ ~IsDone("media", v) /\ ~IsDone("media", v)'
                           /\ Pointed(v)' <=> Pointed(v)
    BY <2>2 DEF Inside, IsDone, Processing, Pointed
  <2>6. \A v \in Samples, t \in Threads :
           Inside(t, v)' => \A u \in Threads \ {t} : ~Inside(u, v)'
    BY <2>4, <2>5
  <2>7. ASSUME NEW v \in Samples, Plain(v)' PROVE Owed(v)'
    <3>1. Owed(v)
      BY <1>1, <2>7 DEF Alone
    <3>2. \A u \in Others(v) : Plain(u)' /\ sample'[v].owed = 1 => sample'[u].owed = 0
      BY <1>1, <2>2, <3>1 DEF Owed, Others
    <3>3. \A t \in Threads : IsDone(t, v)' <=> IsDone(t, v)
      BY <2>5
    <3>4. \A t \in Threads :
            Inside(t, v)' => sample'[v].owed = 1 /\ sample'[v].state # "idle"
      BY <2>2, <2>3, <2>5, <3>1 DEF Owed
    <3>. QED  BY <2>2, <2>5, <3>1, <3>2, <3>3, <3>4 DEF Owed, Others
  <2>. QED  BY <2>6, <2>7 DEF Alone
<1>7. ASSUME NEW t \in Threads, Steps(t) PROVE Alone'
  <2> DEFINE s == thread[t].s
  <2>1. CASE \/ Failed(t) \/ Returned(t) \/ Saw(t) \/ Received(t) \/ Submitted(t)
             \/ PutOne(t) \/ LooksAgain(t) \/ Rewound(t)
    BY <1>1, <2>1, StepIsSameAlone, AloneKept
  <2>2. CASE Restarted(t)
    <3>1. s \in Samples /\ KindOf[s] = "beep" /\ Plain(s) /\ Inside(t, s) /\ Owed(s)
      BY <2>2 DEF Restarted, Places, Place, Plain, Inside, Processing, Alone
    <3>2. sample[s].owed = 1 /\ sample[s].state # "idle"
      BY <3>1 DEF Owed
    <3>3. \A v \in Samples : /\ sample'[v].owed = sample[v].owed
                             /\ sample'[v].alive = sample[v].alive
                             /\ sample'[v].state = "idle" <=> sample[v].state = "idle"
      BY <2>2, <3>2 DEF Restarted, Alters
    <3>4. \A u \in Threads, v \in Samples :
             /\ Inside(u, v)' <=> Inside(u, v)
             /\ IsDone(u, v)' <=> IsDone(u, v)
      BY <2>2 DEF Restarted, Moves, Inside, IsDone, Processing
    <3>5. \A v \in Samples : Pointed(v)' => v = s \/ Pointed(v)
      BY <2>2 DEF Restarted, Pointed
    <3>6. ASSUME NEW v \in Samples, Plain(v)' PROVE Owed(v)'
      <4>1. Owed(v)
        BY <1>1, <3>6 DEF Alone
      <4>2. \A u \in Others(v) : Plain(u)' /\ sample'[v].owed = 1 => sample'[u].owed = 0
        BY <1>1, <3>3, <4>1 DEF Owed, Others
      <4>3. Pointed(v)' => sample'[v].owed = 1 /\ sample'[v].state # "idle"
        BY <3>2, <3>3, <3>5, <4>1 DEF Owed
      <4>. QED  BY <3>3, <3>4, <4>1, <4>2, <4>3 DEF Owed, Others
    <3>. QED  BY <3>4, <3>6 DEF Alone
  <2>3. CASE Ended(t)
    <3>1. s \in Samples /\ Inside(t, s)
      BY <2>3 DEF Ended, Places, Place, Inside, Processing
    <3>2. /\ sample'[s].owed = sample[s].owed /\ sample'[s].alive = sample[s].alive
          /\ sample'[s].state = "idle"
          /\ \A v \in Samples \ {s} : sample'[v] = sample[v]
      BY <2>3 DEF Ended, Alters
    <3>3. /\ \A u \in Threads, v \in Samples : Inside(u, v)' => u # t /\ Inside(u, v)
          /\ \A v \in Samples : ~IsDone(t, v) /\ (IsDone(t, v)' <=> v = s)
          /\ \A u \in Threads \ {t}, v \in Samples : IsDone(u, v)' <=> IsDone(u, v)
      BY <2>3 DEF Ended, GoesOn, Moves, Inside, IsDone, Processing
    <3>4. \A v \in Samples : Pointed(v)' => v # s /\ Pointed(v)
      BY <2>3, <3>1, Constants DEF Ended, Pointed, SenderAfter
    <3>5. ASSUME NEW v \in Samples, Plain(v)' PROVE Owed(v)'
      <4>1. Owed(v)
        BY <1>1, <3>5 DEF Alone
      <4>2. \A u \in Others(v) : Plain(u)' /\ sample'[v].owed = 1 => sample'[u].owed = 0
        BY <1>1, <3>2, <4>1 DEF Owed, Others
      <4>3. CASE v = s
        <5>1. \A u \in Threads \ {t} : ~Inside(u, s) /\ ~IsDone(u, s)
          BY <3>1, <4>1, <4>3 DEF Alone, Owed
        <5>. QED  BY <3>1, <3>2, <3>3, <3>4, <4>1, <4>2, <4>3, <5>1 DEF Owed, Others
      <4>4. CASE v # s
        BY <3>2, <3>3, <3>4, <4>1, <4>2, <4>4 DEF Owed, Others
      <4>. QED  BY <4>3, <4>4
    <3>. QED  BY <3>3, <3>5 DEF Alone
  <2>4. CASE Reported(t)
    <3>1. s \in Samples /\ IsDone(t, s)
      BY <2>4 DEF Reported, Places, Place, IsDone
    <3>2. /\ sample'[s].owed = sample[s].owed - 1
          /\ sample'[s].state = sample[s].state
          /\ \A v \in Samples \ {s} : sample'[v] = sample[v]
      BY <2>4 DEF Reported
    <3>3. /\ \A u \in Threads, v \in Samples : Inside(u, v)' <=> Inside(u, v)
          /\ \A v \in Samples : ~IsDone(t, v)' /\ (IsDone(t, v) <=> v = s)
          /\ \A u \in Threads \ {t}, v \in Samples : IsDone(u, v)' <=> IsDone(u, v)
      BY <2>4, <3>1 DEF Reported, GoesOn, Moves, Inside, IsDone, Processing
    <3>4. \A v \in Samples : Pointed(v)' <=> Pointed(v)
      BY <2>4 DEF Reported, Pointed
    <3>5. Plain(s) => sample[s].owed = 1 /\ sample[s].state = "idle"
      BY <3>1 DEF Alone, Owed
    <3>6. ASSUME NEW v \in Samples, Plain(v)' PROVE Owed(v)'
      <4>1. Owed(v) /\ Plain(v)
        BY <1>1, <3>6 DEF Alone
      <4>2. \A u \in Others(v) : Plain(u)' /\ sample'[v].owed = 1 => sample'[u].owed = 0
        BY <1>1, <3>2, <3>5, <4>1 DEF Owed, Others
      <4>3. CASE v = s
        <5>1. sample'[s].owed = 0 /\ ~Pointed(s)
          BY <3>2, <3>5, <4>1, <4>3 DEF Owed
        <5>2. \A u \in Threads : ~Inside(u, v) /\ ~IsDone(u, v)'
          BY <3>1, <3>3, <3>5, <4>1, <4>3 DEF Owed
        <5>. QED  BY <3>3, <3>4, <4>3, <5>1, <5>2 DEF Owed, Others
      <4>4. CASE v # s
        BY <3>2, <3>3, <3>4, <4>1, <4>2, <4>4 DEF Owed, Others
      <4>. QED  BY <4>3, <4>4
    <3>. QED  BY <3>3, <3>6 DEF Alone
  <2>. QED  BY <1>7, <2>1, <2>2, <2>3, <2>4 DEF Steps
<1>8. CASE BoardMoves \/ TooEarly
  <2>1. SameAlone
    BY <1>1, <1>8 DEF BoardMoves, TooEarly, SameAlone, Inside, IsDone
  <2>. QED  BY <2>1, AloneKept
<1>. QED  BY <1>2, <1>3, <1>4, <1>5, <1>6, <1>7, <1>8 DEF Effect

----------------------------------------------------------------------------
(* Who is inside of an outgoing sample with data has the one that plays.    *)
LEMMA InsidePlays ==
    ASSUME Alone, NEW t \in Threads, NEW s \in Samples, Inside(t, s),
           KindOf[s] \in Replayed
    PROVE  PlaysOn(s) /\ Owed(s)
<1>1. Plain(s)
  BY DEF Plain, Replayed
<1>. QED  BY <1>1 DEF Alone, Owed, PlaysOn

(* There is only one such.                                                  *)
LEMMA OnePlays ==
    ASSUME Alone, NEW s \in Samples, NEW v \in Samples, PlaysOn(s), PlaysOn(v)
    PROVE  s = v
<1>1. Plain(s) /\ Plain(v)
  BY DEF Plain, PlaysOn, Replayed
<1>2. IsOutgoing(s) /\ IsOutgoing(v)
  BY DEF IsOutgoing, PlaysOn, Replayed
<1>3. SUFFICES ASSUME s # v PROVE FALSE
  OBVIOUS
<1>4. Owed(s) /\ v \in Others(s)
  BY <1>1, <1>2, <1>3 DEF Alone, Others
<1>. QED  BY <1>1, <1>4 DEF Owed, PlaysOn

(* Who has seen the end of a replay is inside of it.                        *)
LEMMA AtEndIsInside ==
    ASSUME Places, NEW t \in Threads, AtEnd(t)
    PROVE  thread[t].s \in Samples /\ Inside(t, thread[t].s)
  BY DEF Places, Place, AtEnd, Inside, Processing

(* When a sample may start, no thread is inside of one of its direction.    *)
LEMMA StartIsAlone ==
    ASSUME Alone, NEW t \in Threads, NEW s \in Samples, Started(t, s),
           NEW v \in Others(s) \cup {s}, Plain(v), NEW u \in Threads
    PROVE  ~Inside(u, v) /\ ~IsDone(u, v)
<1>1. v \in Samples /\ sample[v].owed <= 0
  BY DEF Started, Others
<1>2. Owed(v)
  BY <1>1 DEF Alone
<1>. QED  BY <1>1, <1>2 DEF Owed

(* Where a step takes a thread.                                             *)
LEMMA StepMoves ==
    ASSUME NEW t \in Threads, Steps(t)
    PROVE  /\ \A u \in Threads \ {t} : thread'[u] = thread[u]
           /\ \/ thread'[t] = IdleThread
              \/ thread'[t].s = thread[t].s
           /\ thread'[t].pc = "saw" => Saw(t)
           /\ thread'[t].pc = "again" => Rewound(t)
<1>1. CASE Failed(t) \/ Returned(t)
  <2>1. Idles(t)
    BY <1>1 DEF Failed, Returned
  <2>. QED  BY <2>1 DEF Idles, Moves, IdleThread
<1>2. CASE Saw(t) \/ Received(t) \/ Submitted(t)
  BY <1>2 DEF Saw, Received, Submitted, GoesOn, Moves
<1>3. CASE PutOne(t)
  BY <1>3 DEF PutOne, Idles, GoesOn, Moves, IdleThread
<1>4. CASE LooksAgain(t) \/ Rewound(t)
  BY <1>4 DEF LooksAgain, Rewound, GoesOn, Moves
<1>5. CASE Restarted(t) \/ Ended(t) \/ Reported(t)
  BY <1>5 DEF Restarted, Ended, Reported, GoesOn, Moves
<1>. QED  BY <1>1, <1>2, <1>3, <1>4, <1>5 DEF Steps

(* The board ends a recording for a reason, which stays.                    *)
LEMMA ReasonsStep ==
    ASSUME TypeOK, Places, Reasons, "both" \notin troubles => Alone, Effect
    PROVE  Reasons'
<1> DEFINE Sees(t) == /\ thread[t].pc = "saw" /\ thread[t].seen = "complete"
                      /\ KindOf[thread[t].s] = "record"
<1>1. ASSUME in'.reason = "none" => in.reason = "none",
             \A t \in Threads : Sees(t)' => Sees(t) \/ in'.reason # "none"
      PROVE  Reasons'
  BY <1>1 DEF Reasons
<1>2. CASE \E t \in Threads, s \in Samples : Started(t, s)
  <2>1. PICK t \in Threads, s \in Samples : Started(t, s)
    BY <1>2
  <2>2. ~Sees(t)'
    BY <2>1 DEF Started, Idles, IdleThread
  <2>3. \A u \in Threads \ {t} : thread'[u] = thread[u]
    BY <2>1 DEF Started, Moves, Idles
  <2>4. CASE IsOutgoing(s)
    <3>1. in' = in
      BY <2>1, <2>4 DEF Started
    <3>. QED  BY <1>1, <2>2, <2>3, <3>1
  <2>5. CASE ~IsOutgoing(s)
    <3>1. ASSUME NEW u \in Threads \ {t}, Sees(u) PROVE FALSE
      <4> DEFINE v == thread[u].s
      <4>1. v \in Samples /\ KindOf[v] = "record" /\ Inside(u, v) /\ Plain(v)
        BY <3>1 DEF Places, Place, Inside, Processing, Plain
      <4>2. v \in Others(s) \cup {s}
        BY <2>5, <4>1 DEF Others, IsOutgoing
      <4>3. Alone
        BY <2>1 DEF Started
      <4>. QED  BY <2>1, <4>1, <4>2, <4>3, StartIsAlone
    <3>. QED  BY <2>2, <2>3, <3>1 DEF Reasons
  <2>. QED  BY <2>4, <2>5
<1>3. CASE \E s \in Samples, status \in StopStatuses : StoppedBy(s, status)
  <2>1. in' = in /\ \A t \in Threads : Sees(t)' => Sees(t)
    BY <1>3 DEF StoppedBy, Moves
  <2>. QED  BY <1>1, <2>1
<1>4. CASE AbortedBy(thread["client"].s)
  <2>1. \A t \in Threads : Sees(t)' => Sees(t)
    BY <1>4 DEF AbortedBy, Moves, Idles, GoesOn, IdleThread
  <2>2. in'.reason = "none" => in.reason = "none"
    BY <1>4, OldTypes DEF AbortedBy, Aborted, InType
  <2>. QED  BY <1>1, <2>1, <2>2
<1>5. CASE \E event \in Events : Dispatched(event)
  <2>1. in' = in /\ \A t \in Threads : Sees(t)' => Sees(t)
    BY <1>5 DEF Dispatched, Moves
  <2>. QED  BY <1>1, <2>1
<1>6. CASE \E s \in Samples : Entered(s) \/ FirstOne(s)
  <2>1. in' = in /\ \A t \in Threads : Sees(t)' => Sees(t)
    <3>1. PICK s \in Samples : Entered(s) \/ FirstOne(s)
      BY <1>6
    <3>2. in' = in /\ Moves("media") /\ thread'["media"].pc # "saw"
      BY <3>1 DEF Entered, FirstOne
    <3>. QED  BY <3>2 DEF Moves
  <2>. QED  BY <1>1, <2>1
<1>7. ASSUME NEW t \in Threads, Steps(t) PROVE Reasons'
  <2>1. CASE Saw(t)
    <3>1. in' = in /\ (Sees(t)' => in.reason # "none")
      BY <2>1 DEF Saw, GoesOn, StatusOf, RecordStatus
    <3>2. \A u \in Threads \ {t} : thread'[u] = thread[u]
      BY <2>1 DEF Saw, GoesOn, Moves
    <3>. QED  BY <1>1, <3>1, <3>2
  <2>2. CASE ~Saw(t)
    <3>1. \A u \in Threads : Sees(u)' => Sees(u)
      BY <1>7, <2>2, StepMoves
    <3>2. in'.reason = in.reason
      BY <1>7, <2>2, OldTypes DEF Steps, Failed, Returned, Received, Submitted, PutOne,
         LooksAgain, Rewound, Restarted, Ended, Reported, InType
    <3>. QED  BY <1>1, <3>1, <3>2
  <2>. QED  BY <2>1, <2>2
<1>8. CASE BoardMoves
  <2>1. thread' = thread /\ (in'.reason = "none" => in.reason = "none")
    BY <1>8, OldTypes DEF BoardMoves, InType
  <2>. QED  BY <1>1, <2>1
<1>9. CASE TooEarly
  BY <1>1, <1>9 DEF TooEarly
<1>. QED  BY <1>2, <1>3, <1>4, <1>5, <1>6, <1>7, <1>8, <1>9 DEF Effect

----------------------------------------------------------------------------
(* The same samples play on, and the board is not further from the end.     *)
SameBoard ==
    /\ \A s \in Samples :
          /\ PlaysOn(s)' <=> PlaysOn(s)
          /\ PlaysOn(s) =>
                (sample'[s].state = "waiting" <=> sample[s].state = "waiting")
    /\ out'.job = out.job /\ (out'.endless <=> out.endless)
    /\ IsComplete(out) => IsComplete(out')
    /\ \A t \in Threads : AtEnd(t)' => AtEnd(t) \/ IsComplete(out')

(* ... and then it still plays what they are.                               *)
LEMMA BoardsKept ==
    ASSUME Boards, SameBoard
    PROVE  Boards'
  BY DEF Boards, SameBoard

(* Who plays depends on two fields of a sample.                             *)
LEMMA SamePlays ==
    ASSUME \A s \in Samples : /\ sample'[s].owed = sample[s].owed
                              /\ sample'[s].state = sample[s].state
    PROVE  \A s \in Samples :
              /\ PlaysOn(s)' <=> PlaysOn(s)
              /\ PlaysOn(s) =>
                (sample'[s].state = "waiting" <=> sample[s].state = "waiting")
  BY DEF PlaysOn

(* The board plays what the samples are, after every step.                  *)
LEMMA BoardsStep ==
    ASSUME TypeOK, TypeOK', Places, Alone, Boards, Effect
    PROVE  Boards'
<1> USE DEF Threads
<1>1. ASSUME UNCHANGED out, \A t \in Threads : AtEnd(t)' => AtEnd(t),
             \A s \in Samples : /\ sample'[s].owed = sample[s].owed
                                /\ sample'[s].state = sample[s].state
      PROVE  Boards'
  <2>1. SameBoard
    BY <1>1, SamePlays DEF SameBoard
  <2>. QED  BY <2>1, BoardsKept
<1>2. CASE \E t \in Threads, s \in Samples : Started(t, s)
  <2>1. PICK t \in Threads, s \in Samples : Started(t, s)
    BY <1>2
  <2>2. ~AtEnd(t)' /\ \A u \in Threads \ {t} : AtEnd(u)' <=> AtEnd(u)
    BY <2>1 DEF Started, Moves, Idles, IdleThread, AtEnd
  <2>3. CASE ~IsOutgoing(s)
    <3>1. \A v \in Samples : /\ PlaysOn(v)' <=> PlaysOn(v)
                             /\ PlaysOn(v) => sample'[v].state = sample[v].state
      BY <2>1, <2>3 DEF Started, PlaysOn, Replayed, IsOutgoing
    <3>2. out' = out
      BY <2>1, <2>3 DEF Started, IsOutgoing
    <3>3. SameBoard
      BY <2>2, <3>1, <3>2 DEF SameBoard
    <3>. QED  BY <3>3, BoardsKept
  <2>4. CASE IsOutgoing(s)
    <3>1. \A v \in Samples \ {s} : KindOf[v] \in Replayed =>
             v \in Others(s) /\ sample[v].owed <= 0 /\ sample'[v] = sample[v]
      BY <2>1, <2>4 DEF Started, Others, Replayed, IsOutgoing
    <3>2. \A v \in Samples : ~PlaysOn(v) /\ (PlaysOn(v)' => v = s)
      BY <2>1, <3>1, SampleFields DEF PlaysOn, Started, Others
    <3>3. \A u \in Threads : ~AtEnd(u)'
      BY <2>2, <3>2, AtEndIsInside, InsidePlays DEF AtEnd
    <3>4. IsComplete(out)
      BY <3>2 DEF Boards
    <3>5. CASE KindOf[s] = "udp"
      <4>1. out' = out /\ sample'[s].state = "waiting"
        BY <2>1, <3>5 DEF Started
      <4>. QED  BY <3>2, <3>3, <3>4, <3>5, <4>1 DEF Boards
    <3>6. CASE KindOf[s] = "tones"
      <4>1. out'.job = "tones"
        BY <2>1, <3>6 DEF Started, Silent
      <4>2. IsComplete(out') /\ ~PlaysOn(s)'
        BY <3>6, <4>1 DEF IsComplete, PlaysOn, Replayed
      <4>. QED  BY <3>2, <3>3, <4>2 DEF Boards
    <3>7. CASE KindOf[s] \in {"file", "beep"}
      <4>1. out'.job = "replay" /\ out'.endless = FALSE
        BY <2>1, <3>7 DEF Started, Replay
      <4>2. PlaysOn(s)'
        <5>1. sample'[s].owed = sample[s].owed + 1 /\ sample[s].owed <= 0
              /\ sample'[s].state = "active"
          BY <2>1, <3>7 DEF Started
        <5>2. sample[s].owed = 0
          BY <3>7, <5>1 DEF Alone, Owed, Plain
        <5>. QED  BY <3>7, <5>1, <5>2 DEF PlaysOn, Replayed
      <4>. QED  BY <3>2, <3>3, <3>7, <4>1, <4>2 DEF Boards
    <3>. QED  BY <2>4, <3>5, <3>6, <3>7, Constants DEF IsOutgoing, Kinds
  <2>. QED  BY <2>3, <2>4
<1>3. CASE \E s \in Samples, status \in StopStatuses : StoppedBy(s, status)
  <2>1. PICK s \in Samples, status \in StopStatuses : StoppedBy(s, status)
    BY <1>3
  <2>2. \A v \in Samples :
           /\ PlaysOn(v)' <=> PlaysOn(v)
           /\ sample'[v].state = "waiting" <=> sample[v].state = "waiting"
    BY <2>1 DEF StoppedBy, Alters, PlaysOn
  <2>3. out' = out /\ \A t \in Threads : AtEnd(t)' => AtEnd(t)
    BY <2>1 DEF StoppedBy, Moves, AtEnd
  <2>4. SameBoard
    BY <2>2, <2>3 DEF SameBoard
  <2>. QED  BY <2>4, BoardsKept
<1>4. CASE AbortedBy(thread["client"].s)
  <2>1. \A t \in Threads : AtEnd(t)' => AtEnd(t)
    BY <1>4 DEF AbortedBy, Moves, Idles, GoesOn, IdleThread, AtEnd
  <2>2. /\ out'.job = out.job /\ (out'.endless <=> out.endless)
        /\ IsComplete(out) => IsComplete(out')
    BY <1>4, OldTypes DEF AbortedBy, IsComplete, OutType, AllData
  <2>3. SameBoard
    BY <1>4, <2>1, <2>2, SamePlays DEF SameBoard, AbortedBy
  <2>. QED  BY <2>3, BoardsKept
<1>5. CASE \E event \in Events : Dispatched(event)
  <2>1. UNCHANGED <<sample, out>> /\ \A t \in Threads : AtEnd(t)' => AtEnd(t)
    BY <1>5 DEF Dispatched, Moves, AtEnd
  <2>. QED  BY <1>1, <2>1
<1>6. CASE \E s \in Samples : Entered(s)
  <2>1. /\ UNCHANGED out /\ \A t \in Threads : AtEnd(t)' => AtEnd(t)
        /\ AllAlike
    BY <1>6 DEF Entered, Moves, AtEnd
  <2>. QED  BY <1>1, <2>1 DEF AllAlike, Alike
<1>7. CASE \E s \in Samples : FirstOne(s)
  <2>1. PICK s \in Samples : FirstOne(s)
    BY <1>7
  <2>2. PlaysOn(s) /\ KindOf[s] = "udp"
    <3>1. KindOf[s] = "udp" /\ Pointed(s) /\ Plain(s)
      BY <2>1 DEF FirstOne, Pointed, IsOutgoing, Plain
    <3>. QED  BY <3>1 DEF Alone, Owed, PlaysOn, Replayed
  <2>3. PlaysOn(s)' /\ sample'[s].state = "active"
    BY <2>1, <2>2 DEF FirstOne, Alters, PlaysOn
  <2>4. \A v \in Samples : PlaysOn(v)' => v = s
    <3>1. \A v \in Samples \ {s} : PlaysOn(v)' => PlaysOn(v)
      BY <2>1 DEF FirstOne, Alters, PlaysOn
    <3>. QED  BY <2>2, <3>1, OnePlays
  <2>5. ~AtEnd("client")
    <3>1. SUFFICES ASSUME AtEnd("client") PROVE FALSE
      OBVIOUS
    <3>2. thread["client"].s = s
      BY <2>2, <3>1, AtEndIsInside, InsidePlays, OnePlays DEF AtEnd
    <3>. QED  BY <2>2, <3>1, <3>2 DEF AtEnd, Places, Place, Processing
  <2>6. \A t \in Threads : ~AtEnd(t)'
    BY <2>1, <2>5 DEF FirstOne, Moves, AtEnd
  <2>7. out'.job = "replay" /\ out'.endless
    BY <2>1 DEF FirstOne, Replay
  <2>. QED  BY <2>2, <2>3, <2>4, <2>6, <2>7 DEF Boards
<1>8. ASSUME NEW t \in Threads, Steps(t) PROVE Boards'
  <2> DEFINE s == thread[t].s
  <2>1. CASE Failed(t) \/ Returned(t) \/ Received(t) \/ LooksAgain(t)
    <3>1. thread'[t].pc \notin {"saw", "again"}
      <4>1. Idles(t) \/ GoesOn(t, "process")
        BY <2>1 DEF Failed, Returned, Received, LooksAgain
      <4>. QED  BY <4>1 DEF Idles, GoesOn, IdleThread
    <3>3. out' = out /\ \A u \in Threads : AtEnd(u)' => AtEnd(u)
      BY <1>8, <2>1, <3>1, StepMoves DEF Failed, Returned, Received, LooksAgain, AtEnd
    <3>2. \A v \in Samples : /\ sample'[v].owed = sample[v].owed
                             /\ sample'[v].state = sample[v].state
      BY <2>1 DEF Failed, Returned, Received, LooksAgain, AllAlike, Alike
    <3>. QED  BY <1>1, <3>2, <3>3
  <2>2. CASE Saw(t)
    <3>1. UNCHANGED <<sample, out>> /\ \A u \in Threads \ {t} : AtEnd(u)' => AtEnd(u)
      BY <2>2 DEF Saw, GoesOn, Moves, AtEnd
    <3>2. AtEnd(t)' => IsComplete(out)
      BY <2>2 DEF Saw, GoesOn, AtEnd, Replayed, StatusOf, ReplayStatus, IsComplete
    <3>3. SameBoard
      BY <3>1, <3>2, SamePlays DEF SameBoard
    <3>. QED  BY <3>3, BoardsKept
  <2>3. CASE Submitted(t) \/ Rewound(t)
    <3>1. out' = out /\ \A u \in Threads : AtEnd(u)' => AtEnd(u)
      BY <2>3 DEF Submitted, Rewound, GoesOn, Moves, AtEnd
    <3>2. \A v \in Samples : /\ sample'[v].owed = sample[v].owed
                             /\ sample'[v].state = sample[v].state
      BY <2>3 DEF Submitted, Rewound, Alters
    <3>. QED  BY <1>1, <3>1, <3>2
  <2>4. CASE PutOne(t)
    <3>1. ~IsComplete(out)
      BY <2>4 DEF PutOne, Accepts, IsComplete
    <3>2. \A u \in Threads : AtEnd(u)' => AtEnd(u)
      BY <2>4 DEF PutOne, Idles, GoesOn, Moves, AtEnd, IdleThread
    <3>3. out'.job = out.job /\ (out'.endless <=> out.endless)
      BY <2>4, OldTypes DEF PutOne, IsPut, OutType
    <3>4. \A v \in Samples : /\ sample'[v].owed = sample[v].owed
                             /\ sample'[v].state = sample[v].state
      BY <2>4 DEF PutOne, Alters
    <3>5. SameBoard
      BY <3>1, <3>2, <3>3, <3>4, SamePlays DEF SameBoard
    <3>. QED  BY <3>5, BoardsKept
  <2>5. CASE Restarted(t)
    <3>1. s \in Samples /\ KindOf[s] = "beep" /\ Inside(t, s) /\ PlaysOn(s)
      BY <2>5, InsidePlays DEF Restarted, Places, Place, Inside, Processing, Replayed
    <3>2. \A v \in Samples : PlaysOn(v)' => v = s
      <4>1. \A v \in Samples \ {s} : PlaysOn(v)' => PlaysOn(v)
        BY <2>5 DEF Restarted, Alters, PlaysOn
      <4>. QED  BY <3>1, <4>1, OnePlays
    <3>3. sample'[s].owed = 1 /\ sample'[s].state = "active"
      BY <2>5, <3>1 DEF Restarted, Alters, PlaysOn
    <3>4. ASSUME NEW u \in Threads, AtEnd(u)' PROVE FALSE
      <4>1. u # t /\ AtEnd(u)
        BY <2>5, <3>4 DEF Restarted, Moves, AtEnd
      <4>2. Inside(u, s)
        BY <3>1, <4>1, AtEndIsInside, InsidePlays, OnePlays DEF AtEnd
      <4>. QED  BY <3>1, <4>1, <4>2 DEF Alone
    <3>5. out'.job = "replay" /\ out'.endless = FALSE
      BY <2>5 DEF Restarted, Replay
    <3>6. \E v \in Samples : PlaysOn(v)'
      BY <3>1, <3>3 DEF PlaysOn
    <3>. QED  BY <3>1, <3>2, <3>3, <3>4, <3>5, <3>6 DEF Boards
  <2>6. CASE Ended(t)
    <3>1. s \in Samples /\ Inside(t, s)
      BY <2>6 DEF Ended, Places, Place, Inside, Processing
    <3>2. out' = out /\ \A u \in Threads : AtEnd(u)' => AtEnd(u)
      BY <2>6 DEF Ended, GoesOn, Moves, AtEnd
    <3>3. sample'[s].state = "idle" /\ \A v \in Samples \ {s} : sample'[v] = sample[v]
      BY <2>6 DEF Ended, Alters
    <3>4. CASE KindOf[s] \in Replayed
      <4>1. IsComplete(out)
        BY <2>6, <3>4 DEF Ended, AtEnd, Boards
      <4>2. PlaysOn(s)
        BY <3>1, <3>4, InsidePlays
      <4>3. ASSUME NEW v \in Samples PROVE ~PlaysOn(v)'
        <5>1. PlaysOn(v)' => v # s /\ PlaysOn(v)
          BY <3>3 DEF PlaysOn
        <5>2. PlaysOn(v) => v = s
          BY <3>1, <4>2, OnePlays
        <5>. QED  BY <5>1, <5>2
      <4>. QED  BY <3>2, <4>1, <4>3 DEF Boards
    <3>5. CASE KindOf[s] \notin Replayed
      <4>1. \A v \in Samples : /\ PlaysOn(v)' <=> PlaysOn(v)
                               /\ PlaysOn(v) => sample'[v] = sample[v]
        BY <3>3, <3>5 DEF PlaysOn
      <4>2. SameBoard
        BY <3>2, <4>1 DEF SameBoard
      <4>. QED  BY <4>2, BoardsKept
    <3>. QED  BY <3>4, <3>5
  <2>7. CASE Reported(t)
    <3>1. s \in Samples /\ IsDone(t, s)
      BY <2>7 DEF Reported, Places, Place, IsDone
    <3>2. out' = out /\ \A u \in Threads : AtEnd(u)' => AtEnd(u)
      BY <2>7 DEF Reported, GoesOn, Moves, AtEnd
    <3>3. KindOf[s] \in Replayed => sample[s].state = "idle"
      BY <3>1 DEF Alone, Owed, Plain, Replayed
    <3>4. \A v \in Samples : /\ PlaysOn(v)' <=> PlaysOn(v)
                             /\ PlaysOn(v) => sample'[v] = sample[v]
      BY <2>7, <3>3 DEF Reported, PlaysOn
    <3>5. SameBoard
      BY <3>2, <3>4 DEF SameBoard
    <3>. QED  BY <3>5, BoardsKept
  <2>. QED  BY <1>8, <2>1, <2>2, <2>3, <2>4, <2>5, <2>6, <2>7 DEF Steps
<1>9. CASE BoardMoves
  <2>1. UNCHANGED <<sample, thread>>
    BY <1>9 DEF BoardMoves
  <2>2. /\ out'.job = out.job /\ (out'.endless <=> out.endless)
        /\ IsComplete(out) => IsComplete(out')
    <3>1. CASE out' = out
      BY <3>1
    <3>2. CASE out' = [out EXCEPT !.ended = TRUE]
      BY <3>2, OldTypes DEF IsComplete, OutType
    <3>3. CASE /\ out.job = "replay" /\ ~out.ended /\ out.buffered > 0
               /\ out' = [out EXCEPT !.buffered = @ - 1]
      BY <3>3, OldTypes DEF IsComplete, OutType, AllData
    <3>. QED  BY <1>9, <3>1, <3>2, <3>3 DEF BoardMoves
  <2>3. SameBoard
    BY <2>1, <2>2, SamePlays DEF SameBoard, AtEnd
  <2>. QED  BY <2>3, BoardsKept
<1>10. CASE TooEarly
  BY <1>1, <1>10 DEF TooEarly, AtEnd
<1>. QED  BY <1>2, <1>3, <1>4, <1>5, <1>6, <1>7, <1>8, <1>9, <1>10 DEF Effect

----------------------------------------------------------------------------
(* The board asks for more when it takes more.                              *)
LEMMA CapacityAccepts ==
    ASSUME TypeOK, ReplayStatus = "capacity"
    PROVE  Accepts
  BY OldTypes, Constants DEF ReplayStatus, Accepts, OutType

(* Nothing that a thread has in hand changes, and the board has as much.    *)
SameFed ==
    /\ out'.got = out.got /\ out'.owed = out.owed /\ out'.garbled = out.garbled
    /\ ~out'.ended => ~out.ended /\ out'.endless = out.endless
                         /\ out'.buffered <= out.buffered
    /\ \A s \in Samples : /\ PlaysOn(s)' => PlaysOn(s)
                          /\ sample'[s].next = sample[s].next
    /\ \A t \in Threads :
          \/ thread'[t] = thread[t]
          \/ /\ thread[t].pc \notin {"put", "again"}
             /\ thread'[t].pc \notin {"put", "again"}
             /\ ~(thread'[t].pc = "saw" /\ thread'[t].seen = "capacity")

(* ... and then the board still has what it should.                         *)
LEMMA FedKept ==
    ASSUME TypeOK, TypeOK', Places, Fed, SameFed
    PROVE  Fed'
<1>1. ~out'.garbled
  BY DEF Fed, SameFed
<1>2. ASSUME NEW t \in Threads, thread'[t].pc = "again"
      PROVE  sample'[thread'[t].s].next = 1
  <2>1. thread'[t] = thread[t]
    BY <1>2 DEF SameFed
  <2>2. sample[thread[t].s].next = 1
    BY <1>2, <2>1 DEF Fed
  <2>3. thread[t].s \in Samples
    BY <1>2, <2>1 DEF Places, Place
  <2>. QED  BY <2>1, <2>2, <2>3 DEF SameFed
<1>3. ASSUME NEW s \in Samples, PlaysOn(s)', KindOf[s] # "udp"
      PROVE  /\ out'.got + out'.owed = Length(s)
             /\ ~out'.ended => Position(s)'
  <2>1. PlaysOn(s) /\ out.got + out.owed = Length(s) /\ (~out.ended => Position(s))
    BY <1>3 DEF SameFed, Fed
  <2>2. ASSUME ~out'.ended PROVE Position(s)'
    <3>1. Position(s) /\ (AllData(out') => AllData(out)) /\ out'.got = out.got
      BY <2>1, <2>2 DEF SameFed, AllData
    <3>2. out.buffered < Buffers => out'.buffered < Buffers
      BY <2>2, Constants DEF SameFed, TypeOK
    <3>3. sample'[s].next = sample[s].next
      BY DEF SameFed
    <3>4. \A t \in Threads :
             \/ thread'[t] = thread[t]
             \/ /\ thread[t].pc \notin {"put", "again"}
                /\ thread'[t].pc \notin {"put", "again"}
                /\ ~(thread'[t].pc = "saw" /\ thread'[t].seen = "capacity")
      BY DEF SameFed
    <3>5. (\A t \in Threads : thread'[t].s = s => thread'[t].pc \notin {"put", "again"})
             => sample'[s].next = out'.got + 1
      BY <3>1, <3>3, <3>4 DEF Position
    <3>6. ASSUME NEW t \in Threads, thread'[t].s = s
          PROVE  /\ thread'[t].pc = "put" =>
                       /\ thread'[t].chunk = out'.got + 1
                       /\ sample'[s].next =
                             out'.got + IF KindOf[s] = "file" THEN 2 ELSE 1
                 /\ thread'[t].pc = "put"
                      \/ (thread'[t].pc = "saw" /\ thread'[t].seen = "capacity")
                    => ~AllData(out') /\ out'.buffered < Buffers
      BY <3>1, <3>2, <3>3, <3>4, <3>6 DEF Position
    <3>. QED  BY <3>5, <3>6 DEF Position
  <2>. QED  BY <2>1, <2>2 DEF SameFed
<1>. QED  BY <1>1, <1>2, <1>3 DEF Fed

(* Where only sample s plays, it is all there is to show.                   *)
LEMMA FedAlone ==
    ASSUME NEW s \in Samples, ~out'.garbled,
           \A t \in Threads : thread'[t].pc = "again" => sample'[thread'[t].s].next = 1,
           \A v \in Samples : PlaysOn(v)' => v = s,
           KindOf[s] # "udp" => /\ out'.got + out'.owed = Length(s)
                                /\ ~out'.ended => Position(s)'
    PROVE  Fed'
  BY DEF Fed

(* A thread that is inside of the sample that plays has it for itself.      *)
LEMMA InsideAlone ==
    ASSUME Places, Alone, NEW t \in Threads, NEW s \in Samples, Inside(t, s),
           KindOf[s] \in Replayed
    PROVE  /\ PlaysOn(s)
           /\ \A v \in Samples : PlaysOn(v) => v = s
           /\ \A u \in Threads \ {t} :
                 /\ thread[u].pc \in Processing => thread[u].s # s
                 /\ thread[u].pc \notin {"put", "first", "again"}
<1>1. PlaysOn(s)
  BY InsidePlays
<1>2. \A u \in Threads \ {t} : thread[u].pc \in Processing => thread[u].s # s
  BY DEF Alone, Inside
<1>3. ASSUME NEW u \in Threads \ {t}, thread[u].pc \in {"put", "first", "again"}
      PROVE  FALSE
  <2>1. /\ thread[u].s \in Samples /\ KindOf[thread[u].s] \in Replayed
        /\ Inside(u, thread[u].s)
    BY <1>3 DEF Places, Place, Inside, Processing, Replayed
  <2>2. thread[u].s = s
    BY <1>1, <2>1, InsidePlays, OnePlays
  <2>. QED  BY <1>2, <1>3, <2>2 DEF Processing
<1>. QED  BY <1>1, <1>2, <1>3, OnePlays

(* What a thread does that has a chunk in hand, or starts the next beep.    *)
LEMMA FedInside ==
    ASSUME TypeOK, TypeOK', Places, Alone, Boards, Fed, NEW t \in Threads, Steps(t),
           \/ Returned(t) /\ thread[t].pc \in {"put", "first"}
           \/ Submitted(t) \/ PutOne(t) \/ LooksAgain(t) \/ Rewound(t) \/ Restarted(t)
    PROVE  Fed'
<1> USE DEF Threads
<1>1. thread[t].pc \in {"saw", "put", "first", "again"}
  BY DEF Submitted, PutOne, LooksAgain, Rewound, Restarted
<1>2. PICK s \in Samples : /\ s = thread[t].s /\ KindOf[s] \in Replayed /\ Inside(t, s)
                           /\ thread[t].pc = "first" => KindOf[s] = "udp"
  <2>1. Place(t)
    BY DEF Places
  <2>2. CASE Submitted(t)
    BY <2>1, <2>2, Constants
       DEF Submitted, Place, Inside, Processing, SeenOf, Replayed, Kinds
  <2>3. CASE Rewound(t)
    BY <2>1, <2>3 DEF Rewound, Place, Inside, Processing, Replayed
  <2>4. CASE thread[t].pc \in {"put", "first", "again"}
    BY <2>1, <2>4 DEF Place, Inside, Processing, Replayed
  <2>. QED  BY <2>2, <2>3, <2>4 DEF PutOne, LooksAgain, Restarted
<1>3. /\ PlaysOn(s) /\ \A v \in Samples : PlaysOn(v) => v = s
      /\ \A u \in Threads \ {t} :
            /\ thread[u].pc \in Processing => thread[u].s # s
            /\ thread[u].pc \notin {"put", "first", "again"}
  BY <1>2, InsideAlone
<1>4. \A u \in Threads \ {t} :
         /\ thread'[u] = thread[u]
         /\ thread'[u].s = s => thread'[u].pc \notin {"saw", "put", "again"}
         /\ thread'[u].pc \notin {"put", "again"}
  BY <1>3, StepMoves DEF Processing
<1>5. /\ KindOf[s] # "udp" => /\ out.got + out.owed = Length(s)
                              /\ ~out.ended => Position(s)
      /\ ~out.garbled
  BY <1>3 DEF Fed
<1>6. /\ ~IsComplete(out) => /\ out.job = "replay"
                             /\ out.endless <=> KindOf[s] = "udp"
      /\ KindOf[s] # "udp" => out.job = "replay" /\ ~out.endless
  BY <1>3 DEF Boards
<1>7. ASSUME NEW v \in Samples, PlaysOn(v)' PROVE v = s
  <2>1. v # s => PlaysOn(v)
    BY <1>2, <1>7 DEF Returned, Submitted, PutOne, LooksAgain, Rewound, Restarted,
                      AllAlike, Alike, Alters, PlaysOn
  <2>. QED  BY <1>3, <2>1
<1>8. /\ out.got \in Nat /\ out.owed \in Nat /\ sample[s].next \in Nat \ {0}
      /\ Length(s) \in Nat \ {0} /\ out.buffered \in 0..Buffers
  BY Constants, OldTypes, SampleFields DEF OutType
<1>9. CASE Returned(t) \/ LooksAgain(t)
  <2>0. (Returned(t) /\ thread[t].pc \in {"put", "first"}) \/ LooksAgain(t)
    BY <1>1, <1>9 DEF LooksAgain, Submitted, PutOne, Rewound, Restarted, Returned
  <2>1. /\ out' = out /\ thread'[t].pc \in {"idle", "process"}
        /\ sample'[s].next = sample[s].next
        /\ thread[t].pc \in {"put", "first"}
        /\ thread[t].chunk = 0 \/ ~Accepts
    <3>1. CASE Returned(t) /\ thread[t].pc \in {"put", "first"}
      <4>1. Idles(t) /\ AllAlike
        BY <3>1 DEF Returned
      <4>2. out' = out /\ (thread[t].chunk = 0 \/ ~Accepts)
        BY <3>1 DEF Returned
      <4>. QED  BY <3>1, <4>1, <4>2 DEF Idles, IdleThread, AllAlike, Alike
    <3>2. CASE LooksAgain(t)
      BY <3>2 DEF LooksAgain, GoesOn
    <3>. QED  BY <2>0, <3>1, <3>2
  <2>2. ASSUME KindOf[s] # "udp", ~out.ended PROVE FALSE
    <3>1. Position(s) /\ thread[t].pc = "put"
      BY <1>2, <1>5, <2>1, <2>2
    <3>2. thread[t].chunk = out.got + 1 /\ ~AllData(out) /\ out.buffered < Buffers
      BY <1>2, <3>1 DEF Position
    <3>. QED  BY <1>6, <1>8, <2>1, <2>2, <3>2 DEF Accepts
  <2>3. \A u \in Threads : thread'[u].pc # "again"
    BY <1>4, <2>1
  <2>. QED  BY <1>5, <1>7, <2>1, <2>2, <2>3, FedAlone
<1>10. CASE Submitted(t)
  <2>1. /\ out' = out /\ thread'[t].pc = "put" /\ thread'[t].s = s
        /\ thread'[t].chunk = (IF KindOf[s] = "udp" THEN 1 ELSE NextChunk(s))
        /\ sample'[s].next = IF KindOf[s] # "file" \/ NextChunk(s) = 0
                             THEN sample[s].next ELSE sample[s].next + 1
        /\ thread[t].pc = "saw" /\ thread[t].seen = "capacity"
    BY <1>2, <1>10 DEF Submitted, GoesOn
  <2>2. ASSUME KindOf[s] # "udp", ~out.ended PROVE Position(s)'
    <3>1. ~AllData(out) /\ out.buffered < Buffers /\ sample[s].next = out.got + 1
      BY <1>2, <1>3, <1>5, <2>1, <2>2 DEF Position, Processing
    <3>2. out.owed > 0
      BY <1>6, <1>8, <2>2, <3>1 DEF AllData
    <3>3. NextChunk(s) = sample[s].next /\ NextChunk(s) # 0
      BY <1>5, <1>8, <2>2, <3>1, <3>2 DEF NextChunk
    <3>4. /\ thread'[t].chunk = out.got + 1
          /\ sample'[s].next = out.got + IF KindOf[s] = "file" THEN 2 ELSE 1
      BY <1>8, <2>1, <2>2, <3>1, <3>3
    <3>. QED  BY <1>4, <2>1, <3>1, <3>4 DEF Position
  <2>3. \A u \in Threads : thread'[u].pc # "again"
    BY <1>4, <2>1
  <2>. QED  BY <1>5, <1>7, <2>1, <2>2, <2>3, FedAlone
<1>11. CASE PutOne(t)
  <2>1. /\ Accepts /\ out' = IsPut(out, thread[t].chunk)
        /\ thread'[t].pc \in {"idle", "process"}
        /\ sample'[s].next = IF KindOf[s] = "beep" /\ sample[s].next <= BeepChunks
                             THEN sample[s].next + 1 ELSE sample[s].next
        /\ thread[t].pc \in {"put", "first"}
    BY <1>2, <1>11 DEF PutOne, Idles, GoesOn, IdleThread
  <2>2. /\ out.job = "replay" /\ (out.endless <=> KindOf[s] = "udp") /\ ~out.ended
        /\ ~out.endless => out.owed > 0
    BY <1>6, <1>8, <2>1 DEF Accepts, IsComplete, AllData
  <2>3. \A u \in Threads : thread'[u].pc # "again"
    BY <1>4, <2>1
  <2>4. CASE KindOf[s] = "udp"
    <3>1. ~out'.garbled
      BY <1>5, <2>1, <2>2, <2>4, OldTypes DEF IsPut, OutType
    <3>. QED  BY <1>7, <2>3, <2>4, <3>1, FedAlone
  <2>5. CASE KindOf[s] # "udp"
    <3>1. thread[t].pc = "put" /\ Position(s)
      BY <1>2, <1>5, <2>1, <2>2, <2>5
    <3>2. /\ thread[t].chunk = out.got + 1
          /\ sample[s].next = out.got + IF KindOf[s] = "file" THEN 2 ELSE 1
      BY <1>2, <3>1 DEF Position
    <3>3. /\ out'.got = out.got + 1 /\ out'.owed = out.owed - 1
          /\ out'.garbled = (out.garbled \/ thread[t].chunk # out.got + 1)
      BY <2>1, <2>2, <2>5, OldTypes DEF IsPut, OutType
    <3>4. sample'[s].next = out'.got + 1
      <4>1. KindOf[s] = "beep" => Length(s) = BeepChunks
        BY DEF Length
      <4>2. KindOf[s] \in {"file", "beep"}
        BY <1>2, <2>5 DEF Replayed
      <4>. QED  BY <1>5, <1>8, <2>1, <2>2, <2>5, <3>2, <3>3, <4>1, <4>2
    <3>5. \A u \in Threads : thread'[u].s = s => thread'[u].pc \notin {"saw", "put"}
      BY <1>4, <2>1
    <3>6. Position(s)'
      BY <3>4, <3>5 DEF Position
    <3>7. ~out'.garbled
      BY <1>5, <3>2, <3>3
    <3>8. out'.got + out'.owed = Length(s)
      BY <1>5, <1>8, <2>5, <3>3
    <3>. QED  BY <1>7, <2>3, <3>6, <3>7, <3>8, FedAlone
  <2>. QED  BY <2>4, <2>5
<1>12. CASE Rewound(t)
  <2>1. /\ out' = out /\ thread'[t].pc = "again" /\ thread'[t].s = s
        /\ sample'[s].next = 1
    BY <1>2, <1>12 DEF Rewound, GoesOn
  <2>2. Position(s)'
    BY <1>4, <2>1 DEF Position
  <2>3. \A u \in Threads :
           thread'[u].pc = "again" => sample'[thread'[u].s].next = 1
    BY <1>4, <2>1
  <2>. QED  BY <1>5, <1>7, <2>1, <2>2, <2>3, FedAlone
<1>13. CASE Restarted(t)
  <2>1. /\ out' = Replay(BeepChunks, 1, FALSE) /\ thread'[t].pc = "process"
        /\ sample'[s].next = sample[s].next /\ thread[t].pc = "again"
    BY <1>2, <1>13 DEF Restarted
  <2>2. sample[s].next = 1 /\ Length(s) = BeepChunks
    BY <1>2, <2>1 DEF Fed, Places, Place, Length
  <2>3. out'.got = 0 /\ out'.owed = BeepChunks /\ ~out'.garbled
    BY <2>1 DEF Replay
  <2>4. \A u \in Threads : /\ thread'[u].s = s => thread'[u].pc \notin {"saw", "put"}
                           /\ thread'[u].pc # "again"
    BY <1>4, <2>1
  <2>7. sample'[s].next = 1
    BY <2>1, <2>2
  <2>8. out'.got + 1 = 1
    BY <2>3
  <2>5. Position(s)'
    BY <2>4, <2>7, <2>8 DEF Position
  <2>6. out'.got + out'.owed = Length(s)
    BY <2>2, <2>3, Constants
  <2>. QED  BY <1>7, <2>3, <2>4, <2>5, <2>6, FedAlone
<1>. QED  BY <1>9, <1>10, <1>11, <1>12, <1>13

(* No chunk is lost, put twice or out of order by any step.                 *)
LEMMA FedStep ==
    ASSUME TypeOK, TypeOK', Places, Alone, Boards, Fed, Effect,
           "replayed" \notin troubles'
    PROVE  Fed'
<1> USE DEF Threads
<1>1. ASSUME UNCHANGED <<sample, out>>,
             \A t \in Threads :
                \/ thread'[t] = thread[t]
                \/ /\ thread[t].pc \notin {"put", "again"}
                   /\ thread'[t].pc \notin {"put", "again"}
                   /\ ~(thread'[t].pc = "saw" /\ thread'[t].seen = "capacity")
      PROVE  Fed'
  <2>1. SameFed
    BY <1>1, OldTypes DEF SameFed, PlaysOn, OutType
  <2>. QED  BY <2>1, FedKept
<1>2. CASE \E t \in Threads, s \in Samples : Started(t, s)
  <2>1. PICK t \in Threads, s \in Samples : Started(t, s)
    BY <1>2
  <2>2. /\ thread[t].pc \in {"idle", "told"} /\ thread'[t].pc \in {"idle", "process"}
        /\ \A u \in Threads \ {t} : thread'[u] = thread[u]
        /\ \A v \in Samples \ {s} : sample'[v] = sample[v]
    BY <2>1 DEF Started, Moves, Idles, IdleThread
  <2>3. CASE KindOf[s] = "record"
    <3>1. out' = out
      BY <2>1, <2>3 DEF Started
    <3>2. \A v \in Samples : PlaysOn(v)' => PlaysOn(v) /\ v # s
      BY <2>2, <2>3 DEF PlaysOn, Replayed
    <3>3. \A u \in Threads : thread[u].pc = "again" => thread[u].s \in Samples \ {s}
      BY <2>3 DEF Places, Place
    <3>4. /\ ~out'.garbled
          /\ \A u \in Threads :
                thread'[u].pc = "again" => sample'[thread'[u].s].next = 1
      BY <2>2, <3>1, <3>3 DEF Fed
    <3>5. ASSUME NEW v \in Samples, PlaysOn(v)', KindOf[v] # "udp"
          PROVE  /\ out'.got + out'.owed = Length(v)
                 /\ ~out'.ended => Position(v)'
      <4>1. /\ out.got + out.owed = Length(v) /\ (~out.ended => Position(v))
            /\ sample'[v] = sample[v]
        BY <2>2, <3>2, <3>5 DEF Fed
      <4>2. Position(v) => Position(v)'
        BY <2>2, <3>1, <4>1 DEF Position
      <4>. QED  BY <3>1, <4>1, <4>2
    <3>. QED  BY <3>4, <3>5 DEF Fed
  <2>4. CASE KindOf[s] # "record"
    <3>1. \A v \in Samples : KindOf[v] \in Replayed =>
             v \in Others(s) \cup {s} /\ Plain(v) /\ sample[v].owed <= 0
      BY <2>1, <2>4 DEF Started, Others, IsOutgoing, Replayed, Plain
    <3>2. \A v \in Samples : PlaysOn(v)' => v = s
      BY <2>2, <3>1, SampleFields DEF PlaysOn
    <3>3. \A u \in Threads : thread[u].pc \notin {"put", "again"}
      BY <2>1, <3>1, StartIsAlone DEF Places, Place, Inside, Processing, Replayed
    <3>4. \A u \in Threads : thread'[u].pc \notin {"put", "again"}
      BY <2>2, <3>3
    <3>5. CASE KindOf[s] \in {"file", "beep"}
      <4> DEFINE n == sample'[s].next
      <4>1. n \in 1..Length(s) /\ out' = Replay(Length(s) - n + 1, n, FALSE)
        <5>1. CASE KindOf[s] = "file"
          BY <2>1, <5>1 DEF Started, Length
        <5>2. CASE KindOf[s] = "beep"
          <6>1. n = 1 /\ out' = Replay(BeepChunks, 1, FALSE)
            BY <2>1, <5>2 DEF Started
          <6>2. Length(s) = BeepChunks /\ BeepChunks - 1 + 1 = BeepChunks
                /\ 1 \in 1..BeepChunks
            BY <5>2, Constants DEF Length
          <6>. QED  BY <6>1, <6>2
        <5>. QED  BY <3>5, <5>1, <5>2
      <4>2. /\ out'.got + out'.owed = Length(s) /\ n = out'.got + 1
            /\ ~out'.garbled /\ ~out'.ended
        BY <4>1, Constants DEF Replay
      <4>3. \A u \in Threads : thread'[u].s = s => thread'[u].pc # "saw"
        BY <2>1, <2>2, <3>1, <3>5, StartIsAlone DEF Inside, Processing, Replayed
      <4>4. Position(s)'
        BY <3>4, <4>2, <4>3 DEF Position
      <4>. QED  BY <3>2, <3>4, <4>2, <4>4, FedAlone
    <3>6. CASE KindOf[s] \in {"tones", "udp"}
      <4>1. ~out'.garbled
        BY <2>1, <3>6 DEF Started, Silent, Fed
      <4>2. \A v \in Samples : PlaysOn(v)' => KindOf[v] = "udp"
        BY <3>2, <3>6 DEF PlaysOn, Replayed
      <4>. QED  BY <3>4, <4>1, <4>2 DEF Fed
    <3>. QED  BY <2>4, <3>5, <3>6, Constants DEF Kinds
  <2>. QED  BY <2>3, <2>4
<1>3. CASE \E s \in Samples, status \in StopStatuses : StoppedBy(s, status)
  <2>1. PICK s \in Samples, status \in StopStatuses : StoppedBy(s, status)
    BY <1>3
  <2>2. \A v \in Samples : /\ PlaysOn(v)' => PlaysOn(v)
                           /\ sample'[v].next = sample[v].next
    BY <2>1 DEF StoppedBy, Alters, PlaysOn
  <2>3. /\ out' = out
        /\ \A t \in Threads :
              \/ thread'[t] = thread[t]
              \/ thread[t].pc = "idle" /\ thread'[t].pc = "abort"
    BY <2>1 DEF StoppedBy, Moves
  <2>4. SameFed
    BY <2>2, <2>3, OldTypes DEF SameFed, OutType
  <2>. QED  BY <2>4, FedKept
<1>4. CASE AbortedBy(thread["client"].s)
  <2>1. /\ out'.got = out.got /\ out'.owed = out.owed /\ out'.garbled = out.garbled
        /\ out' = out \/ out'.ended
    BY <1>4, OldTypes DEF AbortedBy, OutType
  <2>2. /\ thread["client"].pc = "abort" /\ thread'["client"].pc \in {"idle", "done"}
        /\ thread'["media"] = thread["media"]
    BY <1>4 DEF AbortedBy, Idles, GoesOn, Moves, IdleThread
  <2>3. SameFed
    BY <1>4, <2>1, <2>2, OldTypes DEF AbortedBy, SameFed, PlaysOn, OutType
  <2>. QED  BY <2>3, FedKept
<1>5. CASE \E event \in Events : Dispatched(event)
  <2>1. /\ UNCHANGED <<sample, out>>
        /\ thread["media"].pc = "idle"
        /\ thread'["media"] = thread["media"] \/ thread'["media"].pc = "checked"
        /\ thread'["client"] = thread["client"]
    BY <1>5 DEF Dispatched, Moves
  <2>. QED  BY <1>1, <2>1
<1>6. CASE \E s \in Samples : Entered(s)
  <2>1. /\ out' = out /\ AllAlike
        /\ thread["media"].pc = "checked" /\ thread'["media"].pc = "process"
        /\ thread'["client"] = thread["client"]
    BY <1>6 DEF Entered, Moves
  <2>2. SameFed
    BY <2>1, OldTypes DEF SameFed, PlaysOn, OutType, AllAlike, Alike
  <2>. QED  BY <2>2, FedKept
<1>7. CASE \E s \in Samples : FirstOne(s)
  <2>1. PICK s \in Samples : FirstOne(s)
    BY <1>7
  <2>2. PlaysOn(s) /\ KindOf[s] = "udp"
    <3>1. KindOf[s] = "udp" /\ Pointed(s) /\ Plain(s)
      BY <2>1 DEF FirstOne, Pointed, IsOutgoing, Plain
    <3>. QED  BY <3>1 DEF Alone, Owed, PlaysOn, Replayed
  <2>3. ASSUME NEW v \in Samples, PlaysOn(v)' PROVE v = s
    <3>1. v # s => PlaysOn(v)
      BY <2>1, <2>3 DEF FirstOne, Alters, PlaysOn
    <3>. QED  BY <2>2, <3>1, OnePlays
  <2>4. ASSUME NEW t \in Threads, thread'[t].pc = "again" PROVE FALSE
    <3>1. /\ thread[t].pc = "again" /\ thread[t].s \in Samples
          /\ KindOf[thread[t].s] = "beep"
      BY <2>1, <2>4 DEF FirstOne, Moves, Places, Place
    <3>2. PlaysOn(thread[t].s)
      BY <3>1, InsidePlays DEF Inside, Processing, Replayed
    <3>. QED  BY <2>2, <3>1, <3>2, OnePlays
  <2>5. ~out'.garbled
    BY <2>1 DEF FirstOne, Replay
  <2>. QED  BY <2>2, <2>3, <2>4, <2>5, FedAlone
<1>8. ASSUME NEW t \in Threads, Steps(t) PROVE Fed'
  <2> DEFINE s == thread[t].s
  <2>1. CASE Received(t)
    <3>1. thread[t].pc = "saw" /\ thread'[t].pc = "process" /\ UNCHANGED <<sample, out>>
      BY <2>1 DEF Received, GoesOn
    <3>. QED  BY <1>1, <1>8, <3>1, StepMoves
  <2>2. CASE Ended(t) \/ Reported(t)
    <3>1. /\ out' = out /\ thread[t].pc \in {"saw", "done"}
          /\ thread'[t].pc \in {"done", "told"}
      BY <2>2 DEF Ended, Reported, GoesOn
    <3>2. s \in Samples
      BY <3>1 DEF Places, Place
    <3>3. /\ sample'[s].next = sample[s].next
          /\ sample'[s].state = "idle" \/ ~PlaysOn(s)
          /\ \A v \in Samples \ {s} : sample'[v] = sample[v]
      <4>1. CASE Ended(t)
        BY <4>1 DEF Ended, Alters
      <4>2. CASE Reported(t)
        <5>1. KindOf[s] \in Replayed => sample[s].state = "idle"
          BY <3>2, <4>2 DEF Reported, Alone, Owed, Plain, Replayed, IsDone
        <5>. QED  BY <4>2, <5>1 DEF Reported, PlaysOn
      <4>. QED  BY <2>2, <4>1, <4>2
    <3>4. \A v \in Samples : PlaysOn(v)' => PlaysOn(v)
      <4>1. CASE Ended(t)
        BY <3>3, <4>1 DEF Ended, Alters, PlaysOn
      <4>2. CASE Reported(t)
        <5>1. KindOf[s] \in Replayed => sample[s].state = "idle"
          BY <3>2, <4>2 DEF Reported, Alone, Owed, Plain, Replayed, IsDone
        <5>. QED  BY <4>2, <5>1 DEF Reported, PlaysOn
      <4>. QED  BY <2>2, <4>1, <4>2
    <3>5. SameFed
      BY <1>8, <3>1, <3>3, <3>4, StepMoves, OldTypes DEF SameFed, OutType
    <3>. QED  BY <3>5, FedKept
  <2>3. CASE Failed(t)
    <3>1. UNCHANGED <<sample, out>> /\ thread'[t].pc = "idle"
      BY <2>3 DEF Failed, Idles, IdleThread
    <3>2. thread[t].pc \notin {"put", "again"}
      <4>1. SUFFICES ASSUME thread[t].pc \in {"put", "again"} PROVE FALSE
        OBVIOUS
      <4>2. s \in Samples /\ KindOf[s] \in Replayed /\ Inside(t, s)
        BY <4>1 DEF Places, Place, Inside, Processing, Replayed
      <4>3. sample[s].alive
        BY <4>2, InsidePlays DEF Owed, PlaysOn
      <4>. QED  BY <2>3, <4>1, <4>3 DEF Failed, Processing
    <3>. QED  BY <1>1, <1>8, <3>1, <3>2, StepMoves
  <2>4. CASE Saw(t)
    <3>1. /\ UNCHANGED <<sample, out>> /\ thread[t].pc = "process"
          /\ thread'[t].pc = "saw" /\ thread'[t].s = s /\ thread'[t].seen = StatusOf(s)
          /\ s \in Samples
      BY <2>4 DEF Saw, GoesOn, Places, Place
    <3>2. CASE thread'[t].seen # "capacity"
      BY <1>1, <1>8, <3>1, <3>2, StepMoves
    <3>3. CASE thread'[t].seen = "capacity"
      <4>1. Accepts
        BY <3>1, <3>3, CapacityAccepts DEF StatusOf, RecordStatus, ToneStatus
      <4>2. \A u \in Threads : thread'[u].pc = "again" =>
               thread[u].pc = "again" /\ thread'[u] = thread[u]
        BY <1>8, <3>1, StepMoves
      <4>3. ~out'.garbled /\ \A u \in Threads : thread'[u].pc = "again" =>
                                 sample'[thread'[u].s].next = 1
        BY <3>1, <4>2 DEF Fed
      <4>4. ASSUME NEW v \in Samples, PlaysOn(v)', KindOf[v] # "udp"
            PROVE  /\ out'.got + out'.owed = Length(v)
                   /\ ~out'.ended => Position(v)'
        <5>1. /\ out.got + out.owed = Length(v) /\ (~out.ended => Position(v))
          BY <3>1, <4>4 DEF Fed, PlaysOn
        <5>2. \A u \in Threads \ {t} : thread'[u] = thread[u]
          BY <1>8, StepMoves
        <5>3. Position(v) => Position(v)'
          BY <3>1, <4>1, <5>2 DEF Position, Accepts
        <5>. QED  BY <3>1, <5>1, <5>3
      <4>. QED  BY <4>3, <4>4 DEF Fed
    <3>. QED  BY <3>2, <3>3
  <2>5. CASE Returned(t) /\ thread[t].pc \notin {"put", "first"}
    <3>0. Idles(t) /\ out' = out /\ AllAlike
      BY <2>5 DEF Returned
    <3>1. thread[t].pc \notin {"put", "again"}
      BY <2>5 DEF Returned
    <3>2. thread'[t].pc = "idle"
      BY <3>0 DEF Idles, IdleThread
    <3>3. SameFed
      BY <1>8, <3>0, <3>1, <3>2, StepMoves, OldTypes
         DEF SameFed, OutType, AllAlike, Alike, PlaysOn
    <3>. QED  BY <3>3, FedKept
  <2>6. CASE \/ Returned(t) /\ thread[t].pc \in {"put", "first"}
             \/ Submitted(t) \/ PutOne(t) \/ LooksAgain(t) \/ Rewound(t)
             \/ Restarted(t)
    BY <1>8, <2>6, FedInside
  <2>. QED  BY <1>8, <2>1, <2>2, <2>3, <2>4, <2>5, <2>6 DEF Steps
<1>9. CASE BoardMoves
  <2>1. UNCHANGED <<sample, thread>>
    BY <1>9 DEF BoardMoves
  <2>2. /\ out'.got = out.got /\ out'.owed = out.owed /\ out'.garbled = out.garbled
        /\ ~out'.ended => ~out.ended /\ out'.endless = out.endless
                             /\ out'.buffered <= out.buffered
    BY <1>9, OldTypes DEF BoardMoves, OutType
  <2>3. SameFed
    BY <2>1, <2>2 DEF SameFed, PlaysOn
  <2>. QED  BY <2>3, FedKept
<1>10. CASE TooEarly
  BY <1>1, <1>10 DEF TooEarly
<1>. QED  BY <1>2, <1>3, <1>4, <1>5, <1>6, <1>7, <1>8, <1>9, <1>10 DEF Effect

----------------------------------------------------------------------------
(* Whoever is at a sample finds it not reported yet.                        *)
LEMMA ThreadOwes ==
    ASSUME Places, Alone, "tones" \notin troubles, NEW t \in Threads,
           thread[t].pc \in Processing \cup {"done"}
    PROVE  LET s == thread[t].s
           IN /\ s \in Samples /\ Owed(s)
              /\ sample[s].owed = 1 /\ sample[s].alive
              /\ sample[s].state = "idle" <=> thread[t].pc = "done"
              /\ \A u \in Others(s) : sample[u].owed # 1
<1> DEFINE s == thread[t].s
<1>1. s \in Samples
  BY DEF Places, Place, Processing
<1>2. \A u \in Samples : Plain(u) /\ Owed(u)
  BY DEF Alone, Plain
<1>3. Inside(t, s) \/ IsDone(t, s)
  BY DEF Inside, IsDone
<1>4. Inside(t, s) => sample[s].owed = 1 /\ sample[s].state # "idle"
  BY <1>1, <1>2 DEF Owed
<1>5. IsDone(t, s) => sample[s].owed = 1 /\ sample[s].state = "idle"
  BY <1>1, <1>2 DEF Owed
<1>6. sample[s].owed = 1 /\ sample[s].alive
  BY <1>1, <1>2, <1>3, <1>4, <1>5 DEF Owed
<1>7. sample[s].state = "idle" <=> thread[t].pc = "done"
  BY <1>3, <1>4, <1>5 DEF Inside, IsDone, Processing
<1>8. \A u \in Others(s) : sample[u].owed # 1
  BY <1>1, <1>2, <1>6 DEF Owed, Others
<1>. QED  BY <1>1, <1>2, <1>6, <1>7, <1>8

(* Nobody comes back to an object that is gone.                             *)
LEMMA NeverFails ==
    ASSUME Places, Alone, Clean, "tones" \notin troubles, NEW t \in Threads,
           TypeOK
    PROVE  ~Failed(t)
<1>1. thread[t].pc \in Processing \cup {"done"} => sample[thread[t].s].alive
  BY ThreadOwes
<1>2. thread[t].pc = "told" => ~thread[t].starting
  BY DEF Clean
<1>3. ASSUME thread[t].pc = "checked"
      PROVE  LET n == Named(thread[t].event)
             IN n # NoSample /\ (n \in Samples => sample[n].alive)
  <2> DEFINE n == Named(thread[t].event)
  <2>1. n # NoSample
    BY <1>3 DEF Places, Place, Clean
  <2>2. ASSUME n \in Samples PROVE sample[n].alive
    <3>1. Pointed(n)
      BY <2>1 DEF Named, Pointed, Places, Pointers
    <3>2. Owed(n)
      BY <2>2 DEF Alone, Plain
    <3>. QED  BY <3>1, <3>2 DEF Owed
  <2>. QED  BY <2>1, <2>2
<1>. QED  BY <1>1, <1>2, <1>3 DEF Failed

(* The pointers know the samples that they knew, ...                        *)
SameClean ==
    /\ UNCHANGED <<sending, receiving, fault>>
    /\ \A s \in Samples : sample'[s].owed = 1 /\ sample'[s].state # "idle" =>
          sample[s].owed = 1 /\ sample[s].state # "idle"
    /\ \A t \in Threads :
          /\ thread'[t].pc \in {"done", "told"} =>
                /\ thread[t].pc \in {"done", "told"}
                /\ thread'[t].starting = thread[t].starting
          /\ thread'[t].pc = "checked" => thread'[t] = thread[t]

(* ... and still do.                                                        *)
LEMMA CleanKept ==
    ASSUME Clean, SameClean
    PROVE  Clean'
<1>1. \A s \in Samples : Pointed(s)' <=> Pointed(s)
  BY DEF SameClean, Pointed
<1>2. \A event : Named(event)' = Named(event)
  BY DEF SameClean, Named
<1>3. thread'["media"].pc = "checked" => Named(thread["media"].event)' # NoSample
  BY <1>2 DEF SameClean, Clean, Threads
<1>. QED  BY <1>1, <1>3 DEF SameClean, Clean

(* The channel's pointers are good, as long as each sample has its turn.    *)
LEMMA CleanStep ==
    ASSUME TypeOK, Places, Alone, Clean, Effect,
           {"both", "hasty", "tones"} \cap troubles' = {}
    PROVE  Clean'
<1> USE DEF Threads
<1>1. "tones" \notin troubles /\ "hasty" \notin troubles /\ Grows
  BY EffectGrows DEF Grows
<1>2. CASE \E t \in Threads, s \in Samples : Started(t, s)
  <2>1. PICK t \in Threads, s \in Samples : Started(t, s)
    BY <1>2
  <2>2. /\ fault' = fault
        /\ \A v \in Samples \ {s} : sample'[v] = sample[v]
        /\ \A u \in Others(s) : sample[u].owed <= 0
        /\ sending' = IF IsOutgoing(s) THEN s ELSE sending
        /\ receiving' = IF IsOutgoing(s) THEN receiving ELSE s
        /\ \A u \in Threads \ {t} : thread'[u] = thread[u]
        /\ thread'[t].pc \in {"idle", "process"}
    BY <2>1 DEF Started, Moves, Idles, IdleThread
  <2>3. ASSUME NEW v \in Samples, sample'[v].owed = 1, sample'[v].state # "idle"
        PROVE  Pointed(v)'
    <3>1. CASE v = s
      BY <2>2, <3>1 DEF Pointed
    <3>2. CASE v # s
      <4>1. v \notin Others(s)
        BY <2>2, <2>3, <3>2 DEF Others
      <4>. QED  BY <2>2, <2>3, <3>2, <4>1 DEF Pointed, Others, Clean
    <3>. QED  BY <3>1, <3>2
  <2>4. \A event : Named(event) # NoSample => Named(event)' # NoSample
    BY <2>2, Constants DEF Named
  <2>5. thread'["media"].pc = "checked" => Named(thread["media"].event)' # NoSample
    BY <2>2, <2>4 DEF Clean
  <2>. QED  BY <2>2, <2>3, <2>5 DEF Clean
<1>3. CASE \E s \in Samples, status \in StopStatuses : StoppedBy(s, status)
  <2>1. SameClean
    BY <1>3 DEF StoppedBy, Alters, Moves, SameClean
  <2>. QED  BY <2>1, CleanKept
<1>4. CASE AbortedBy(thread["client"].s)
  <2>1. Idles("client")
    BY <1>1, <1>4 DEF AbortedBy, Places, Place
  <2>2. SameClean
    BY <1>4, <2>1 DEF AbortedBy, Idles, Moves, IdleThread, SameClean
  <2>. QED  BY <2>2, CleanKept
<1>5. CASE \E event \in Events : Dispatched(event)
  <2>1. PICK event \in Events : Dispatched(event)
    BY <1>5
  <2>2. CASE Named(event) = NoSample
    <3>1. SameClean
      BY <2>1, <2>2 DEF Dispatched, SameClean
    <3>. QED  BY <3>1, CleanKept
  <2>3. CASE Named(event) # NoSample
    <3>1. /\ thread'["client"] = thread["client"]
          /\ thread'["media"].pc = "checked" /\ thread'["media"].event = event
          /\ UNCHANGED <<sample, sending, receiving, fault>>
      BY <2>1, <2>3 DEF Dispatched, Moves
    <3>2. Named(thread["media"].event)' # NoSample
      BY <2>3, <3>1 DEF Named
    <3>. QED  BY <3>1, <3>2 DEF Clean, Pointed
  <2>. QED  BY <2>2, <2>3
<1>6. CASE \E s \in Samples : Entered(s) \/ FirstOne(s)
  <2>1. PICK s \in Samples : Entered(s) \/ FirstOne(s)
    BY <1>6
  <2>2. SameClean
    BY ZenonT(30), <2>1 DEF Entered, FirstOne, AllAlike, Alike, Alters, Moves, SameClean
  <2>. QED  BY <2>2, CleanKept
<1>7. ASSUME NEW t \in Threads, Steps(t) PROVE Clean'
  <2>1. PICK s \in Samples \cup {NoSample} : s = thread[t].s
    BY ThreadFields
  <2>2. \A u \in Threads \ {t} : thread'[u] = thread[u]
    BY <1>7, StepMoves
  <2>3. CASE \/ Returned(t) \/ Saw(t) \/ Received(t) \/ Submitted(t)
             \/ PutOne(t) \/ LooksAgain(t) \/ Rewound(t)
    <3>1. SameAlone
      BY <1>1, <2>3, StepIsSameAlone
    <3>2. fault' = fault
      BY <2>3 DEF Returned, Saw, Received, Submitted, PutOne, LooksAgain, Rewound
    <3>3. thread'[t].pc \notin {"done", "told", "checked"}
      <4>1. CASE Returned(t)
        <5>1. Idles(t)
          BY <4>1 DEF Returned
        <5>. QED  BY <5>1 DEF Idles, IdleThread
      <4>2. CASE ~Returned(t)
        BY <2>3, <4>2 DEF Saw, Received, Submitted, PutOne, LooksAgain, Rewound,
                          GoesOn, Idles, IdleThread
      <4>. QED  BY <4>1, <4>2
    <3>4. SameClean
      BY <2>2, <3>1, <3>2, <3>3 DEF SameAlone, SameClean
    <3>. QED  BY <3>4, CleanKept
  <2>4. CASE Restarted(t)
    <3>1. /\ thread[t].pc \in Processing /\ s \in Samples /\ IsOutgoing(s)
          /\ thread'[t].pc = "process" /\ sending' = s
          /\ UNCHANGED <<receiving, fault>>
          /\ \A v \in Samples \ {s} : sample'[v] = sample[v]
      BY <2>1, <2>4
         DEF Restarted, Processing, Places, Place, IsOutgoing, Alters
    <3>2. sample[s].owed = 1 /\ sample[s].state # "idle"
      BY <1>1, <2>1, <3>1, ThreadOwes DEF Processing
    <3>3. sending = s
      BY <3>1, <3>2 DEF Clean, Pointed
    <3>4. SameClean
      BY <2>2, <3>1, <3>2, <3>3 DEF SameClean
    <3>. QED  BY <3>4, CleanKept
  <2>5. CASE Ended(t)
    <3>1. /\ s \in Samples /\ thread[t].pc = "saw" /\ thread'[t].pc = "done"
          /\ ~thread[t].starting /\ thread'[t].starting = thread[t].starting
          /\ fault' = fault
          /\ sample'[s].state = "idle"
          /\ \A v \in Samples \ {s} : sample'[v] = sample[v]
          /\ sending' = SenderAfter(s)
          /\ receiving' = IF IsOutgoing(s) THEN receiving ELSE NoSample
      BY <2>1, <2>5 DEF Ended, GoesOn, Places, Place, Alters
    <3>2. t = "media"
      BY <3>1 DEF Places, Place, Processing
    <3>3. ASSUME NEW v \in Samples, sample'[v].owed = 1, sample'[v].state # "idle"
          PROVE  Pointed(v)'
      <4>1. v # s /\ sample'[v] = sample[v]
        BY <3>1, <3>3
      <4>2. v \notin Others(s)
        BY <1>1, <2>1, <3>1, <3>3, <4>1, ThreadOwes DEF Processing
      <4>. QED  BY <3>1, <3>3, <4>1, <4>2
                DEF Others, Clean, Pointed, SenderAfter
    <3>. QED  BY <2>2, <3>1, <3>2, <3>3 DEF Clean
  <2>6. CASE Reported(t)
    <3>1. /\ s \in Samples /\ thread[t].pc = "done" /\ thread'[t].pc = "told"
          /\ thread'[t].starting = thread[t].starting
          /\ UNCHANGED <<sending, receiving, fault>>
          /\ sample'[s].state = sample[s].state
          /\ \A v \in Samples \ {s} : sample'[v] = sample[v]
      BY <2>1, <2>6 DEF Reported, GoesOn, Places, Place
    <3>2. sample[s].state = "idle"
      BY <1>1, <2>1, <3>1, ThreadOwes
    <3>3. SameClean
      BY <2>2, <3>1, <3>2 DEF SameClean
    <3>. QED  BY <3>3, CleanKept
  <2>. QED  BY <1>1, <1>7, <2>3, <2>4, <2>5, <2>6, NeverFails DEF Steps
<1>8. CASE BoardMoves \/ TooEarly
  <2>1. SameClean
    BY <1>8 DEF BoardMoves, TooEarly, SameClean
  <2>. QED  BY <2>1, CleanKept
<1>. QED  BY <1>2, <1>3, <1>4, <1>5, <1>6, <1>7, <1>8 DEF Effect

----------------------------------------------------------------------------
(* What the samples are reported with is the same, ...                      *)
SameLabel(s) ==
    sample'[s].owed = 1 =>
        /\ sample[s].owed = 1
        /\ sample'[s].wanted = sample[s].wanted
        /\ sample'[s].status = sample[s].status
        /\ sample'[s].state = "idle" <=> sample[s].state = "idle"

(* ... and is what they were stopped with, or why they ended.               *)
LEMMA LabelStep ==
    ASSUME TypeOK, Places, Reasons, Alone, Label, Effect,
           {"both", "hasty", "tones", "relabelled", "remembered"} \cap troubles' = {}
    PROVE  Label'
<1> DEFINE Good(s) == sample[s].owed = 1 =>
                IF sample[s].wanted # "none"
                THEN /\ sample[s].status = sample[s].wanted
                     /\ KindOf[s] = "record" => sample[s].wanted = "stopped"
                ELSE IF sample[s].state = "idle"
                THEN KindOf[s] = "record" <=> sample[s].status # "ok"
                ELSE sample[s].status = "ok"
<1>1. "tones" \notin troubles /\ Grows
  BY EffectGrows DEF Grows
<1>2. \A s \in Samples : Good(s)
  BY DEF Label
<1>3. SUFFICES ASSUME NEW s \in Samples PROVE Good(s)'
  BY DEF Label
<1>4. ASSUME SameLabel(s) PROVE Good(s)'
  BY <1>2, <1>4 DEF SameLabel
<1> HIDE DEF Good
<1>5. CASE \E t \in Threads, v \in Samples : Started(t, v)
  <2>1. PICK t \in Threads, v \in Samples : Started(t, v)
    BY <1>5
  <2>2. CASE v = s
    BY <2>1, <2>2 DEF Started, Good
  <2>3. CASE v # s
    <3>1. SameLabel(s)
      BY <2>1, <2>3 DEF Started, SameLabel
    <3>. QED  BY <1>4, <3>1
  <2>. QED  BY <2>2, <2>3
<1>6. CASE \E v \in Samples, status \in StopStatuses : StoppedBy(v, status)
  <2>1. PICK v \in Samples, status \in StopStatuses : StoppedBy(v, status)
    BY <1>6
  <2>2. CASE v = s
    BY <2>1, <2>2 DEF StoppedBy, StopStatuses, Good
  <2>3. CASE v # s
    <3>1. SameLabel(s)
      BY <2>1, <2>3 DEF StoppedBy, Alters, SameLabel
    <3>. QED  BY <1>4, <3>1
  <2>. QED  BY <2>2, <2>3
<1>7. CASE \/ AbortedBy(thread["client"].s) \/ BoardMoves \/ TooEarly
           \/ \E event \in Events : Dispatched(event)
  <2>1. SameLabel(s)
    BY <1>7 DEF AbortedBy, BoardMoves, TooEarly, Dispatched, SameLabel
  <2>. QED  BY <1>4, <2>1
<1>8. CASE \E v \in Samples : Entered(v) \/ FirstOne(v)
  <2>1. SameLabel(s)
    BY ZenonT(30), <1>8 DEF Entered, FirstOne, AllAlike, Alike, Alters, SameLabel
  <2>. QED  BY <1>4, <2>1
<1>9. ASSUME NEW t \in Threads, Steps(t) PROVE Good(s)'
  <2>1. CASE Failed(t) \/ Saw(t) \/ Received(t) \/ LooksAgain(t)
    <3>1. SameLabel(s)
      BY <2>1 DEF Failed, Saw, Received, LooksAgain, SameLabel
    <3>. QED  BY <1>4, <3>1
  <2>2. CASE Returned(t)
    <3>1. SameLabel(s)
      BY <2>2 DEF Returned, AllAlike, Alike, SameLabel
    <3>. QED  BY <1>4, <3>1
  <2>3. CASE Submitted(t) \/ PutOne(t) \/ Rewound(t)
    <3>1. SameLabel(s)
      BY <2>3 DEF Submitted, PutOne, Rewound, Alters, SameLabel
    <3>. QED  BY <1>4, <3>1
  <2>4. CASE Restarted(t)
    <3>1. s = thread[t].s => sample[s].state # "idle"
      BY <1>1, <2>4, ThreadOwes DEF Restarted, Processing
    <3>2. SameLabel(s)
      BY <2>4, <3>1 DEF Restarted, Alters, SameLabel
    <3>. QED  BY <1>4, <3>2
  <2>5. CASE Ended(t)
    <3>1. CASE s # thread[t].s
      <4>1. SameLabel(s)
        BY <2>5, <3>1 DEF Ended, Alters, SameLabel
      <4>. QED  BY <1>4, <4>1
    <3>2. CASE s = thread[t].s
      <4>1. /\ thread[t].pc = "saw" /\ thread[t].seen = "complete"
            /\ sample'[s].state = "idle" /\ sample'[s].wanted = sample[s].wanted
            /\ sample'[s].status = FinalStatus(s)
        BY <2>5, <3>2 DEF Ended
      <4>2. sample[s].owed = 1 /\ sample[s].state # "idle"
        BY <1>1, <3>2, <4>1, ThreadOwes DEF Processing
      <4>3. KindOf[s] = "record" => in.reason \in {"stopped", "timeout"}
        BY <3>2, <4>1, OldTypes DEF Reasons, InType
      <4>. QED  BY <1>2, <4>1, <4>2, <4>3 DEF FinalStatus, Good
    <3>. QED  BY <3>1, <3>2
  <2>6. CASE Reported(t)
    <3>1. CASE s # thread[t].s
      <4>1. SameLabel(s)
        BY <2>6, <3>1 DEF Reported, SameLabel
      <4>. QED  BY <1>4, <4>1
    <3>2. CASE s = thread[t].s
      <4>1. sample'[s].owed = sample[s].owed - 1 /\ thread[t].pc = "done"
        BY <2>6, <3>2 DEF Reported
      <4>2. sample[s].owed = 1
        BY <1>1, <3>2, <4>1, ThreadOwes
      <4>. QED  BY <4>1, <4>2 DEF Good
    <3>. QED  BY <3>1, <3>2
  <2>. QED  BY <1>9, <2>1, <2>2, <2>3, <2>4, <2>5, <2>6 DEF Steps
<1>. QED  BY <1>5, <1>6, <1>7, <1>8, <1>9 DEF Effect

----------------------------------------------------------------------------
(* Only what the threads put into the board's buffers feeds it.             *)
LEMMA FeedingReplayed ==
    ASSUME Places, NEW s \in Samples, Feeding(s)
    PROVE  KindOf[s] \in Replayed
<1>1. PICK t \in Threads : /\ thread[t].s = s
                           /\ \/ thread[t].pc = "saw" /\ thread[t].seen = "capacity"
                              \/ thread[t].pc \in {"put", "first"}
  BY DEF Feeding
<1>2. Place(t)
  BY DEF Places
<1>. QED  BY <1>1, <1>2, Constants DEF Place, SeenOf, Replayed, Kinds

(* Nothing is expected of thread t for sample s.                            *)
Aside(t, s) ==
    LET pc == thread[t].pc
    IN /\ thread[t].s = s =>
             \/ pc \in {"idle", "checked", "told"}
             \/ pc = "saw" /\ thread[t].seen \in {"full", "all data", "no data"}
             \/ pc = "saw" /\ thread[t].seen = "capacity" /\ ~Accepts
             \/ pc \in {"put", "first"} /\ (thread[t].chunk = 0 \/ ~Accepts)
       /\ pc = "checked" => thread[t].event # EventOf(s)

(* The board does for sample s what it did before.                          *)
SameFor(s) ==
    /\ sample'[s].state = sample[s].state
    /\ IF IsOutgoing(s) THEN sending' = sending /\ out' = out
       ELSE receiving' = receiving /\ in'.job = in.job /\ in'.reason = in.reason
    /\ events[EventOf(s)] => events'[EventOf(s)]

(* When a thread that was not needed goes on, no sample is forgotten.       *)
LEMMA ExpectedKept ==
    ASSUME Places, NEW s \in Samples, SameFor(s), Expected(s), Jobs(s),
           NEW t \in Threads, Aside(t, s) \/ thread'[t] = thread[t],
           \A u \in Threads \ {t} : thread'[u] = thread[u]
    PROVE  Expected(s)' /\ Jobs(s)'
<1> USE DEF Threads
<1>1. \A u \in Threads : thread'[u] = thread[u] \/ (u = t /\ Aside(u, s))
  OBVIOUS
<1>2. Watched(s) => Watched(s)'
  BY <1>1 DEF Watched, Aside
<1>3. Coming(s) => Coming(s)'
  BY <1>1 DEF Coming, Aside, SameFor
<1>4. Aborting(s) => Aborting(s)'
  BY <1>1 DEF Aborting, Aside
<1>5. WillSignal(s) => WillSignal(s)'
  BY DEF WillSignal, SameFor, IsOutgoing
<1>6. ASSUME Feeding(s) PROVE Feeding(s)'
  <2>1. out' = out
    BY <1>6, FeedingReplayed DEF Replayed, IsOutgoing, SameFor
  <2>2. Accepts' <=> Accepts
    BY <2>1 DEF Accepts
  <2>. QED  BY <1>1, <1>6, <2>2 DEF Feeding, Aside
<1>7. Expected(s)'
  BY <1>2, <1>3, <1>4, <1>5, <1>6 DEF Expected
<1>8. Jobs(s)'
  BY <1>4 DEF Jobs, SameFor, IsOutgoing
<1>. QED  BY <1>7, <1>8

(* What the board says of a sample is a promise or asks for something.      *)
LEMMA SawExpected ==
    ASSUME TypeOK, Places, Clean, Alone, "tones" \notin troubles,
           NEW t \in Threads, Saw(t), NEW s \in Samples, thread[t].s = s, Jobs(s)
    PROVE  Expected(s)' /\ Jobs(s)'
<1> USE DEF Threads
<1>1. s = thread[t].s
  OBVIOUS
<1>2. /\ thread[t].pc = "process" /\ thread'[t].pc = "saw" /\ thread'[t].s = s
      /\ thread'[t].seen = StatusOf(s)
      /\ UNCHANGED <<sample, sending, receiving, out, in, events>>
      /\ \A u \in Threads \ {t} : thread'[u] = thread[u]
  BY <1>1 DEF Saw, GoesOn, Moves
<1>3. sample[s].owed = 1 /\ sample[s].state # "idle"
  BY <1>1, <1>2, ThreadOwes DEF Processing
<1>4. Pointed(s)
  BY <1>3 DEF Clean
<1>5. Aborting(s) => Aborting(s)'
  BY <1>2 DEF Aborting
<1>6. Jobs(s)
  BY <1>1
<1>7. Jobs(s)'
  BY <1>2, <1>5, <1>6 DEF Jobs
<1>8. thread'[t].seen \in {"complete", "data"} => Watched(s)'
  BY <1>2 DEF Watched
<1>9. WillSignal(s) => WillSignal(s)'
  BY <1>2 DEF WillSignal
<1>10. CASE KindOf[s] = "record"
  <2>1. thread'[t].seen \notin {"complete", "data"} => in.reason = "none"
    BY <1>2, <1>10 DEF StatusOf, RecordStatus
  <2>2. receiving = s /\ in.job = "record"
    BY <1>4, <1>6, <1>10 DEF Pointed, IsOutgoing, Jobs
  <2>3. WillSignal(s) \/ Watched(s)'
    BY <1>8, <1>10, <2>1, <2>2 DEF WillSignal
  <2>. QED  BY <1>1, <1>7, <1>9, <2>3 DEF Expected
<1>11. CASE KindOf[s] = "tones"
  <2>1. thread'[t].seen # "complete" => out.job = "tones" /\ ~out.ended
    BY <1>2, <1>11 DEF StatusOf, ToneStatus
  <2>2. sending = s
    BY <1>4, <1>11 DEF Pointed, IsOutgoing
  <2>3. WillSignal(s) \/ Watched(s)'
    BY <1>8, <1>11, <2>1, <2>2 DEF WillSignal
  <2>. QED  BY <1>1, <1>7, <1>9, <2>3 DEF Expected
<1>12. CASE KindOf[s] \in Replayed
  <2>1. thread'[t].seen = ReplayStatus /\ sending = s
    BY <1>2, <1>4, <1>12 DEF StatusOf, Replayed, Pointed, IsOutgoing
  <2>2. CASE KindOf[s] = "udp"
    <3>1. sample[s].state = "stopping" => Aborting(s) \/ out.ended
      BY <1>6, <2>2 DEF Jobs
    <3>2. out.ended => thread'[t].seen = "complete"
      BY <2>1 DEF ReplayStatus
    <3>3. sample[s].state # "stopping" => WillSignal(s)
      BY <2>1, <2>2 DEF WillSignal
    <3>. QED  BY <1>1, <1>5, <1>7, <1>8, <1>9, <3>1, <3>2, <3>3 DEF Expected
  <2>3. CASE KindOf[s] \in {"file", "beep"}
    <3>1. CASE ReplayStatus = "complete"
      BY <1>1, <1>7, <1>8, <2>1, <3>1 DEF Expected
    <3>2. CASE ReplayStatus = "capacity"
      <4>1. Accepts'
        BY <1>2, <3>2, CapacityAccepts DEF Accepts, AllData
      <4>2. Feeding(s)'
        BY <1>2, <2>1, <3>2, <4>1 DEF Feeding
      <4>. QED  BY <1>1, <1>7, <4>2 DEF Expected
    <3>3. CASE ReplayStatus \notin {"complete", "capacity"}
      <4>1. out.job = "replay" /\ ~out.ended /\ out.buffered > 0
        BY <3>3, Constants, OldTypes DEF ReplayStatus, OutType
      <4>2. WillSignal(s)
        BY <2>1, <2>3, <4>1 DEF WillSignal
      <4>. QED  BY <1>1, <1>7, <1>9, <4>2 DEF Expected
    <3>. QED  BY <3>1, <3>2, <3>3
  <2>. QED  BY <1>12, <2>2, <2>3 DEF Replayed
<1>. QED  BY <1>10, <1>11, <1>12, Constants DEF Kinds, Replayed

----------------------------------------------------------------------------
(* The troubles without which none is forgotten                             *)
Forgetful == {"both", "hasty", "tones", "replayed", "hungry", "waiting"}

(* A start is looked at, or the board was told to end.                      *)
LEMMA StartRemembered ==
    ASSUME Places, Alone, Remembered, Effect, Forgetful \cap troubles' = {},
           NEW t \in Threads, NEW v \in Samples, Started(t, v),
           NEW s \in Samples, sample'[s].owed = 1
    PROVE  Expected(s)' /\ Jobs(s)'
<1>1. CASE s = v
  <2>1. CASE KindOf[v] \in {"file", "beep"}
    <3>1. thread'[t].pc = "process" /\ thread'[t].s = v
      BY <2>1 DEF Started
    <3>. QED  BY <1>1, <2>1, <3>1 DEF Expected, Watched, Jobs
  <2>2. CASE KindOf[v] = "tones"
    <3>1. sending' = v /\ out' = [Silent EXCEPT !.job = "tones", !.ended = FALSE]
      BY <2>2 DEF Started, IsOutgoing
    <3>2. out'.job = "tones" /\ ~out'.ended
      BY <3>1 DEF Silent
    <3>. QED  BY <1>1, <2>2, <3>1, <3>2 DEF Expected, WillSignal, Jobs
  <2>3. CASE KindOf[v] = "udp"
    <3>1. sending' = v /\ sample'[v].state = "waiting"
      BY <2>3 DEF Started, IsOutgoing
    <3>. QED  BY <1>1, <2>3, <3>1 DEF Expected, WillSignal, Jobs
  <2>4. CASE KindOf[v] = "record"
    <3>1. receiving' = v
          /\ in' = [job |-> "record", data |-> 0, left |-> 1, reason |-> "none"]
      BY <2>4 DEF Started, IsOutgoing
    <3>2. in'.job = "record" /\ in'.reason = "none"
      BY <3>1
    <3>. QED  BY <1>1, <2>4, <3>1, <3>2 DEF Expected, WillSignal, Jobs
  <2>. QED  BY <2>1, <2>2, <2>3, <2>4, Constants DEF Kinds
<1>2. CASE s # v
  <2>1. sample'[s] = sample[s] /\ sample[s].owed = 1
    BY <1>2 DEF Started
  <2>2. IsOutgoing(s) <=> ~IsOutgoing(v)
    BY <1>2, <2>1 DEF Started, Others
  <2>3. SameFor(s)
    <3>1. IsOutgoing(s) => out' = out /\ sending' = sending
      BY <2>2, Constants DEF Started, IsOutgoing
    <3>2. ~IsOutgoing(s) => in' = in /\ receiving' = receiving
      BY <2>2 DEF Started
    <3>3. events' = events
      BY DEF Started
    <3>. QED  BY <2>1, <3>1, <3>2, <3>3 DEF SameFor
  <2>4. Aside(t, s) /\ \A u \in Threads \ {t} : thread'[u] = thread[u]
    BY DEF Started, Aside, Moves, Idles
  <2>. QED  BY <2>1, <2>3, <2>4, ExpectedKept DEF Remembered
<1>. QED  BY <1>1, <1>2

(* A stop is followed by the abort, which sets the event.                   *)
LEMMA StopRemembered ==
    ASSUME TypeOK, Places, Remembered, Effect, Forgetful \cap troubles' = {},
           \/ \E v \in Samples, status \in StopStatuses : StoppedBy(v, status)
           \/ AbortedBy(thread["client"].s),
           NEW s \in Samples, sample'[s].owed = 1
    PROVE  Expected(s)' /\ Jobs(s)'
<1> USE DEF Threads
<1>1. "tones" \notin troubles
  BY EffectGrows DEF Grows, Forgetful
<1>2. CASE \E v \in Samples, status \in StopStatuses : StoppedBy(v, status)
  <2>1. PICK v \in Samples, status \in StopStatuses : StoppedBy(v, status)
    BY <1>2
  <2>2. /\ sample'[s].owed = sample[s].owed
        /\ UNCHANGED <<sending, receiving, out, in, events>>
        /\ thread'["client"].pc = "abort" /\ thread'["client"].s = v
        /\ thread'["media"] = thread["media"]
        /\ KindOf[v] # "tones"
        /\ thread["client"].pc = "idle"
        /\ s # v => sample'[s] = sample[s]
    BY <2>1 DEF StoppedBy, Alters, Moves, Forgetful
  <2>3. Expected(s) /\ Jobs(s)
    BY <2>2 DEF Remembered
  <2>4. CASE s = v
    <3>1. Aborting(s)'
      BY <2>2, <2>4 DEF Aborting
    <3>2. Jobs(s)'
      BY <2>2, <2>3, <2>4, <3>1 DEF Jobs
    <3>. QED  BY <3>1, <3>2 DEF Expected
  <2>5. CASE s # v
    <3>1. SameFor(s) /\ Aside("client", s)
      BY <2>2, <2>5 DEF SameFor, Aside
    <3>. QED  BY <2>2, <2>3, <3>1, ExpectedKept
  <2>. QED  BY <2>4, <2>5
<1>3. CASE AbortedBy(thread["client"].s)
  <2>1. PICK v \in Samples : v = thread["client"].s
    BY <1>3 DEF AbortedBy, Places, Place
  <2>2. KindOf[v] # "tones"
    BY <1>1, <1>3, <2>1 DEF AbortedBy, Places, Place
  <2>3. /\ thread["client"].pc = "abort"
        /\ UNCHANGED <<sample, sending, receiving>>
        /\ thread'["media"] = thread["media"]
    BY <1>3, <2>1, <2>2 DEF AbortedBy, Idles, Moves
  <2>4. Expected(s) /\ Jobs(s)
    BY <2>3 DEF Remembered
  <2>5. /\ out'.job = out.job /\ (out.ended => out'.ended) /\ in'.job = in.job
        /\ IsOutgoing(v) => in' = in /\ out'.ended
        /\ ~IsOutgoing(v) => out' = out
    BY <1>3, <2>1, OldTypes DEF AbortedBy, Aborted, OutType, InType
  <2>6. /\ events'[EventOf(v)]
        /\ events[EventOf(s)] => events'[EventOf(s)]
    BY <1>3, <2>1, OldTypes DEF AbortedBy, EventOf, Events
  <2>7. Jobs(s)'
    <3>1. KindOf[s] = "udp" /\ sample[s].state = "stopping" => out'.ended
      BY <2>1, <2>4, <2>5 DEF Jobs, Aborting, IsOutgoing
    <3>. QED  BY <2>3, <2>4, <2>5, <3>1 DEF Jobs
  <2>8. CASE IsOutgoing(s) <=> IsOutgoing(v)
    <3>1. Coming(s)'
      BY <2>6, <2>8 DEF Coming, EventOf
    <3>. QED  BY <2>7, <3>1 DEF Expected
  <2>9. CASE IsOutgoing(s) <=> ~IsOutgoing(v)
    <3>1. Watched(s) => Watched(s)'
      BY <2>3 DEF Watched
    <3>2. Coming(s) => Coming(s)'
      BY <2>3, <2>6 DEF Coming
    <3>3. ~Aborting(s)
      BY <2>1, <2>9 DEF Aborting
    <3>4. WillSignal(s) => WillSignal(s)'
      BY <2>3, <2>5, <2>9 DEF WillSignal, IsOutgoing
    <3>5. Feeding(s) => Feeding(s)'
      <4>1. Feeding(s) => out' = out
        BY <2>5, <2>9, FeedingReplayed DEF Replayed, IsOutgoing
      <4>2. out' = out => (Accepts' <=> Accepts)
        BY DEF Accepts
      <4>. QED  BY <2>3, <4>1, <4>2 DEF Feeding
    <3>. QED  BY <2>4, <2>7, <3>1, <3>2, <3>3, <3>4, <3>5 DEF Expected
  <2>. QED  BY <2>8, <2>9
<1>. QED  BY <1>2, <1>3

(* Who has completed is still to be reported.                               *)
LEMMA CompleteWatched ==
    ASSUME Places, Alone, Clean, "tones" \notin troubles, NEW s \in Samples,
           sample[s].owed = 1, ~Pointed(s)
    PROVE  \E t \in Threads : IsDone(t, s)
<1>1. sample[s].state = "idle" /\ Owed(s)
  BY DEF Clean, Alone, Plain
<1>. QED  BY <1>1 DEF Owed

(* An event is looked at, and is for the one that plays or records.         *)
LEMMA EventRemembered ==
    ASSUME TypeOK, Places, Alone, Clean, Remembered, Effect,
           Forgetful \cap troubles' = {},
           \/ \E event \in Events : Dispatched(event)
           \/ \E v \in Samples : Entered(v) \/ FirstOne(v),
           NEW s \in Samples, sample'[s].owed = 1
    PROVE  Expected(s)' /\ Jobs(s)'
<1> USE DEF Threads
<1>1. "tones" \notin troubles
  BY EffectGrows DEF Grows, Forgetful
<1>2. /\ sample'[s].owed = sample[s].owed
      /\ UNCHANGED <<sending, receiving, in>>
      /\ thread'["client"] = thread["client"]
      /\ thread["media"].pc \in {"idle", "checked"}
  BY ZenonT(30) DEF Dispatched, Entered, FirstOne, AllAlike, Alike, Alters, Moves
<1>3. Expected(s) /\ Jobs(s)
  BY <1>2 DEF Remembered
<1>4. ASSUME NEW t \in Threads, IsDone(t, s)
      PROVE  Watched(s)'
  <2>1. thread'[t] = thread[t]
    BY <1>2, <1>4 DEF IsDone
  <2>. QED  BY <1>4, <2>1 DEF IsDone, Watched
<1>5. ASSUME ~Pointed(s) PROVE Watched(s)'
  BY <1>1, <1>2, <1>4, <1>5, CompleteWatched
<1>6. \A event : event = EventOf(s) /\ Pointed(s) => Named(event) = s
  BY DEF EventOf, Named, Pointed
<1>7. CASE \E event \in Events : Dispatched(event)
  <2>1. PICK event \in Events : Dispatched(event)
    BY <1>7
  <2>2. /\ UNCHANGED <<sample, out>> /\ thread["media"].pc = "idle"
        /\ events' = [events EXCEPT ![event] = FALSE]
    BY <2>1 DEF Dispatched
  <2>3. CASE event # EventOf(s)
    <3>1. events'[EventOf(s)] = events[EventOf(s)]
      BY <2>2, <2>3, OldTypes DEF EventOf, Events
    <3>2. SameFor(s) /\ Aside("media", s)
      BY <1>2, <2>2, <3>1 DEF SameFor, Aside
    <3>. QED  BY <1>2, <1>3, <3>2, ExpectedKept
  <2>4. CASE event = EventOf(s)
    <3>1. Jobs(s)'
      BY <1>2, <1>3, <2>2 DEF Jobs, Aborting
    <3>2. CASE Pointed(s)
      <4>1. Named(event) # NoSample
        BY <1>6, <2>4, <3>2, Constants
      <4>2. Coming(s)'
        BY <2>1, <2>4, <4>1 DEF Dispatched, Coming
      <4>. QED  BY <3>1, <4>2 DEF Expected
    <3>3. CASE ~Pointed(s)
      BY <1>5, <3>1, <3>3 DEF Expected
    <3>. QED  BY <3>2, <3>3
  <2>. QED  BY <2>3, <2>4
<1>8. CASE \E v \in Samples : Entered(v)
  <2>1. PICK v \in Samples : Entered(v)
    BY <1>8
  <2>2. /\ thread["media"].pc = "checked" /\ v = Named(thread["media"].event)
        /\ thread'["media"].pc = "process" /\ thread'["media"].s = v
        /\ sample'[s].state = sample[s].state
        /\ UNCHANGED <<out, events>>
    BY <2>1 DEF Entered, AllAlike, Alike
  <2>3. Jobs(s)'
    BY <1>2, <1>3, <2>2 DEF Jobs, Aborting
  <2>4. CASE s = v
    <3>1. Watched(s)'
      BY <2>2, <2>4 DEF Watched
    <3>. QED  BY <2>3, <3>1 DEF Expected
  <2>5. CASE s # v /\ Pointed(s)
    <3>1. thread["media"].event # EventOf(s)
      BY <1>6, <2>2, <2>5
    <3>2. SameFor(s) /\ Aside("media", s)
      BY <1>2, <2>2, <3>1 DEF SameFor, Aside
    <3>. QED  BY <1>2, <1>3, <3>2, ExpectedKept
  <2>6. CASE ~Pointed(s)
    BY <1>5, <2>3, <2>6 DEF Expected
  <2>. QED  BY <2>4, <2>5, <2>6
<1>9. CASE \E v \in Samples : FirstOne(v)
  <2>1. PICK v \in Samples : FirstOne(v)
    BY <1>9
  <2>2. /\ thread["media"].pc = "checked" /\ thread["media"].event = "udp"
        /\ v = sending /\ KindOf[v] = "udp"
        /\ sample'[v].state = "active" /\ events' = events
        /\ s # v => sample'[s] = sample[s]
    BY <2>1 DEF FirstOne, Alters
  <2>3. CASE s = v
    BY <1>2, <2>2, <2>3 DEF Expected, WillSignal, Jobs
  <2>4. CASE s # v
    <3>1. Owed(v) /\ Pointed(v)
      BY <2>2 DEF Alone, Plain, Pointed, IsOutgoing
    <3>2. s \notin Others(v)
      BY <1>1, <1>2, <3>1 DEF Owed, Plain
    <3>3. ~IsOutgoing(s)
      BY <2>2, <2>4, <3>2 DEF Others, IsOutgoing
    <3>4. SameFor(s) /\ Aside("media", s)
      BY <1>2, <2>2, <2>4, <3>3 DEF SameFor, Aside, EventOf
    <3>. QED  BY <1>2, <1>3, <3>4, ExpectedKept
  <2>. QED  BY <2>3, <2>4
<1>. QED  BY <1>7, <1>8, <1>9

(* A thread that leaves a sample has been promised an event.                *)
LEMMA StepRemembered ==
    ASSUME TypeOK, TypeOK', Places, Alone, Clean, Fed', Remembered,
           "replayed" \notin troubles', Effect, Forgetful \cap troubles' = {},
           NEW t \in Threads, Steps(t), NEW s \in Samples, sample'[s].owed = 1
    PROVE  Expected(s)' /\ Jobs(s)'
<1>1. "tones" \notin troubles
  BY EffectGrows DEF Grows, Forgetful
<1>2. \A u \in Threads \ {t} : thread'[u] = thread[u]
  BY StepMoves
<1>3. events' = events
  BY DEF Steps, Failed, Returned, Saw, Received, Submitted, PutOne, LooksAgain,
         Rewound, Restarted, Ended, Reported
<1>4. ~Failed(t)
  BY <1>1, NeverFails
<1>5. CASE Returned(t)
  <2>1. /\ sample'[s].owed = sample[s].owed /\ sample'[s].state = sample[s].state
        /\ UNCHANGED <<sending, receiving, out, in>>
    BY <1>5 DEF Returned, AllAlike, Alike
  <2>2. Expected(s) /\ Jobs(s) /\ SameFor(s)
    BY <1>3, <2>1 DEF Remembered, SameFor
  <2>3. CASE thread[t].pc = "process" /\ thread[t].s = s
    <3>1. KindOf[s] = "udp" /\ sample[s].state # "stopping"
      BY <1>5, <2>3 DEF Returned, Forgetful
    <3>2. sample[s].owed = 1 /\ sample[s].state # "idle"
      BY <1>1, <2>3, ThreadOwes DEF Processing
    <3>3. sending = s
      BY <3>1, <3>2 DEF Clean, Pointed, IsOutgoing
    <3>4. WillSignal(s)'
      BY <2>1, <3>1, <3>3 DEF WillSignal
    <3>5. Jobs(s)'
      BY <2>1, <3>1 DEF Jobs
    <3>. QED  BY <3>4, <3>5 DEF Expected
  <2>4. CASE ~(thread[t].pc = "process" /\ thread[t].s = s)
    <3>1. Aside(t, s)
      BY <1>5, <2>4 DEF Returned, Aside, EventOf
    <3>. QED  BY <1>2, <2>2, <3>1, ExpectedKept
  <2>. QED  BY <2>3, <2>4
<1>6. CASE ~Returned(t)
  <2>1. /\ thread[t].pc \in Processing \cup {"done"} /\ thread[t].pc # "abort"
        /\ thread[t].pc # "checked"
    BY <1>4, <1>6 DEF Steps, Saw, Received, Submitted, PutOne, LooksAgain, Rewound,
                      Restarted, Ended, Reported, Processing
  <2>2. PICK v \in Samples : v = thread[t].s
    BY <1>1, <2>1, ThreadOwes
  <2>3. /\ sample[v].owed = 1 /\ (sample[v].state = "idle" <=> thread[t].pc = "done")
        /\ \A u \in Others(v) : sample[u].owed # 1
    BY <1>1, <2>1, <2>2, ThreadOwes
  <2>4. s # v => sample'[s] = sample[s]
    BY <1>4, <1>6, <2>2 DEF Steps, Saw, Received, Submitted, PutOne, LooksAgain,
                            Rewound, Restarted, Ended, Reported, Alters
  <2>5. CASE s # v
    <3>1. sample'[s].owed = sample[s].owed /\ sample'[s].state = sample[s].state
      BY <2>4, <2>5
    <3>2. Expected(s) /\ Jobs(s)
      BY <3>1 DEF Remembered
    <3>3. IsOutgoing(s) <=> ~IsOutgoing(v)
      BY <2>3, <2>5, <3>1 DEF Others
    <3>4. /\ in'.job = in.job /\ in'.reason = in.reason
          /\ ~IsOutgoing(v) => out' = out /\ sending' = sending
          /\ IsOutgoing(v) => receiving' = receiving
      <4>1. CASE Saw(t) \/ Submitted(t) \/ LooksAgain(t) \/ Rewound(t) \/ Reported(t)
        BY <4>1 DEF Saw, Submitted, LooksAgain, Rewound, Reported
      <4>2. CASE Received(t)
        BY <4>2, OldTypes DEF Received, InType
      <4>3. CASE PutOne(t)
        BY <2>2, <4>3 DEF PutOne, Places, Place, Replayed, IsOutgoing
      <4>4. CASE Restarted(t)
        BY <2>2, <4>4 DEF Restarted, Places, Place, IsOutgoing
      <4>5. CASE Ended(t)
        BY <2>2, <4>5 DEF Ended, SenderAfter
      <4>. QED  BY <1>4, <1>6, <4>1, <4>2, <4>3, <4>4, <4>5 DEF Steps
    <3>5. SameFor(s)
      BY <1>3, <3>1, <3>3, <3>4 DEF SameFor
    <3>6. Aside(t, s)
      BY <2>1, <2>2, <2>5 DEF Aside
    <3>. QED  BY <1>2, <3>2, <3>5, <3>6, ExpectedKept
  <2>6. CASE s = v
    <3>1. Expected(s) /\ Jobs(s) /\ thread[t].s = s
      BY <2>2, <2>3, <2>6 DEF Remembered
    <3>2. Aborting(s) => Aborting(s)'
      BY <1>2, <2>1 DEF Aborting, Threads, Processing
    <3>3. CASE Saw(t)
      BY <1>1, <3>1, <3>3, SawExpected
    <3>4. CASE Received(t) \/ LooksAgain(t) \/ Rewound(t) \/ Restarted(t)
      <4>1. thread'[t].pc \in {"process", "again"} /\ thread'[t].s = s
        BY <3>1, <3>4 DEF Received, LooksAgain, Rewound, Restarted, GoesOn
      <4>2. Watched(s)'
        BY <4>1 DEF Watched
      <4>3. Jobs(s)'
        <5>1. CASE Received(t)
          <6>1. UNCHANGED <<sample, out>> /\ in'.job = in.job
            BY <5>1, OldTypes DEF Received, InType
          <6>. QED  BY <3>1, <3>2, <6>1 DEF Jobs
        <5>2. CASE LooksAgain(t) \/ Rewound(t) \/ Restarted(t)
          <6>1. KindOf[s] = "beep"
            BY <3>1, <5>2 DEF LooksAgain, Rewound, Restarted, Places, Place
          <6>. QED  BY <6>1 DEF Jobs
        <5>. QED  BY <3>4, <5>1, <5>2
      <4>. QED  BY <4>2, <4>3 DEF Expected
    <3>5. CASE Submitted(t)
      <4>1. /\ thread[t].pc = "saw" /\ thread[t].seen = "capacity"
            /\ thread'[t].pc = "put" /\ thread'[t].s = s
            /\ thread'[t].chunk = IF KindOf[s] = "udp" THEN 1 ELSE NextChunk(s)
            /\ sample'[s].state = sample[s].state
            /\ UNCHANGED <<sending, receiving, out, in>>
        BY <3>1, <3>5 DEF Submitted, GoesOn
      <4>2. CASE ~Accepts
        <5>1. SameFor(s) /\ Aside(t, s)
          BY <1>3, <4>1, <4>2 DEF SameFor, Aside
        <5>. QED  BY <1>2, <3>1, <5>1, ExpectedKept
      <4>3. CASE Accepts
        <5>1. Accepts' /\ ~out'.ended
          BY <4>1, <4>3 DEF Accepts, AllData
        <5>2. thread'[t].chunk # 0
          <6>1. CASE KindOf[s] = "udp"
            BY <4>1, <6>1
          <6>2. CASE KindOf[s] # "udp"
            <7>0. Place(t)
              BY DEF Places
            <7>1. KindOf[s] \in Replayed
              BY <3>1, <4>1, <7>0, Constants DEF Place, SeenOf, Replayed, Kinds
            <7>2. PlaysOn(s)'
              BY <2>1, <2>3, <2>6, <4>1, <7>1 DEF PlaysOn
            <7>3. Position(s)'
              BY <5>1, <6>2, <7>2 DEF Fed
            <7>4. thread'[t].chunk = out'.got + 1
              BY <4>1, <7>3 DEF Position
            <7>5. out'.got \in Nat
              BY <4>1, OldTypes DEF OutType
            <7>. QED  BY <7>4, <7>5
          <6>. QED  BY <6>1, <6>2
        <5>3. Feeding(s)'
          BY <4>1, <5>1, <5>2 DEF Feeding
        <5>4. Jobs(s)'
          BY <3>1, <3>2, <4>1 DEF Jobs
        <5>. QED  BY <5>3, <5>4 DEF Expected
      <4>. QED  BY <4>2, <4>3
    <3>6. CASE PutOne(t)
      <4>1. /\ Accepts /\ thread[t].pc \in {"put", "first"}
            /\ out' = IsPut(out, thread[t].chunk)
            /\ sample'[s].state = sample[s].state
            /\ sending' = sending
            /\ KindOf[s] \in Replayed
        BY <3>1, <3>6 DEF PutOne, Places, Place
      <4>2. out'.ended = out.ended /\ ~out.ended
        BY <4>1, OldTypes DEF Accepts, IsPut, OutType
      <4>3. Jobs(s)'
        BY <3>1, <3>2, <4>1, <4>2 DEF Jobs, Replayed
      <4>4. CASE thread[t].pc = "put"
        <5>1. thread'[t].pc = "process" /\ thread'[t].s = s
          BY <3>1, <3>6, <4>4 DEF PutOne, GoesOn
        <5>2. Watched(s)'
          BY <5>1 DEF Watched
        <5>. QED  BY <4>3, <5>2 DEF Expected
      <4>5. CASE thread[t].pc = "first"
        <5>1. KindOf[s] = "udp"
          BY <3>1, <4>5 DEF Places, Place
        <5>2. CASE sample[s].state = "stopping"
          <6>1. Aborting(s)'
            BY <3>1, <3>2, <4>2, <5>1, <5>2 DEF Jobs
          <6>. QED  BY <4>3, <6>1 DEF Expected
        <5>3. CASE sample[s].state # "stopping"
          <6>1. sending = s
            BY <2>1, <2>3, <2>6, <4>5, <5>1 DEF Clean, Pointed, IsOutgoing
          <6>2. WillSignal(s)'
            BY <4>1, <5>1, <5>3, <6>1 DEF WillSignal
          <6>. QED  BY <4>3, <6>2 DEF Expected
        <5>. QED  BY <5>2, <5>3
      <4>. QED  BY <4>1, <4>4, <4>5
    <3>7. CASE Ended(t)
      <4>1. /\ thread'[t].pc = "done" /\ thread'[t].s = s
            /\ sample'[s].state = "idle" /\ in' = in
        BY <3>1, <3>7 DEF Ended, GoesOn
      <4>2. Watched(s)'
        BY <4>1 DEF Watched
      <4>3. Jobs(s)'
        BY <3>1, <4>1 DEF Jobs
      <4>. QED  BY <4>2, <4>3 DEF Expected
    <3>8. CASE Reported(t)
      <4>1. sample'[s].owed = 0
        BY <2>3, <2>6, <3>1, <3>8 DEF Reported
      <4>. QED  BY <4>1
    <3>. QED  BY <1>4, <1>6, <3>3, <3>4, <3>5, <3>6, <3>7, <3>8 DEF Steps
  <2>. QED  BY <2>5, <2>6
<1>. QED  BY <1>5, <1>6

(* What the board does it reports.                                          *)
LEMMA BoardRemembered ==
    ASSUME TypeOK, Places, Remembered, BoardMoves,
           NEW s \in Samples, sample'[s].owed = 1
    PROVE  Expected(s)' /\ Jobs(s)'
<1>1. UNCHANGED <<sample, sending, receiving, thread>>
  BY DEF BoardMoves
<1>2. Expected(s) /\ Jobs(s)
  BY <1>1 DEF Remembered
<1>3. /\ events[EventOf(s)] => events'[EventOf(s)]
      /\ in'.job = in.job /\ out'.job = out.job /\ (out.ended => out'.ended)
      /\ out' # out => events'["write"]
      /\ in' # in => events'["read"]
  BY OldTypes DEF BoardMoves, EventOf, Events, OutType, InType
<1>4. Jobs(s)'
  BY <1>1, <1>2, <1>3 DEF Jobs, Aborting
<1>5. CASE IF IsOutgoing(s) THEN out' = out ELSE in' = in
  <2>1. SameFor(s)
    BY <1>1, <1>3, <1>5 DEF SameFor
  <2>2. "client" \in Threads
    BY DEF Threads
  <2>. QED  BY <1>1, <1>2, <2>1, <2>2, ExpectedKept
<1>6. CASE ~(IF IsOutgoing(s) THEN out' = out ELSE in' = in)
  <2>1. Coming(s)'
    BY <1>3, <1>6 DEF Coming, EventOf
  <2>. QED  BY <1>4, <2>1 DEF Expected
<1>. QED  BY <1>5, <1>6

(* No sample is forgotten by any step.                                      *)
LEMMA RememberedStep ==
    ASSUME TypeOK, TypeOK', Places, Alone, Clean, Fed', Remembered, Effect,
           Forgetful \cap troubles' = {}
    PROVE  Remembered'
<1> SUFFICES ASSUME NEW s \in Samples, sample'[s].owed = 1
             PROVE  Expected(s)' /\ Jobs(s)'
  BY DEF Remembered
<1>1. ~TooEarly
  BY DEF TooEarly, Forgetful
<1>2. CASE \E t \in Threads : Steps(t)
  BY <1>2, StepRemembered DEF Forgetful
<1>3. CASE \E t \in Threads, v \in Samples : Started(t, v)
  BY <1>3, StartRemembered
<1>. QED  BY <1>1, <1>2, <1>3, StopRemembered, EventRemembered, BoardRemembered
          DEF Effect

----------------------------------------------------------------------------
(*                               The theorems                               *)

(* Nothing has started, nobody is at a sample, and the board is silent.     *)
LEMMA InitIsGood == Init => IInv
<1> SUFFICES ASSUME Init PROVE IInv
  OBVIOUS
<1> USE DEF Init
<1>1. /\ 0 \in 0..Buffers /\ 0 \in 0..Room /\ 0 \in 0..Beeps + 1
      /\ 0 \in 0..MaxStarts /\ 0 \in 0..1 /\ 1 \in Nat \ {0} /\ 0 \in Int
  BY Constants
<1>2. TypeOK
  <2>1. sample \in [Samples -> SampleType]
    BY <1>1 DEF SampleType, Statuses
  <2>2. out \in OutType /\ in \in InType
    BY <1>1 DEF Silent, OutType, InType
  <2>3. thread \in [Threads -> ThreadType]
    BY IdleType DEF TT
  <2>. QED  BY <1>1, <2>1, <2>2, <2>3 DEF TypeOK, OutType, InType
<1>3. \A t \in Threads : thread[t] = IdleThread /\ thread[t].pc = "idle"
  BY DEF IdleThread
<1>4. /\ \A s \in Samples : /\ sample[s].owed = 0 /\ sample[s].wanted = "none"
                            /\ sample[s].state = "idle"
      /\ sending = NoSample /\ receiving = NoSample
  OBVIOUS
<1>5. Places /\ Reasons /\ Wanting
  BY <1>3, <1>4 DEF Places, Place, Pointers, Processing, Reasons, Wanting
<1>6. Alone
  BY <1>3, <1>4, Constants DEF Alone, Owed, Inside, IsDone, Pointed, Processing
<1>7. IsComplete(out) /\ ~out.garbled
  BY DEF Silent, IsComplete
<1>8. Boards /\ Fed
  BY <1>3, <1>4, <1>7 DEF Boards, Fed, PlaysOn, AtEnd
<1>9. Clean /\ Label /\ Remembered
  BY <1>3, <1>4 DEF Clean, Label, Remembered, Threads
<1>. QED  BY <1>2, <1>5, <1>6, <1>8, <1>9 DEF IInv

(* Each part is kept by a step that brings none of the troubles that end it.*)
LEMMA Invariance == IInv /\ [Next]_vars => IInv'
<1> SUFFICES ASSUME IInv, [Next]_vars PROVE IInv'
  OBVIOUS
<1>1. CASE Next
  <2>1. TypeOK /\ Places /\ Wanting /\ Reasons
    BY DEF IInv
  <2>2. TypeOK' /\ Effect
    BY <1>1, <2>1, EffectOfStep
  <2>3. troubles \subseteq troubles'
    BY <2>2, EffectGrows DEF Grows
  <2>4. /\ "both" \notin troubles => Alone /\ Boards
        /\ {"both", "replayed"} \cap troubles = {} => Fed
        /\ {"both", "hasty", "tones"} \cap troubles = {} => Clean
        /\ {"both", "hasty", "tones", "relabelled", "remembered"} \cap troubles = {}
             => Label
        /\ Forgetful \cap troubles = {} => Remembered
    BY DEF IInv, Without, Forgetful
  <2>5. Places' /\ Wanting' /\ Reasons'
    BY <2>1, <2>2, <2>4, PlacesStep, WantingStep, ReasonsStep
  <2>6. ASSUME "both" \notin troubles' PROVE Alone' /\ Boards'
    BY <2>1, <2>2, <2>3, <2>4, <2>6, AloneStep, BoardsStep
  <2>7. ASSUME {"both", "replayed"} \cap troubles' = {} PROVE Fed'
    BY <2>1, <2>2, <2>3, <2>4, <2>7, FedStep
  <2>8. ASSUME {"both", "hasty", "tones"} \cap troubles' = {} PROVE Clean'
    BY <2>1, <2>2, <2>3, <2>4, <2>8, CleanStep
  <2>9. ASSUME {"both", "hasty", "tones", "relabelled", "remembered"}
                 \cap troubles' = {}
        PROVE  Label'
    BY <2>1, <2>2, <2>3, <2>4, <2>9, LabelStep
  <2>10. ASSUME Forgetful \cap troubles' = {} PROVE Remembered'
    <3>1. Alone /\ Clean /\ Remembered
      BY <2>3, <2>4, <2>10 DEF Forgetful
    <3>2. Fed'
      BY <2>7, <2>10 DEF Forgetful
    <3>. QED  BY <2>1, <2>2, <2>10, <3>1, <3>2, RememberedStep
  <2>. QED  BY <2>2, <2>5, <2>6, <2>7, <2>8, <2>9, <2>10
            DEF IInv, Without, Forgetful
<1>2. CASE UNCHANGED vars
  BY <1>2 DEF vars, IInv, TypeOK, Places, Place, Pointers, Wanting, Reasons,
     Without, Alone, Owed, Inside, IsDone, Pointed, Plain, Boards, PlaysOn, AtEnd,
     IsComplete, AllData, Fed, Position, Clean, Named, Label, Remembered, Expected,
     Watched, Coming, Aborting, WillSignal, Feeding, Accepts, Jobs
<1>. QED  BY <1>1, <1>2

(* It holds in every state of every behaviour.                              *)
LEMMA Invariant == Spec => []IInv
<1>. QED  BY InitIsGood, Invariance, PTL DEF Spec

(* The board has room for what it is given and gets the chunks of a file or *)
(* a beep one after the other, whoever of the two threads puts them; and no *)
(* thread comes back to a sample that was deleted, or to a null pointer.    *)
THEOREM Soundness == Spec => []Sound
<1>1. IInv => Sound
  <2> SUFFICES ASSUME IInv PROVE Sound
    OBVIOUS
  <2>1. troubles \cap {"both", "replayed"} = {} => ~out.garbled
    BY DEF IInv, Without, Fed
  <2>2. troubles \cap {"both", "hasty", "tones"} = {} => ~fault
    BY DEF IInv, Without, Clean
  <2>. QED  BY <2>1, <2>2 DEF IInv, Sound
<1>. QED  BY <1>1, Invariant, PTL

(* While no two threads process one sample at once, a sample that was       *)
(* started is reported at most once, however stops, ends and signals cross, *)
(* and with the status it was stopped with or the reason for which the      *)
(* board ended it.                                                          *)
THEOREM ReportedOnce == Spec => []CompletedOnce
<1>1. IInv => CompletedOnce
  <2> SUFFICES ASSUME IInv, troubles \cap {"both", "hasty", "tones"} = {}
               PROVE  /\ \A s \in Samples : sample[s].owed \in 0..1
                      /\ \A t \in Threads :
                           LET s == thread[t].s
                           IN thread[t].pc = "done"
                                /\ troubles \cap {"relabelled", "remembered"} = {}
                              => IF sample[s].wanted # "none"
                                 THEN sample[s].status = sample[s].wanted
                                 ELSE KindOf[s] = "record"
                                        <=> sample[s].status # "ok"
    BY DEF CompletedOnce
  <2>1. Alone /\ Places
    BY DEF IInv, Without
  <2>2. \A s \in Samples : Owed(s)
    BY <2>1 DEF Alone, Plain
  <2>3. ASSUME NEW t \in Threads, thread[t].pc = "done",
               troubles \cap {"relabelled", "remembered"} = {},
               NEW s, s = thread[t].s
        PROVE  IF sample[s].wanted # "none"
               THEN sample[s].status = sample[s].wanted
               ELSE KindOf[s] = "record" <=> sample[s].status # "ok"
    <3>1. Label
      BY <2>3 DEF IInv, Without
    <3>2. s \in Samples /\ sample[s].owed = 1 /\ sample[s].state = "idle"
      BY <2>1, <2>3, ThreadOwes
    <3>. QED  BY <3>1, <3>2 DEF Label
  <2>. QED  BY <2>2, <2>3 DEF Owed
<1>. QED  BY <1>1, Invariant, PTL

(* When both threads have nothing to do and no event is set, the board will *)
(* report on every sample that has not completed: none is forgotten.        *)
THEOREM NoneForgotten == Spec => []NotForgotten
<1>1. IInv => NotForgotten
  <2> SUFFICES ASSUME IInv,
                      thread["client"] = IdleThread, thread["media"] = IdleThread,
                      ~events["read"], ~events["write"],
                      Forgetful \cap troubles = {},
                      NEW s \in Samples, sample[s].owed > 0
               PROVE  WillSignal(s)
    BY DEF NotForgotten, Forgetful
  <2>1. Alone /\ Remembered /\ "tones" \notin troubles
    BY DEF IInv, Without, Forgetful
  <2>2. sample[s].owed = 1
    BY <2>1 DEF Alone, Owed, Plain
  <2>3. Expected(s)
    BY <2>1, <2>2 DEF Remembered
  <2>4. \A t \in Threads : thread[t].pc = "idle"
    BY DEF Threads, IdleThread
  <2>. QED  BY <2>3, <2>4
            DEF Expected, Watched, Coming, Aborting, Feeding, EventOf, Threads
<1>. QED  BY <1>1, Invariant, PTL
=============================================================================
