------------------------------ MODULE Molecules ------------------------------
(****************************************************************************)
(* Molecules, the units of a playlist (sequencer/activ.h, activ.cpp).       *)
(*                                                                          *)
(* A molecule is a client's MLCA request: a list of atoms played one after  *)
(* the other on one channel, with a priority and a set of mode flags.  The  *)
(* module holds the record that stands for a Molecule object and the parts  *)
(* of Molecule that touch nothing but that record.                          *)
(*                                                                          *)
(* Atoms are abstracted to the way they can be stopped:                     *)
(*   "play"  files, recordings, beeps and UDP streams: stop() only asks the *)
(*           board to abort, the completion arrives later                   *)
(*   "dtmf"  touchtones: stop() completes the atom before it returns        *)
(*   "slnc"  silence: driven by the timer thread, stop() queues the         *)
(*           completion                                                     *)
(*   "conf"  membership of a conference: never ends by itself, stop()       *)
(*           queues the completion                                          *)
(* Positions are abstracted to the atom that setPos() lands on; lengths     *)
(* are arbitrary, so any atom or none is possible.                          *)
(****************************************************************************)
EXTENDS Naturals, Sequences

Kinds == {"play", "dtmf", "slnc", "conf"}

Flags == {"discard", "pause", "mute", "restart", "dont_interrupt", "loop",
          "dtmf_stop"}

Statuses == {"ok", "stopped", "stopped_dtmf", "stopped_disconnect"}

\* Where the object is: not yet requested, linked into its activity's list,
\* unlinked but not freed, or deleted.
Phases == {"new", "queued", "detached", "gone"}

\* The state of the current atom's Sample, conference membership or timer id.
\* "stopping" is a sample that was aborted, "fired" a timer the timer thread
\* has taken out of its set while the atom still holds its id.
SampleStates == {"idle", "active", "stopping", "fired"}

(* cur is the index of m_current, 0 for the null pointer.                   *)
(* orphans counts the timers of a silence that are still in the Timer's set *)
(* although the atom's m_timer no longer names them.                        *)
(* before is the DLink's prev pointer at the moment the molecule was        *)
(* unlinked: List::removeAfter never clears it.                             *)
MoleculeType(Ids, NoId) ==
    [phase    : Phases,
     channel  : 0..1,
     priority : Nat,
     mode     : SUBSET Flags,
     atoms    : Seq(Kinds),
     cur      : Nat,
     active   : BOOLEAN,
     stopped  : BOOLEAN,
     status   : Statuses,
     sample   : SampleStates,
     sstatus  : Statuses,
     orphans  : Nat,
     before   : Ids \cup {NoId}]

NewMolecule(channel, priority, mode, atoms, NoId) ==
    [phase |-> "queued", channel |-> channel, priority |-> priority,
     mode |-> mode, atoms |-> atoms, cur |-> 0, active |-> FALSE,
     stopped |-> FALSE, status |-> "ok", sample |-> "idle",
     sstatus |-> "ok", orphans |-> 0, before |-> NoId]

UnusedMolecule(NoId) ==
    [NewMolecule(0, 0, {}, << >>, NoId) EXCEPT !.phase = "new"]

----------------------------------------------------------------------------
CurrentKind(r) == r.atoms[r.cur]

AtEnd(r) == r.cur = Len(r.atoms)

(* Molecule::start: the atom that becomes m_current.  `landed' is the atom  *)
(* setPos() finds, 0 if it returns false.  A mute molecule whose setPos()   *)
(* fails does not start; a paused one ignores the result.                   *)
AtomToStart(r, landed) ==
    IF ~r.stopped                   THEN IF r.cur = 0 THEN 1 ELSE r.cur
    ELSE IF "restart" \in r.mode    THEN 1
    ELSE IF "mute" \in r.mode       THEN landed
    ELSE IF "pause" \in r.mode /\ landed # 0 THEN landed
    ELSE r.cur

(* setPos() runs only for molecules that were stopped and are mute or pause *)
Repositions(r) == {"mute", "pause"} \cap r.mode # {} /\ "restart" \notin r.mode

(* Molecule::stop refuses a molecule that must not be interrupted, unless a *)
(* touchtone stops one that asks for it.                                    *)
Interruptible(r, status) ==
    \/ "dont_interrupt" \notin r.mode
    \/ "dtmf_stop" \in r.mode /\ status = "stopped_dtmf"

(* Molecule::done returns true when the molecule is to be removed.          *)
DoneReturns(r) ==
    IF r.stopped
    THEN \/ "discard" \in r.mode
         \/ "dtmf_stop" \in r.mode /\ r.status = "stopped_dtmf"
    ELSE AtEnd(r) /\ "loop" \notin r.mode

(* Molecule::done: clears the active flag; unless stopped, moves on to the  *)
(* next atom, back to the first one when looping.                           *)
Done(r) ==
    LET next == IF ~AtEnd(r) THEN r.cur + 1
                ELSE IF "loop" \in r.mode THEN 1 ELSE 0
    IN [r EXCEPT !.active = FALSE,
                 !.cur = IF r.stopped THEN r.cur ELSE next,
                 !.sample = IF r.stopped \/ next = r.cur
                            THEN r.sample ELSE "idle",
                 !.sstatus = IF r.stopped \/ next = r.cur
                             THEN r.sstatus ELSE "ok"]
=============================================================================
