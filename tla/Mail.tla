---------------------------------- MODULE Mail ----------------------------------
(****************************************************************************)
(* Mail between callers (actor/mail.py and C_Office of actor.py).  The      *)
(* mailbox of a number is a file.  A caller has read it when the call       *)
(* arrived (Caller.LSTN) and keeps what it has read; the file is written as *)
(* a whole, from the mailbox in memory of whoever changes something.        *)
(*                                                                          *)
(* Mails are numbered in the order in which they were sent.  When a mail    *)
(* was read and what is announced is left out.                              *)
(****************************************************************************)
EXTENDS Integers, Sequences, FiniteSets, SequencesExt, Lists

CONSTANTS Callers, Numbers,
          MaxCalls, \* bound on the calls that arrive
          MaxMails, \* bound on the mails that are recorded
          MaxKeys,  \* bound on the keys that are pressed in the office
          Troubles  \* what may go wrong

(* "overwritten": mail for somebody who is not here but has mail            *)
(* "arriving": mail for somebody who is not in the world yet, but has read  *)
(*    the mailbox                                                           *)
(* "twins": two calls from the same number                                  *)
(* "beyond": the last mail of the box is deleted, the index stays           *)
(* "wrapped": the mail before the first is asked for                        *)
(* "abandoned": the sender hangs up instead of pressing a key or waiting    *)
AllTroubles ==
    {"overwritten", "arriving", "twins", "beyond", "wrapped", "abandoned"}

ASSUME MailAssumption ==
    /\ {MaxCalls, MaxMails, MaxKeys} \subseteq Nat
    /\ Troubles \subseteq AllTroubles

VARIABLES files,     \* the file of each number: mails
          wavs,      \* the recordings on disk
          caller,    \* the callers, with their mailboxes
          mails,     \* who sent what to whom: [from, to]
          delivered, \* what MailDialog.MLCA has handed over (history)
          deleted,   \* what was deleted by its receiver (history)
          counts,    \* calls and keys so far
          error,     \* a handler has raised an exception (history)
          troubles   \* the troubles there were so far (history)

vars == <<files, wavs, caller, mails, delivered, deleted, counts, error,
          troubles>>

Mail == 1..MaxMails
NoIndex == MaxMails \* None: no index of a mailbox is that large

(* "calling" is from LSTN to ACPT, "online" is in World.callers.  icurrent  *)
(* counts as Python does, from 0, and from the end when it is negative.     *)
CallerType == [phase : {"away", "calling", "online"}, number : Numbers,
               messages : Seq(Mail), icurrent : (-MaxMails - 1)..MaxMails,
               dialog : 0..MaxMails] \* the mail that is recorded, or 0

TypeOK ==
    /\ files \in [Numbers -> Seq(Mail)]
    /\ wavs \subseteq Mail
    /\ caller \in [Callers -> CallerType]
    /\ \A c \in Callers : caller[c].dialog # 0 => caller[c].phase = "online"
    /\ mails \in Seq([from : Numbers, to : Numbers]) /\ Len(mails) <= MaxMails
    /\ delivered \subseteq Mail /\ deleted \subseteq delivered
    /\ counts \in [calls : 0..MaxCalls, keys : 0..MaxKeys]
    /\ error \in BOOLEAN
    /\ troubles \subseteq Troubles

Init ==
    /\ files = [n \in Numbers |-> << >>]
    /\ wavs = {}
    /\ \E n \in Numbers :
           caller = [c \in Callers |->
               [phase |-> "away", number |-> n, messages |-> << >>,
                icurrent |-> NoIndex, dialog |-> 0]]
    /\ mails = << >>
    /\ delivered = {} /\ deleted = {}
    /\ counts = [calls |-> 0, keys |-> 0]
    /\ error = FALSE
    /\ troubles = {}

Troubled(what) == what \subseteq Troubles /\ troubles' = troubles \cup what

TroubleIf(condition, what) == IF condition THEN {what} ELSE {}

----------------------------------------------------------------------------
(*                                Mailboxes                                 *)

\* Message.__cmp__: the newest first
Sorted(messages) == Only([i \in Mail |-> MaxMails + 1 - i], messages)

\* Mailbox.write
Writes(n, messages) == files' = [files EXCEPT ![n] = messages]

\* Variant: __init__ without read
ReadsNothing(n) == << >>

\* Mailbox.read
Reads(n) == Sorted(Range(files[n]))

(* os.remove: it fails for a mail that plays ("This will leak files").      *)
Removes(mail) == wavs' \in {wavs, wavs \ {mail}}

IsIndex(messages, i) == -Len(messages) <= i /\ i < Len(messages)

Place(messages, i) == IF i >= 0 THEN i + 1 ELSE Len(messages) + i + 1

At(messages, i) == messages[Place(messages, i)]

Without(messages, i) == RemoveAt(messages, Place(messages, i))

(* These give the new index, or None.                                       *)
current(box) == IF box.icurrent = NoIndex THEN 0 ELSE box.icurrent

\* Variant: one more
nextBeyond(box) ==
    LET i == IF box.icurrent = NoIndex THEN 0 ELSE box.icurrent + 1
    IN IF i > Len(box.messages) THEN NoIndex ELSE i

next(box) ==
    LET i == IF box.icurrent = NoIndex THEN 0 ELSE box.icurrent + 1
    IN IF i >= Len(box.messages) THEN NoIndex ELSE i

previous(box) ==
    LET i == IF box.icurrent = NoIndex THEN Len(box.messages) - 1
             ELSE box.icurrent - 1
    IN IF i = 0 THEN NoIndex ELSE i

(* play_current deletes k mails, until it finds one that has its recording. *)
After(messages, i, k) ==
    LET p == Place(messages, i)
    IN IF i >= 0
       THEN SubSeq(messages, 1, p - 1) \o SubSeq(messages, p + k, Len(messages))
       ELSE SubSeq(messages, 1, p - k) \o SubSeq(messages, p + 1, Len(messages))

Existing(messages, i) ==
    LET k == CHOOSE k \in 0..Len(messages) :
            /\ \A j \in 0..(k - 1) :
                   /\ IsIndex(After(messages, i, j), i)
                   /\ At(After(messages, i, j), i) \notin wavs
            /\ \/ ~IsIndex(After(messages, i, k), i)
               \/ At(After(messages, i, k), i) \in wavs
    IN After(messages, i, k)

----------------------------------------------------------------------------
(*                                  Calls                                   *)

Arrived(n) == {c \in Callers : caller[c].phase # "away" /\ caller[c].number = n}

Online(n) == {c \in Arrived(n) : caller[c].phase = "online"}

(* Caller.LSTN                                                              *)
LSTN(c) ==
    /\ caller[c].phase = "away" /\ counts.calls < MaxCalls
    /\ \E n \in Numbers :
        /\ caller' = [caller EXCEPT ![c] =
               [phase |-> "calling", number |-> n, messages |-> Reads(n),
                icurrent |-> NoIndex, dialog |-> 0]]
        /\ Troubled(TroubleIf(Arrived(n) # {}, "twins"))
    /\ counts' = [counts EXCEPT !.calls = @ + 1]
    /\ UNCHANGED <<files, wavs, mails, delivered, deleted, error>>

(* Caller.ACPT                                                              *)
ACPT(c) ==
    /\ caller[c].phase = "calling"
    /\ caller' = [caller EXCEPT ![c].phase = "online"]
    /\ UNCHANGED <<files, wavs, mails, delivered, deleted, counts, error,
                   troubles>>

(* Caller.disconnected                                                      *)
Disconnected(c) ==
    caller' = [caller EXCEPT ![c].phase = "away", ![c].dialog = 0]

(* Caller.RDIS.  What was recorded so far, if anything was, stays.  MLCA is *)
(* answered later, or never; there is no dialog any more that hears of it.  *)
RDIS(c) ==
    /\ caller[c].phase # "away" /\ Disconnected(c)
    /\ wavs' \in {wavs, wavs \cup ({caller[c].dialog} \ {0})}
    /\ Troubled(TroubleIf(caller[c].dialog # 0, "abandoned"))
    /\ UNCHANGED <<files, mails, delivered, deleted, counts, error>>

----------------------------------------------------------------------------
(*                                MailDialog                                *)

(* start(); keys are swallowed until the mail is recorded.                  *)
Starts(c, to, i) ==
    /\ Len(mails) < MaxMails
    /\ mails' = Append(mails, [from |-> caller[c].number, to |-> to])
    /\ caller' = [caller EXCEPT ![c].dialog = Len(mails) + 1, ![c].icurrent = i]

Listens(c) == caller[c].phase = "online" /\ caller[c].dialog = 0

(* Room.starhash: a shortcut that is no room is a number.                   *)
starhash(c) ==
    /\ Listens(c)
    /\ \E to \in Numbers : Starts(c, to, caller[c].icurrent)
    /\ UNCHANGED <<files, wavs, delivered, deleted, counts, error, troubles>>

(* The mail is recorded: it is handed to the first who calls from that      *)
(* number, if there is one, or goes into the file: a new Mailbox, that has  *)
(* not read what is there.                                                  *)
MLCA(c) ==
    LET m == caller[c].dialog
        to == mails[m].to
        done == [caller EXCEPT ![c].dialog = 0]
    IN /\ m # 0
       /\ wavs' = wavs \cup {m} /\ delivered' = delivered \cup {m}
       /\ \/ \E d \in Online(to) :
                 LET messages == Sorted(Range(caller[d].messages) \cup {m})
                 IN /\ caller' = [done EXCEPT ![d].messages = messages]
                    /\ Writes(to, messages)
                    /\ UNCHANGED troubles
          \/ /\ Online(to) = {}
             /\ caller' = done
             /\ Writes(to, <<m>>)
             /\ Troubled(TroubleIf(files[to] # << >>, "overwritten")
                         \cup TroubleIf(Arrived(to) # {}, "arriving"))
       /\ UNCHANGED <<mails, deleted, counts, error>>

----------------------------------------------------------------------------
(*                            Keys in the office                            *)

Presses(c) ==
    /\ Listens(c) /\ counts.keys < MaxKeys
    /\ counts' = [counts EXCEPT !.keys = @ + 1]

(* C_Office.enter                                                           *)
reset(c) ==
    /\ Listens(c)
    /\ caller' = [caller EXCEPT ![c].icurrent = NoIndex]
    /\ UNCHANGED <<files, wavs, mails, delivered, deleted, counts, error,
                   troubles>>

(* IndexError: Sequencer.parse hangs up.                                    *)
Raises(c) == Disconnected(c) /\ error' = TRUE /\ UNCHANGED files

(* C_Office.browse: 1, 2 or 3, and play_current                             *)
browse(c) ==
    LET box == caller[c]
    IN /\ Presses(c) /\ box.messages # << >>
       /\ \E i \in {previous(box), current(box), next(box)} :
           LET rest == Existing(box.messages, i)
           IN \/ /\ i = NoIndex
                 /\ caller' = [caller EXCEPT ![c].icurrent = i]
                 /\ UNCHANGED <<files, error>>
              \/ /\ i # NoIndex
                 /\ \/ ~IsIndex(box.messages, i)
                    \/ rest # << >> /\ ~IsIndex(rest, i)
                 /\ Raises(c)
              \/ /\ i # NoIndex /\ IsIndex(box.messages, i)
                 /\ (rest = << >> \/ IsIndex(rest, i))
                 /\ caller' = [caller EXCEPT ![c].icurrent = i,
                                             ![c].messages = rest]
                 /\ IF rest = << >> THEN UNCHANGED files
                    ELSE Writes(box.number, rest)
                 /\ UNCHANGED error
       /\ Troubled(TroubleIf(box.icurrent = 0 /\ caller'[c].icurrent = -1,
                             "wrapped"))
       /\ UNCHANGED <<wavs, mails, delivered, deleted>>

(* 4: a reply to the current mail                                           *)
Reply(c) ==
    LET box == caller[c]
        i == current(box)
    IN /\ Presses(c) /\ box.messages # << >>
       /\ \/ /\ IsIndex(box.messages, i)
             /\ Starts(c, mails[At(box.messages, i)].from, i)
             /\ UNCHANGED <<files, error>>
          \/ /\ ~IsIndex(box.messages, i) /\ Raises(c)
             /\ UNCHANGED mails
       /\ UNCHANGED <<wavs, delivered, deleted, troubles>>

(* 9: delete_current leaves the index where it is.                          *)
delete_current(c) ==
    LET box == caller[c]
        rest == Without(box.messages, box.icurrent)
        m == At(box.messages, box.icurrent)
    IN /\ Presses(c) /\ box.icurrent # NoIndex
       /\ \/ /\ IsIndex(box.messages, box.icurrent)
             /\ caller' = [caller EXCEPT ![c].messages = rest]
             /\ Writes(box.number, rest) /\ Removes(m)
             /\ deleted' = deleted \cup {m}
             /\ Troubled(TroubleIf(~IsIndex(rest, box.icurrent), "beyond"))
             /\ UNCHANGED error
          \/ /\ ~IsIndex(box.messages, box.icurrent) /\ Raises(c)
             /\ UNCHANGED <<wavs, deleted, troubles>>
       /\ UNCHANGED <<mails, delivered>>

----------------------------------------------------------------------------
(* Nothing new begins once there was trouble, but keys that show what       *)
(* becomes of a wrong index or a stale mailbox.                             *)
Next ==
    \E c \in Callers :
        \/ ACPT(c) \/ RDIS(c) \/ MLCA(c)
        \/ troubles = {} /\ (LSTN(c) \/ starhash(c) \/ reset(c))
        \/ /\ troubles \subseteq {"beyond", "wrapped", "twins"}
           /\ (browse(c) \/ Reply(c) \/ delete_current(c))

Spec == Init /\ [][Next]_vars

----------------------------------------------------------------------------
(*                                Properties                                *)

(* A mail that was handed over is in the file of its receiver until the     *)
(* receiver deletes it ("Save the message if the caller wasn't online",     *)
(* MailDialog.MLCA; "Add a message to the mailbox.", Mailbox.add).          *)
MailKept ==
    \A m \in delivered \ deleted : m \in Range(files[mails[m].to])

InBoxes == UNION {Range(files[n]) : n \in Numbers}

Recorded ==
    /\ InBoxes \subseteq wavs /\ wavs \ InBoxes \subseteq deleted
    /\ InBoxes \cap deleted = {}

(* So it is unless somebody wrote the file from a mailbox that was stale or *)
(* never read: nothing else that callers do to several mailboxes in any     *)
(* order loses a mail (Mailbox.write writes all of it).  What a caller      *)
(* browses is what is in the file, whoever else has written it.  Every mail *)
(* has its recording, so that play_current never has to drop one, and a     *)
(* recording without its mail is that of a mail that was deleted (while it  *)
(* played: "This will leak files", delete_current); a mail that was deleted *)
(* does not come back.                                                      *)
NothingLost ==
    troubles = {} =>
        /\ MailKept
        /\ \A c \in Callers : caller[c].phase # "away" =>
               caller[c].messages = files[caller[c].number]
        /\ Recorded

(* No key raises IndexError, unless the last mail was deleted, the index    *)
(* went below the first, or a twin has deleted mails that the caller still  *)
(* browses (the caller is hung up on).                                      *)
Sound == TypeOK /\ (error => troubles \cap {"beyond", "wrapped", "twins"} # {})

=============================================================================
