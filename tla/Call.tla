---------------------------------- MODULE Call ----------------------------------
(****************************************************************************)
(* A telephone line as its client sees it (doc/protocol.md and the replies  *)
(* of sequencer/sequence.cpp): what module Line, with its driver, trunk and *)
(* threads, is meant to implement.                                          *)
(*                                                                          *)
(* A line is free, has a call that is offered to a client, is dialing, up   *)
(* or ending; each command is answered once, and the answer says where the  *)
(* call goes.  A line that had a trouble is out of order and promises       *)
(* nothing any more.                                                        *)
(****************************************************************************)
EXTENDS Naturals, Sequences

VARIABLES phase,    \* of the call
          rdis,     \* the client was told that the far end has hung up
          commands  \* the client's commands and their answers

callVars == <<phase, rdis, commands>>

CallPhases == {"free", "offered", "dialing", "up", "ending", "out of order"}

CallInit == phase = "free" /\ ~rdis /\ commands = << >>

Pending(cmd, i) ==
    /\ i \in DOMAIN commands
    /\ commands[i].cmd = cmd /\ commands[i].answer = "none"

Moves(from, to) == phase \in from /\ phase' = to

AnswersCommand(i, answer) == commands' = [commands EXCEPT ![i].answer = answer]

(* LSTN is answered when a call arrives; a call that nobody waits for ends. *)
Offers == Moves({"free"}, "offered") /\ UNCHANGED <<rdis, commands>>

Rejects == Moves({"free"}, "ending") /\ UNCHANGED <<rdis, commands>>

(* Only a line that is free is dialed on.                                   *)
Dials ==
    /\ Moves({"free"}, "dialing")
    /\ commands' = Append(commands, [cmd |-> "CONN", answer |-> "none"])
    /\ UNCHANGED rdis

(* ACPT and DISC are for the client's own call; what is no longer possible  *)
(* is refused at once, DISC of a call that is over is answered as done.     *)
Commands ==
    /\ phase \in {"offered", "up", "ending"}
    /\ \E cmd \in {"ACPT", "DISC"},
          answer \in {"none", "failed", "violation"} :
          commands' = Append(commands, [cmd |-> cmd, answer |-> answer])
    /\ UNCHANGED <<phase, rdis>>

Accepts ==
    /\ \E i \in DOMAIN commands : Pending("ACPT", i) /\ AnswersCommand(i, "ok")
    /\ Moves({"offered"}, "up")
    /\ UNCHANGED rdis

Connects ==
    /\ \E i \in DOMAIN commands : Pending("CONN", i) /\ AnswersCommand(i, "ok")
    /\ Moves({"dialing"}, "up")
    /\ UNCHANGED rdis

(* A call that ACPT fails for, because the far end hung up or it was up     *)
(* already, is taken down before the line is free.                          *)
FailsToAccept ==
    /\ \E i \in DOMAIN commands : Pending("ACPT", i) /\ AnswersCommand(i, "failed")
    /\ Moves({"offered", "up"}, "ending")
    /\ UNCHANGED rdis

FailsToConnect ==
    /\ \E i \in DOMAIN commands : Pending("CONN", i) /\ AnswersCommand(i, "failed")
    /\ Moves({"dialing"}, "free")
    /\ UNCHANGED rdis

(* RDIS is sent once per call, and never to a client that hangs up.         *)
TellsRemoteHangup ==
    /\ phase \in {"offered", "up"} /\ ~rdis
    /\ rdis' = TRUE
    /\ UNCHANGED <<phase, commands>>

HangsUp ==
    /\ \E i \in DOMAIN commands : Pending("DISC", i)
    /\ Moves({"offered", "up"}, "ending")
    /\ UNCHANGED <<rdis, commands>>

LosesClient ==
    /\ Moves({"offered", "up", "ending"}, "ending")
    /\ commands' = [i \in DOMAIN commands |->
                       IF commands[i].answer = "none"
                       THEN [commands[i] EXCEPT !.answer = "gone"] ELSE commands[i]]
    /\ rdis' = FALSE

(* With DISC answered, or nobody left to answer, the line is free.          *)
Ends ==
    /\ Moves({"ending"}, "free")
    /\ \/ \E i \in DOMAIN commands : Pending("DISC", i) /\ AnswersCommand(i, "ok")
       \/ /\ ~\E i \in DOMAIN commands : Pending("DISC", i)
          /\ UNCHANGED commands
    /\ rdis' = FALSE

GoesOutOfOrder == phase' = "out of order"

CallNext ==
    \/ Offers \/ Rejects \/ Dials \/ Commands
    \/ Accepts \/ Connects \/ FailsToAccept \/ FailsToConnect
    \/ TellsRemoteHangup \/ HangsUp \/ LosesClient \/ Ends
    \/ GoesOutOfOrder

CallSpec == CallInit /\ [][CallNext]_callVars
=============================================================================
