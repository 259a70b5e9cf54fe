----------------------------- MODULE MC_Sequencer -----------------------------
(* Playlists small enough for TLC: two or three requests with the           *)
(* priorities and modes that the game's policies ask for (actor/molecule.py *)
(* P_Background, P_Normal, P_Discard, P_Transition, P_Urgent).              *)
EXTENDS Sequencer, TLC

Offer(priority, mode, atoms) ==
    [channel |-> 0, priority |-> priority, mode |-> mode, atoms |-> atoms]

OnOther(offer) == [offer EXCEPT !.channel = 1]

\* prompts of one or two files
Prompts ==
    {Offer(0, {"mute", "loop"}, <<"play">>),
     Offer(1, {"mute"}, <<"play", "play">>),
     Offer(1, {"discard", "dtmf_stop"}, <<"play">>),
     Offer(3, {"dont_interrupt", "dtmf_stop"}, <<"play">>)}

\* prompts of one file, interrupted in every way but by a touchtone
Resumable ==
    {Offer(0, {"mute", "loop"}, <<"play">>),
     Offer(1, {"restart"}, <<"play">>),
     Offer(1, {"discard"}, <<"play">>),
     Offer(3, {"dont_interrupt"}, <<"play">>)}

\* prompts on one channel, on the other a conference and what interrupts it
Rooms ==
    {Offer(0, {"mute", "loop"}, <<"play">>),
     OnOther(Offer(0, {"mute", "loop"}, <<"conf">>)),
     OnOther(Offer(1, {"discard"}, <<"conf">>)),
     OnOther(Offer(1, {"mute"}, <<"play">>))}

\* every kind of atom but conferences, interrupted and interrupting.  A silence
\* that is the last atom is outlived by its on_timer().
Mixed ==
    {Offer(0, {"restart"}, <<"slnc">>),
     Offer(1, {"discard", "dtmf_stop"}, <<"dtmf">>),
     Offer(2, {"dont_interrupt"}, <<"play">>)}

\* no loops: everything comes to an end
Finite ==
    {Offer(0, {"mute"}, <<"play", "play">>),
     Offer(1, {"restart"}, <<"play">>),
     Offer(1, {"pause"}, <<"play", "dtmf">>),
     Offer(2, {"dont_interrupt"}, <<"slnc", "play">>)}

\* What arrives
InBackground == {"MLCD", "MLDP", "BGRC", "lost_connection", "touchtone"}
CallByCall == {"DISC", "CNFC", "lost_connection", "onIncoming"}
LocalHangup == {"DISC", "lost_connection"}
RemoteHangup == {"disconnectRequest"}
LocalDiscard == {"MLCD"}
InCall == {"MLCD", "DISC", "disconnectRequest", "touchtone"}

Symmetry == Permutations(Ids)
=============================================================================
