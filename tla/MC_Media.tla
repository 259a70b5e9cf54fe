------------------------------- MODULE MC_Media --------------------------------
EXTENDS Media, TLC

CONSTANTS f, b, d, u, r

\* one sample of each class
MCKindOf == f :> "file" @@ b :> "beep" @@ d :> "tones" @@ u :> "udp" @@ r :> "record"
=============================================================================
