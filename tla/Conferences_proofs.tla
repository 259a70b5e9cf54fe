-------------------------- MODULE Conferences_proofs --------------------------
(****************************************************************************)
(* For any number of conferences and channels: the counters of a conference *)
(* agree with its parties, its handle never outlives it, and, if nobody     *)
(* joins only to listen, everybody hears all the others that speak.         *)
(****************************************************************************)
EXTENDS Conferences, FiniteSetTheorems, TLAPS

(* A party is in the conference that its thread is in, and in no other;     *)
(* only a party that listens has a low-level conference.                    *)
Joined ==
    /\ \A p \in Parties : call[p].pc # "out" =>
          call[p].conf \in Handles /\ call[p].mode \in Modes
    /\ \A h \in Handles : \A p \in Parties :
          p \in conf[h].parties <=> call[p].pc = "in" /\ call[p].conf = h
    /\ \A p \in low : call[p].pc = "in" /\ Listens(call[p].mode)

(* A conference is closed only after its handle is gone, and deleted only   *)
(* once it is closed.                                                       *)
Lifetime ==
    /\ \A h \in Handles :
          /\ conf[h].deleted => conf[h].closed
          /\ conf[h].closed => ~conf[h].mapped
          /\ conf[h].closed => conf[h].created
          /\ conf[h].mapped => conf[h].created
    /\ \A p \in Parties :
          call[p].pc = "deleting" => conf[call[p].conf].closed
    /\ closer # NoHandle => ~conf[closer].mapped /\ conf[closer].created

IInv == TypeOK /\ Joined /\ Lifetime /\ CountsAgree

(* The speakers and listeners of a conference                               *)
Speakers(h) == SpeakersIn(conf[h])
Listeners(h) == ListenersIn(conf[h])

LEMMA InitInvariant == Init => IInv /\ HearsSpeakers
<1> SUFFICES ASSUME Init PROVE IInv /\ HearsSpeakers
  OBVIOUS
<1>1. \A h \in Handles : SpeakersIn(conf[h]) = {} /\ ListenersIn(conf[h]) = {}
  BY DEF Init, SpeakersIn, ListenersIn
<1>2. TypeOK
  BY DEF Init, TypeOK, ConferenceType, CallType, Out, AllModes
<1>3. Joined /\ Lifetime
  BY DEF Init, Joined, Lifetime, Out
<1>4. CountsAgree
  BY <1>1, FS_EmptySet DEF Init, CountsAgree
<1>5. HearsSpeakers
  BY <1>1 DEF HearsSpeakers
<1>. QED  BY <1>2, <1>3, <1>4, <1>5 DEF IInv

(* Whoever is not in a conference does not count in any.                    *)
LEMMA SameSets ==
    ASSUME IInv,
           \A h \in Handles : conf'[h].parties = conf[h].parties,
           \A p \in Parties : call[p].pc = "in" => call'[p] = call[p]
    PROVE  \A h \in Handles :
              Speakers(h)' = Speakers(h) /\ Listeners(h)' = Listeners(h)
<1> SUFFICES ASSUME NEW h \in Handles
             PROVE  Speakers(h)' = Speakers(h) /\ Listeners(h)' = Listeners(h)
  OBVIOUS
<1>1. \A q \in conf[h].parties : call'[q] = call[q]
  BY DEF IInv, TypeOK, ConferenceType, Joined
<1>. QED
  BY <1>1 DEF Speakers, Listeners, SpeakersIn, ListenersIn

(* The interface thread and a lookup change who is where in no conference.  *)
LEMMA QuietInvariant ==
    ASSUME IInv,
           \/ \E h \in Handles : Create(h) \/ Close(h)
           \/ CloseMarks
           \/ \E p \in Parties : \/ \E h \in Handles, m \in Modes : Find(p, h, m)
                                 \/ Delete(p)
           \/ UNCHANGED vars
    PROVE  IInv' /\ (HearsSpeakers => HearsSpeakers')
<1>. USE DEF IInv
<1>a. /\ conf \in [Handles -> ConferenceType]
      /\ call \in [Parties -> CallType]
      /\ closer \in Handles \cup {NoHandle} /\ NoHandle \notin Handles
  BY HandlesAssumption DEF TypeOK
<1>1. ASSUME \A h \in Handles :
                /\ conf'[h].parties = conf[h].parties
                /\ conf'[h].speakers = conf[h].speakers
                /\ conf'[h].listeners = conf[h].listeners,
             \A p \in Parties : call[p].pc = "in" => call'[p] = call[p],
             hears' = hears
      PROVE  CountsAgree' /\ (HearsSpeakers => HearsSpeakers')
  <2>1. \A h \in Handles :
           Speakers(h)' = Speakers(h) /\ Listeners(h)' = Listeners(h)
    BY <1>1, SameSets
  <2>. QED
    BY <1>1, <2>1
    DEF CountsAgree, HearsSpeakers, Speakers, Listeners
<1>2. ASSUME NEW h \in Handles, Create(h)
      PROVE  IInv' /\ (HearsSpeakers => HearsSpeakers')
  <2>1. /\ conf' = [conf EXCEPT ![h].created = TRUE, ![h].mapped = TRUE]
        /\ hears' = hears /\ low' = low /\ call' = call /\ closer' = closer
        /\ fault' = fault /\ ~conf[h].created
    BY <1>2 DEF Create
  <2>2. conf' \in [Handles -> ConferenceType]
    BY ZenonT(30), <1>a, <2>1 DEF ConferenceType
  <2>3. CountsAgree' /\ (HearsSpeakers => HearsSpeakers')
    BY <1>1, <1>a, <2>1 DEF ConferenceType
  <2>4. TypeOK' /\ Joined'
    BY <1>a, <2>1, <2>2 DEF TypeOK, Joined, ConferenceType
  <2>5. Lifetime'
    BY <1>a, <2>1 DEF Lifetime, Joined, ConferenceType
  <2>. QED  BY <2>3, <2>4, <2>5
<1>3. ASSUME NEW h \in Handles, Close(h)
      PROVE  IInv' /\ (HearsSpeakers => HearsSpeakers')
  <2>1. /\ conf' = [conf EXCEPT ![h].mapped = FALSE]
        /\ hears' = hears /\ low' = low /\ call' = call /\ closer' = h
        /\ fault' = fault /\ conf[h].mapped
    BY <1>3 DEF Close
  <2>2. conf' \in [Handles -> ConferenceType]
    BY <1>a, <2>1 DEF ConferenceType
  <2>3. CountsAgree' /\ (HearsSpeakers => HearsSpeakers')
    BY <1>1, <1>a, <2>1 DEF ConferenceType
  <2>4. TypeOK' /\ Joined'
    BY <1>a, <2>1, <2>2 DEF TypeOK, Joined, ConferenceType
  <2>5. Lifetime'
    BY <1>a, <2>1 DEF Lifetime, Joined, ConferenceType
  <2>. QED  BY <2>3, <2>4, <2>5
<1>4. CASE CloseMarks
  <2>1. /\ conf' = [conf EXCEPT ![closer].closed = TRUE]
        /\ hears' = hears /\ low' = low /\ call' = call /\ closer' = NoHandle
        /\ fault' = conf[closer].deleted /\ closer \in Handles
    BY <1>4, <1>a DEF CloseMarks
  <2>2. conf' \in [Handles -> ConferenceType] /\ fault' \in BOOLEAN
    BY <1>a, <2>1 DEF ConferenceType
  <2>3. CountsAgree' /\ (HearsSpeakers => HearsSpeakers')
    BY <1>1, <1>a, <2>1 DEF ConferenceType
  <2>4. TypeOK' /\ Joined'
    BY <1>a, <2>1, <2>2 DEF TypeOK, Joined, ConferenceType
  <2>5. Lifetime'
    BY <1>a, <2>1 DEF Lifetime, Joined, ConferenceType
  <2>. QED  BY <2>3, <2>4, <2>5
<1>5. ASSUME NEW p \in Parties, NEW h \in Handles, NEW m \in Modes, Find(p, h, m)
      PROVE  IInv' /\ (HearsSpeakers => HearsSpeakers')
  <2>1. /\ call' = [call EXCEPT ![p] =
                       [pc |-> "found", conf |-> h, mode |-> m]]
        /\ hears' = hears /\ low' = low /\ conf' = conf /\ closer' = closer
        /\ fault' = fault /\ call[p].pc = "out"
    BY <1>5 DEF Find
  <2>2. call' \in [Parties -> CallType]
    BY <1>a, <2>1, ModesAssumption DEF CallType, AllModes
  <2>3. CountsAgree' /\ (HearsSpeakers => HearsSpeakers')
    BY <1>1, <1>a, <2>1
  <2>4. TypeOK'
    BY <2>1, <2>2 DEF TypeOK
  <2>5. Joined'
    BY <1>a, <2>1 DEF Joined, TypeOK
  <2>6. Lifetime'
    BY <1>a, <2>1 DEF Lifetime
  <2>. QED  BY <2>3, <2>4, <2>5, <2>6
<1>6. ASSUME NEW p \in Parties, Delete(p)
      PROVE  IInv' /\ (HearsSpeakers => HearsSpeakers')
  <2> DEFINE h == call[p].conf
  <2>1. /\ call' = [call EXCEPT ![p] = Out]
        /\ conf' = [conf EXCEPT ![h].deleted = TRUE]
        /\ hears' = hears /\ low' = low /\ closer' = closer
        /\ fault' = conf[h].deleted /\ call[p].pc = "deleting"
    BY <1>6 DEF Delete
  <2>2. h \in Handles /\ conf[h].closed
    BY <2>1 DEF Joined, Lifetime
  <2>3. call' \in [Parties -> CallType] /\ Out.pc = "out"
    BY <1>a, <2>1 DEF CallType, Out, AllModes
  <2>4. conf' \in [Handles -> ConferenceType] /\ fault' \in BOOLEAN
    <3>1. conf[h] \in ConferenceType /\ fault' = conf[h].deleted
      BY Zenon, <1>a, <2>1, <2>2
    <3>2. /\ [conf[h] EXCEPT !.deleted = TRUE] \in ConferenceType
          /\ conf[h].deleted \in BOOLEAN
      BY <3>1 DEF ConferenceType
    <3>3. conf' = [conf EXCEPT ![h] = [conf[h] EXCEPT !.deleted = TRUE]]
      BY Zenon, <1>a, <2>1, <2>2
    <3>. QED  BY Zenon, <1>a, <3>1, <3>2, <3>3
  <2> HIDE DEF h
  <2>5. CountsAgree' /\ (HearsSpeakers => HearsSpeakers')
    BY <1>1, <1>a, <2>1, <2>2 DEF ConferenceType
  <2>6. TypeOK'
    BY <2>1, <2>3, <2>4 DEF TypeOK
  <2>7. Joined'
    BY <1>a, <2>1, <2>2, <2>3 DEF Joined, TypeOK, ConferenceType
  <2>8. Lifetime'
    BY <1>a, <2>1, <2>2, <2>3 DEF Lifetime, ConferenceType, Joined
  <2>. QED  BY <2>5, <2>6, <2>7, <2>8
<1>7. CASE UNCHANGED vars
  <2>1. CountsAgree' /\ (HearsSpeakers => HearsSpeakers')
    BY <1>1, <1>7 DEF vars
  <2>. QED  BY <1>7, <2>1 DEF vars, TypeOK, Joined, Lifetime
<1>. QED  BY <1>2, <1>3, <1>4, <1>5, <1>6, <1>7

(* One party more or less in a set of parties                               *)
LEMMA CountOne ==
    ASSUME NEW S \in SUBSET Parties, NEW p \in Parties
    PROVE  /\ Cardinality(S) \in Nat
           /\ p \notin S => Cardinality(S \cup {p}) = Cardinality(S) + 1
           /\ p \in S => /\ Cardinality(S \ {p}) = Cardinality(S) - 1
                         /\ Cardinality(S) >= 1
<1>1. IsFiniteSet(S)
  BY FS_Subset, PartiesAssumption
<1>2. Cardinality(S) \in Nat /\ Cardinality(S \ {p}) \in Nat
  BY <1>1, FS_CardinalityType, FS_RemoveElement
<1>3. p \notin S => Cardinality(S \cup {p}) = Cardinality(S) + 1
  BY <1>1, FS_AddElement
<1>4. p \in S => Cardinality(S \ {p}) = Cardinality(S) - 1
  BY <1>1, FS_RemoveElement
<1>. QED  BY <1>2, <1>3, <1>4

(* What a party that joins leaves alone in the conference                   *)
LEMMA WithPartyFields ==
    ASSUME NEW c \in ConferenceType, NEW p \in Parties
    PROVE  /\ WithParty(c, p) \in ConferenceType
           /\ WithParty(c, p).parties = c.parties \cup {p}
           /\ WithParty(c, p).mapped = c.mapped
           /\ WithParty(c, p).created = c.created
           /\ WithParty(c, p).closed = c.closed
           /\ WithParty(c, p).deleted = c.deleted
           /\ WithParty(c, p).speakers =
                 IF Speaks(call[p].mode) THEN c.speakers + 1 ELSE c.speakers
           /\ WithParty(c, p).listeners =
                 IF Listens(call[p].mode) THEN c.listeners + 1 ELSE c.listeners
<1>1. c.speakers \in Nat /\ c.listeners \in Nat
  BY DEF ConferenceType
<1>2. PICK s \in Nat : s = IF Speaks(call[p].mode) THEN 1 ELSE 0
  OBVIOUS
<1>3. PICK l \in Nat : l = IF Listens(call[p].mode) THEN 1 ELSE 0
  OBVIOUS
<1>4. WithParty(c, p) = [c EXCEPT !.parties = c.parties \cup {p},
                                  !.speakers = c.speakers + s,
                                  !.listeners = c.listeners + l]
  BY <1>2, <1>3 DEF WithParty
<1>5. /\ c.speakers + s =
            IF Speaks(call[p].mode) THEN c.speakers + 1 ELSE c.speakers
      /\ c.listeners + l =
            IF Listens(call[p].mode) THEN c.listeners + 1 ELSE c.listeners
  BY <1>1, <1>2, <1>3
<1>6. c.speakers + s \in Nat /\ c.listeners + l \in Nat
  BY <1>1
<1>7. c.parties \cup {p} \in SUBSET Parties
  BY DEF ConferenceType
<1>8. \A P \in SUBSET Parties : \A m, n \in Nat :
         [c EXCEPT !.parties = P, !.speakers = m, !.listeners = n]
            \in ConferenceType
  BY DEF ConferenceType
<1>9. WithParty(c, p) \in ConferenceType
  BY <1>4, <1>6, <1>7, <1>8
<1>10. /\ WithParty(c, p).parties = c.parties \cup {p}
       /\ WithParty(c, p).mapped = c.mapped
       /\ WithParty(c, p).created = c.created
       /\ WithParty(c, p).closed = c.closed
       /\ WithParty(c, p).deleted = c.deleted
       /\ WithParty(c, p).speakers = c.speakers + s
       /\ WithParty(c, p).listeners = c.listeners + l
  BY <1>4 DEF ConferenceType
<1>. QED  BY <1>5, <1>9, <1>10

(* The speakers and listeners after a party has joined                      *)
LEMMA AddSets ==
    ASSUME IInv, NEW p \in Parties, NEW h \in Handles,
           call[p].pc = "found", call[p].conf = h,
           conf' = [conf EXCEPT ![h] = WithParty(conf[h], p)],
           call' = [call EXCEPT ![p].pc = "in"]
    PROVE  /\ p \notin Speakers(h) /\ p \notin Listeners(h)
           /\ Speakers(h)' = IF Speaks(call[p].mode)
                             THEN Speakers(h) \cup {p} ELSE Speakers(h)
           /\ Listeners(h)' = IF Listens(call[p].mode)
                              THEN Listeners(h) \cup {p} ELSE Listeners(h)
           /\ \A g \in Handles \ {h} :
                 Speakers(g)' = Speakers(g) /\ Listeners(g)' = Listeners(g)
<1>1. /\ \A g \in Handles : conf[g].parties \subseteq Parties
      /\ \A g \in Handles : p \notin conf[g].parties
  BY DEF IInv, TypeOK, ConferenceType, Joined
<1>2. /\ conf'[h].parties = conf[h].parties \cup {p}
      /\ \A g \in Handles \ {h} : conf'[g] = conf[g]
      /\ \A q \in Parties : call'[q].mode = call[q].mode
  BY DEF IInv, TypeOK, ConferenceType, CallType, WithParty
<1>. QED
  BY <1>1, <1>2 DEF Speakers, Listeners, SpeakersIn, ListenersIn

(* A party joins a conference, or is refused.                               *)
LEMMA AddInvariant ==
    ASSUME IInv, NEW p \in Parties, Add(p)
    PROVE  /\ IInv'
           /\ "listen" \notin Modes /\ HearsSpeakers => HearsSpeakers'
<1>. USE DEF IInv
<1>0. call[p].pc = "found" /\ call[p].conf \in Handles
  BY DEF Add, Joined
<1>h. PICK h \in Handles : h = call[p].conf
  BY <1>0
<1>c. PICK c \in ConferenceType : c = conf[h]
  BY DEF TypeOK
<1>1. /\ call[p].pc = "found" /\ call[p].mode \in Modes
      /\ closer' = closer /\ fault' = c.deleted
  BY <1>h, <1>c DEF Add, Joined
<1>2. PICK first \in Parties :
         /\ c.parties # {} => IsFirst(first, c.parties)
         /\ IF AddFails(p, c, first)
            THEN /\ call' = [call EXCEPT ![p] = Out]
                 /\ UNCHANGED <<conf, hears, low>>
            ELSE /\ conf' = [conf EXCEPT ![h] = WithParty(c, p)]
                 /\ hears' = [q \in Parties |->
                       IF q = p THEN JoinsHearing(p, c, first)
                       ELSE IF q \in ListenersIn(c) /\ Speaks(call[p].mode)
                            THEN hears[q] \cup {p} ELSE hears[q]]
                 /\ low' = IF Listens(call[p].mode)
                           THEN low \cup {p} ELSE low
                 /\ call' = [call EXCEPT ![p].pc = "in"]
  BY <1>h, <1>c DEF Add
<1>a. /\ conf \in [Handles -> ConferenceType]
      /\ call \in [Parties -> CallType]
      /\ hears \in [Parties -> SUBSET Parties] /\ low \subseteq Parties
      /\ closer \in Handles \cup {NoHandle} /\ NoHandle \notin Handles
      /\ fault' \in BOOLEAN
  BY <1>1, HandlesAssumption DEF TypeOK, ConferenceType
<1>b. call[p] \in CallType
  BY <1>a
<1>3. CASE AddFails(p, c, first)
  <2>1. /\ call' = [call EXCEPT ![p] = Out]
        /\ conf' = conf /\ hears' = hears /\ low' = low
    BY <1>2, <1>3
  <2>2. call' \in [Parties -> CallType] /\ Out.pc = "out"
    BY <1>a, <2>1 DEF CallType, Out, AllModes
  <2>3. \A g \in Handles :
           Speakers(g)' = Speakers(g) /\ Listeners(g)' = Listeners(g)
    BY <1>1, <1>a, <2>1, SameSets
  <2>4. CountsAgree' /\ (HearsSpeakers => HearsSpeakers')
    BY <2>1, <2>3 DEF CountsAgree, HearsSpeakers, Speakers, Listeners
  <2>5. TypeOK'
    BY <1>1, <1>a, <2>1, <2>2 DEF TypeOK
  <2>6. Joined'
    BY <1>1, <1>a, <2>1, <2>2 DEF Joined
  <2>7. Lifetime'
    BY <1>1, <1>a, <2>1, <2>2 DEF Lifetime
  <2>. QED  BY <2>4, <2>5, <2>6, <2>7
<1>4. CASE ~AddFails(p, c, first)
  <2>1. /\ conf' = [conf EXCEPT ![h] = WithParty(c, p)]
        /\ hears' = [q \in Parties |->
              IF q = p THEN JoinsHearing(p, c, first)
              ELSE IF q \in ListenersIn(c) /\ Speaks(call[p].mode)
                   THEN hears[q] \cup {p} ELSE hears[q]]
        /\ low' = IF Listens(call[p].mode) THEN low \cup {p} ELSE low
        /\ call' = [call EXCEPT ![p].pc = "in"]
    BY <1>2, <1>4
  <2>2. /\ p \notin Speakers(h) /\ p \notin Listeners(h)
        /\ Speakers(h)' = IF Speaks(call[p].mode)
                          THEN Speakers(h) \cup {p} ELSE Speakers(h)
        /\ Listeners(h)' = IF Listens(call[p].mode)
                           THEN Listeners(h) \cup {p} ELSE Listeners(h)
        /\ \A g \in Handles \ {h} :
              Speakers(g)' = Speakers(g) /\ Listeners(g)' = Listeners(g)
    BY <1>h, <1>c, <1>1, <2>1, AddSets
  <2>3. /\ Speakers(h) \subseteq Parties /\ Listeners(h) \subseteq Parties
        /\ Speakers(h) = SpeakersIn(c) /\ Listeners(h) = ListenersIn(c)
    BY <1>c DEF Speakers, Listeners, SpeakersIn, ListenersIn, ConferenceType
  <2>4. /\ WithParty(c, p) \in ConferenceType
        /\ WithParty(c, p).parties = c.parties \cup {p}
        /\ WithParty(c, p).mapped = c.mapped
        /\ WithParty(c, p).created = c.created
        /\ WithParty(c, p).closed = c.closed
        /\ WithParty(c, p).deleted = c.deleted
        /\ WithParty(c, p).speakers =
              IF Speaks(call[p].mode) THEN c.speakers + 1 ELSE c.speakers
        /\ WithParty(c, p).listeners =
              IF Listens(call[p].mode) THEN c.listeners + 1 ELSE c.listeners
    BY WithPartyFields
  <2>5. /\ conf' \in [Handles -> ConferenceType]
        /\ conf'[h] = WithParty(c, p)
        /\ \A g \in Handles \ {h} : conf'[g] = conf[g]
    BY <1>1, <1>a, <2>1, <2>4
  <2>6. /\ call' \in [Parties -> CallType]
        /\ call'[p].pc = "in" /\ call'[p].conf = h
        /\ call'[p].mode = call[p].mode
        /\ \A q \in Parties \ {p} : call'[q] = call[q]
    BY <1>h, <1>a, <1>b, <2>1 DEF CallType
  <2>7. JoinsHearing(p, c, first) \subseteq Parties
    BY <1>a, <2>3 DEF JoinsHearing
  <2>8. TypeOK'
    BY <1>1, <1>a, <2>1, <2>5, <2>6, <2>7 DEF TypeOK
  <2>9. Joined'
    <3>1. \A q \in Parties : call'[q].pc # "out" =>
             call'[q].conf \in Handles /\ call'[q].mode \in Modes
      BY <1>1, <2>6 DEF Joined
    <3>2. \A g \in Handles : \A q \in Parties :
             q \in conf'[g].parties <=> call'[q].pc = "in" /\ call'[q].conf = g
      BY <1>h, <1>c, <1>1, <2>4, <2>5, <2>6 DEF Joined
    <3>3. \A q \in low' : call'[q].pc = "in" /\ Listens(call'[q].mode)
      BY <1>a, <2>1, <2>6 DEF Joined
    <3>. QED  BY <3>1, <3>2, <3>3 DEF Joined
  <2>10. Lifetime'
    <3>1. \A g \in Handles : /\ conf'[g].mapped = conf[g].mapped
                             /\ conf'[g].created = conf[g].created
                             /\ conf'[g].closed = conf[g].closed
                             /\ conf'[g].deleted = conf[g].deleted
      BY <1>c, <2>4, <2>5
    <3>2. \A q \in Parties : call'[q].pc = "deleting" =>
             call'[q] = call[q] /\ call[q].conf \in Handles
      BY <2>6 DEF Joined
    <3>3. \A q \in Parties : call'[q].pc = "deleting" =>
             conf'[call'[q].conf].closed
      BY <3>1, <3>2 DEF Lifetime
    <3>. QED  BY <1>1, <1>a, <3>1, <3>3 DEF Lifetime
  <2>11. CountsAgree'
    <3>1. ASSUME NEW g \in Handles
          PROVE  /\ conf'[g].speakers = Cardinality(Speakers(g)')
                 /\ conf'[g].listeners = Cardinality(Listeners(g)')
      <4>1. CASE g # h
        BY <2>2, <2>5, <4>1 DEF CountsAgree, Speakers, Listeners
      <4>2. CASE g = h
        <5>1. /\ c.speakers = Cardinality(Speakers(h))
              /\ c.listeners = Cardinality(Listeners(h))
          BY <1>c DEF CountsAgree, Speakers, Listeners
        <5>. QED  BY <2>2, <2>3, <2>4, <2>5, <4>2, <5>1, CountOne
      <4>. QED  BY <4>1, <4>2
    <3>. QED  BY <3>1 DEF CountsAgree, Speakers, Listeners
  <2>12. ASSUME "listen" \notin Modes, HearsSpeakers
         PROVE  HearsSpeakers'
    <3>1. \A g \in Handles : \A q \in Listeners(g) : hears[q] = Speakers(g) \ {q}
      BY <2>12 DEF HearsSpeakers, Speakers, Listeners
    <3>2. JoinsHearing(p, c, first) = Speakers(h) \/ ~Listens(call[p].mode)
      <4>1. CASE c.listeners > 0 /\ Listens(call[p].mode)
        <5>1. first \in low
          BY <1>4, <4>1 DEF AddFails
        <5>2. Cardinality(Listeners(h)) > 0
          BY <1>c, <4>1 DEF CountsAgree, Listeners
        <5>3. c.parties # {}
          <6>1. c.parties = {} => Listeners(h) = {}
            BY <2>3 DEF ListenersIn
          <6>. QED  BY <5>2, <6>1, FS_EmptySet
        <5>4. first \in c.parties
          BY <1>2, <5>3 DEF IsFirst
        <5>5. call[first].mode \in Modes /\ Listens(call[first].mode)
          BY <5>1 DEF Joined
        <5>6. first \in Listeners(h) /\ first \in Speakers(h)
          BY <2>3, <2>12, <5>4, <5>5
          DEF ListenersIn, SpeakersIn, Listens, Speaks
        <5>. QED  BY <1>1, <3>1, <4>1, <5>6 DEF JoinsHearing
      <4>2. CASE ~(c.listeners > 0) /\ Listens(call[p].mode)
        BY <2>3, <4>2 DEF JoinsHearing
      <4>. QED  BY <4>1, <4>2
    <3>3. ASSUME NEW g \in Handles, NEW q \in Listeners(g)'
          PROVE  hears'[q] = Speakers(g)' \ {q}
      <4>0. q \in Parties
        BY <2>5 DEF Listeners, ListenersIn, ConferenceType
      <4>1. CASE g # h
        <5>1. q \in Listeners(g) /\ Speakers(g)' = Speakers(g)
          BY <2>2, <3>3, <4>1
        <5>2. q # p /\ q \notin Listeners(h)
          BY <1>1, <4>0, <4>1, <5>1
          DEF Joined, Listeners, ListenersIn
        <5>3. hears'[q] = hears[q]
          BY <2>1, <2>3, <4>0, <5>2
        <5>. QED  BY <3>1, <5>1, <5>3
      <4>2. CASE g = h /\ q # p
        <5>1. q \in Listeners(h)
          BY <2>2, <3>3, <4>2
        <5>2. hears'[q] = IF Speaks(call[p].mode) THEN hears[q] \cup {p}
                          ELSE hears[q]
          BY <2>1, <2>3, <4>0, <4>2, <5>1
        <5>3. hears[q] = Speakers(h) \ {q}
          BY <1>1, <3>1, <5>1
        <5>. QED  BY <2>2, <4>2, <5>2, <5>3
      <4>3. CASE g = h /\ q = p
        <5>1. Listens(call[p].mode)
          BY <2>2, <3>3, <4>3
        <5>2. hears'[p] = Speakers(h)
          BY <2>1, <3>2, <5>1
        <5>. QED  BY <2>2, <4>3, <5>2
      <4>. QED  BY <4>1, <4>2, <4>3
    <3>. QED  BY <3>3 DEF HearsSpeakers, Speakers, Listeners
  <2>. QED  BY <2>8, <2>9, <2>10, <2>11, <2>12
<1>. QED  BY <1>3, <1>4

(* What a party that leaves leaves alone in the conference                  *)
LEMMA WithoutPartyFields ==
    ASSUME NEW c \in ConferenceType, NEW p \in Parties,
           Speaks(call[p].mode) => c.speakers >= 1,
           Listens(call[p].mode) => c.listeners >= 1
    PROVE  /\ WithoutParty(c, p) \in ConferenceType
           /\ WithoutParty(c, p).parties = c.parties \ {p}
           /\ WithoutParty(c, p).mapped = c.mapped
           /\ WithoutParty(c, p).created = c.created
           /\ WithoutParty(c, p).closed = c.closed
           /\ WithoutParty(c, p).deleted = c.deleted
           /\ WithoutParty(c, p).speakers =
                 IF Speaks(call[p].mode) THEN c.speakers - 1 ELSE c.speakers
           /\ WithoutParty(c, p).listeners =
                 IF Listens(call[p].mode) THEN c.listeners - 1 ELSE c.listeners
<1>1. c.speakers \in Nat /\ c.listeners \in Nat
  BY DEF ConferenceType
<1>2. PICK s \in Nat : s = IF Speaks(call[p].mode) THEN 1 ELSE 0
  OBVIOUS
<1>3. PICK l \in Nat : l = IF Listens(call[p].mode) THEN 1 ELSE 0
  OBVIOUS
<1>4. WithoutParty(c, p) = [c EXCEPT !.parties = c.parties \ {p},
                                     !.speakers = c.speakers - s,
                                     !.listeners = c.listeners - l]
  BY <1>2, <1>3 DEF WithoutParty
<1>5. /\ c.speakers - s =
            IF Speaks(call[p].mode) THEN c.speakers - 1 ELSE c.speakers
      /\ c.listeners - l =
            IF Listens(call[p].mode) THEN c.listeners - 1 ELSE c.listeners
  BY <1>1, <1>2, <1>3
<1>6. c.speakers - s \in Nat /\ c.listeners - l \in Nat
  BY <1>1, <1>5
<1>7. c.parties \ {p} \in SUBSET Parties
  BY DEF ConferenceType
<1>8. \A P \in SUBSET Parties : \A m, n \in Nat :
         [c EXCEPT !.parties = P, !.speakers = m, !.listeners = n]
            \in ConferenceType
  BY DEF ConferenceType
<1>9. WithoutParty(c, p) \in ConferenceType
  BY <1>4, <1>6, <1>7, <1>8
<1>10. /\ WithoutParty(c, p).parties = c.parties \ {p}
       /\ WithoutParty(c, p).mapped = c.mapped
       /\ WithoutParty(c, p).created = c.created
       /\ WithoutParty(c, p).closed = c.closed
       /\ WithoutParty(c, p).deleted = c.deleted
       /\ WithoutParty(c, p).speakers = c.speakers - s
       /\ WithoutParty(c, p).listeners = c.listeners - l
  BY <1>4 DEF ConferenceType
<1>. QED  BY <1>5, <1>9, <1>10

(* A party leaves a conference: all others forget it.                       *)
LEMMA RemoveInvariant ==
    ASSUME IInv, NEW p \in Parties, Remove(p)
    PROVE  IInv' /\ (HearsSpeakers => HearsSpeakers')
<1>. USE DEF IInv
<1>0. call[p].pc = "in" /\ call[p].conf \in Handles
  BY DEF Remove, Joined
<1>h. PICK h \in Handles : h = call[p].conf
  BY <1>0
<1>c. PICK c \in ConferenceType : c = conf[h]
  BY DEF TypeOK
<1>1. /\ call[p].pc = "in" /\ call[p].mode \in Modes
      /\ closer' = closer /\ fault' = c.deleted
  BY <1>h, <1>c DEF Remove, Joined
<1>2. /\ conf' = [conf EXCEPT ![h] = WithoutParty(c, p)]
      /\ hears' = [q \in Parties |->
            IF q = p /\ Listens(call[p].mode) THEN {}
            ELSE IF q \in ListenersIn(c) /\ Speaks(call[p].mode)
                 THEN hears[q] \ {p} ELSE hears[q]]
      /\ low' = IF Listens(call[p].mode) THEN low \ {p} ELSE low
      /\ call' = [call EXCEPT ![p] =
            IF c.closed /\ c.parties = {p}
            THEN [@ EXCEPT !.pc = "deleting"] ELSE Out]
  BY <1>h, <1>c DEF Remove
<1>a. /\ conf \in [Handles -> ConferenceType]
      /\ call \in [Parties -> CallType]
      /\ hears \in [Parties -> SUBSET Parties] /\ low \subseteq Parties
      /\ closer \in Handles \cup {NoHandle} /\ NoHandle \notin Handles
      /\ fault' \in BOOLEAN
  BY <1>1, HandlesAssumption DEF TypeOK, ConferenceType
<1>3. /\ p \in c.parties /\ c.parties \subseteq Parties
      /\ \A g \in Handles \ {h} : p \notin conf[g].parties
      /\ \A g \in Handles : conf[g].parties \subseteq Parties
  BY <1>h, <1>c, <1>1, <1>a DEF Joined, ConferenceType
<1>4. /\ Speakers(h) = SpeakersIn(c) /\ Listeners(h) = ListenersIn(c)
      /\ Speakers(h) \subseteq Parties /\ Listeners(h) \subseteq Parties
      /\ p \in Speakers(h) <=> Speaks(call[p].mode)
      /\ p \in Listeners(h) <=> Listens(call[p].mode)
  BY <1>c, <1>3 DEF Speakers, Listeners, SpeakersIn, ListenersIn
<1>5. /\ c.speakers = Cardinality(Speakers(h))
      /\ c.listeners = Cardinality(Listeners(h))
  BY <1>c DEF CountsAgree, Speakers, Listeners
<1>6. /\ Speaks(call[p].mode) => c.speakers >= 1
      /\ Listens(call[p].mode) => c.listeners >= 1
  BY <1>4, <1>5, CountOne
<1>7. /\ conf' \in [Handles -> ConferenceType]
      /\ conf'[h] = WithoutParty(c, p)
      /\ \A g \in Handles \ {h} : conf'[g] = conf[g]
  BY <1>2, <1>6, <1>a, WithoutPartyFields
<1>8. /\ call' \in [Parties -> CallType]
      /\ call'[p].pc \in {"out", "deleting"}
      /\ call'[p].pc # "out" => /\ call'[p].conf = h
                                /\ call'[p].mode = call[p].mode
                                /\ c.closed
      /\ \A q \in Parties \ {p} : call'[q] = call[q]
  <2>1. CASE c.closed /\ c.parties = {p}
    BY <1>h, <1>2, <1>a, <2>1 DEF CallType
  <2>2. CASE ~(c.closed /\ c.parties = {p})
    <3>1. Out \in CallType /\ Out.pc = "out"
      BY DEF Out, CallType, AllModes
    <3>. QED  BY <1>2, <1>a, <2>2, <3>1
  <2>. QED  BY <2>1, <2>2
<1>9. /\ WithoutParty(c, p).parties = c.parties \ {p}
      /\ WithoutParty(c, p).mapped = c.mapped
      /\ WithoutParty(c, p).created = c.created
      /\ WithoutParty(c, p).closed = c.closed
      /\ WithoutParty(c, p).deleted = c.deleted
      /\ WithoutParty(c, p).speakers =
            IF Speaks(call[p].mode) THEN c.speakers - 1 ELSE c.speakers
      /\ WithoutParty(c, p).listeners =
            IF Listens(call[p].mode) THEN c.listeners - 1 ELSE c.listeners
  BY <1>6, WithoutPartyFields
<1>10. \A g \in Handles : /\ Speakers(g)' = Speakers(g) \ {p}
                          /\ Listeners(g)' = Listeners(g) \ {p}
  <2>1. \A g \in Handles : conf'[g].parties = conf[g].parties \ {p}
    BY <1>c, <1>3, <1>7, <1>9
  <2>. QED
    BY <1>3, <1>8, <2>1 DEF Speakers, Listeners, SpeakersIn, ListenersIn
<1>11. TypeOK'
  BY <1>1, <1>2, <1>a, <1>7, <1>8 DEF TypeOK
<1>12. Joined'
  <2>1. \A q \in Parties : call'[q].pc # "out" =>
           call'[q].conf \in Handles /\ call'[q].mode \in Modes
    BY <1>1, <1>8 DEF Joined
  <2>2. \A g \in Handles : \A q \in Parties :
           q \in conf'[g].parties <=> call'[q].pc = "in" /\ call'[q].conf = g
    BY <1>c, <1>h, <1>1, <1>3, <1>7, <1>8, <1>9 DEF Joined
  <2>3. \A q \in low' : call'[q].pc = "in" /\ Listens(call'[q].mode)
    BY <1>a, <1>2, <1>8 DEF Joined
  <2>. QED  BY <2>1, <2>2, <2>3 DEF Joined
<1>13. Lifetime'
  <2>1. \A g \in Handles : /\ conf'[g].mapped = conf[g].mapped
                           /\ conf'[g].created = conf[g].created
                           /\ conf'[g].closed = conf[g].closed
                           /\ conf'[g].deleted = conf[g].deleted
    BY <1>c, <1>7, <1>9
  <2>2. \A q \in Parties : call'[q].pc = "deleting" =>
           call'[q].conf \in Handles /\ conf[call'[q].conf].closed
    BY <1>c, <1>8 DEF Joined, Lifetime
  <2>3. \A q \in Parties : call'[q].pc = "deleting" =>
           conf'[call'[q].conf].closed
    BY <2>1, <2>2
  <2>. QED  BY <1>1, <1>a, <2>1, <2>3 DEF Lifetime
<1>14. CountsAgree'
  <2>1. ASSUME NEW g \in Handles
        PROVE  /\ conf'[g].speakers = Cardinality(Speakers(g)')
               /\ conf'[g].listeners = Cardinality(Listeners(g)')
    <3>1. CASE g # h
      <4>1. Speakers(g)' = Speakers(g) /\ Listeners(g)' = Listeners(g)
        BY <1>3, <1>10, <3>1
        DEF Speakers, Listeners, SpeakersIn, ListenersIn
      <4>. QED  BY <1>7, <3>1, <4>1 DEF CountsAgree, Speakers, Listeners
    <3>2. CASE g = h
      <4>1. conf'[h].speakers = Cardinality(Speakers(h) \ {p})
        <5>1. ~Speaks(call[p].mode) => Speakers(h) \ {p} = Speakers(h)
          BY <1>4
        <5>. QED  BY ZenonT(30), <1>4, <1>5, <1>7, <1>9, <5>1, CountOne
      <4>2. conf'[h].listeners = Cardinality(Listeners(h) \ {p})
        <5>1. ~Listens(call[p].mode) => Listeners(h) \ {p} = Listeners(h)
          BY <1>4
        <5>. QED  BY ZenonT(30), <1>4, <1>5, <1>7, <1>9, <5>1, CountOne
      <4>. QED  BY <1>10, <3>2, <4>1, <4>2
    <3>. QED  BY <3>1, <3>2
  <2>. QED  BY <2>1 DEF CountsAgree, Speakers, Listeners
<1>15. ASSUME HearsSpeakers
       PROVE  HearsSpeakers'
  <2>1. \A g \in Handles : \A q \in Listeners(g) : hears[q] = Speakers(g) \ {q}
    BY <1>15 DEF HearsSpeakers, Speakers, Listeners
  <2>2. ASSUME NEW g \in Handles, NEW q \in Listeners(g)'
        PROVE  hears'[q] = Speakers(g)' \ {q}
    <3>1. q \in Listeners(g) /\ q # p /\ q \in Parties
      BY <1>3, <1>10, <2>2 DEF Listeners, ListenersIn
    <3>2. CASE g = h
      <4>1. hears'[q] = IF Speaks(call[p].mode) THEN hears[q] \ {p}
                        ELSE hears[q]
        BY <1>2, <1>4, <3>1, <3>2
      <4>. QED  BY <1>4, <1>10, <2>1, <3>1, <3>2, <4>1
    <3>3. CASE g # h
      <4>1. q \notin Listeners(h)
        BY <1>3, <3>1, <3>3 DEF Listeners, ListenersIn, Joined
      <4>2. p \notin Speakers(g)
        BY <1>3, <3>3 DEF Speakers, SpeakersIn
      <4>3. hears'[q] = hears[q]
        BY <1>2, <1>4, <3>1, <4>1
      <4>. QED  BY <1>10, <2>1, <3>1, <4>2, <4>3
    <3>. QED  BY <3>2, <3>3
  <2>. QED  BY <2>2 DEF HearsSpeakers, Speakers, Listeners
<1>. QED  BY <1>11, <1>12, <1>13, <1>14, <1>15

(* Every step keeps the invariant.                                          *)
LEMMA StepInvariant ==
    ASSUME IInv, [Next]_vars
    PROVE  IInv' /\ ("listen" \notin Modes /\ HearsSpeakers => HearsSpeakers')
<1>1. CASE \/ \E h \in Handles : Create(h) \/ Close(h)
           \/ CloseMarks
           \/ \E p \in Parties : \/ \E h \in Handles, m \in Modes : Find(p, h, m)
                                 \/ Delete(p)
           \/ UNCHANGED vars
  BY <1>1, QuietInvariant
<1>2. CASE \E p \in Parties : Add(p)
  BY <1>2, AddInvariant
<1>3. CASE \E p \in Parties : Remove(p)
  BY <1>3, RemoveInvariant
<1>. QED  BY <1>1, <1>2, <1>3 DEF Next

(* The invariant of every behaviour                                         *)
LEMMA Invariant == Spec => []IInv
<1>1. Init => IInv
  BY InitInvariant
<1>2. IInv /\ [Next]_vars => IInv'
  BY StepInvariant
<1>. QED  BY <1>1, <1>2, PTL DEF Spec

(* The variables stay within their types, so that the counters of a         *)
(* conference never drop below zero, and no handle leads to a conference    *)
(* that its last party has deleted: close() gives the handle back before it *)
(* marks the conference, and only a marked one is deleted.                  *)
THEOREM Soundness == Spec => []Sound
<1>1. IInv => Sound
  BY DEF IInv, Lifetime, NoDanglingHandle, Sound
<1>. QED  BY <1>1, Invariant, PTL

(* m_speakers and m_listeners agree with the parties of a conference,       *)
(* however add() and remove() of its channels follow each other.            *)
THEOREM CountsAgreement == Spec => []CountsAgree
<1>1. IInv => CountsAgree
  BY DEF IInv
<1>. QED  BY <1>1, Invariant, PTL

(* Where nobody joins only to listen, everybody who listens hears exactly   *)
(* the others that speak.                                                   *)
THEOREM EverybodyHears ==
    ASSUME "listen" \notin Modes
    PROVE  Spec => []HearsSpeakers
<1>1. Init => IInv /\ HearsSpeakers
  BY InitInvariant
<1>2. IInv /\ HearsSpeakers /\ [Next]_vars => IInv' /\ HearsSpeakers'
  BY StepInvariant
<1>. QED  BY <1>1, <1>2, PTL DEF Spec
=============================================================================
