-------------------------- MODULE Sequencer_proofs --------------------------
(****************************************************************************)
(* The playlists of a sequencer are well-formed in every state that its     *)
(* threads can reach, whatever the offers, the molecules and the stimuli,   *)
(* and nothing starts to play once the client has hung up.                  *)
(*                                                                          *)
(* First what the playlist operators preserve: a state that has the type of *)
(* a Sequencer and whose playlists are linked, sorted and properly unlinked *)
(* from (Sound) is still so after each of them.  Then the threads: what one *)
(* has in hand between two looks at the sequencer is a molecule or nothing. *)
(*                                                                          *)
(* Then, in the same order, what they start: every operator minds a hang-up *)
(* (MindsHangup), as Activity::start is asked for only by a completion that *)
(* has looked at m_disconnecting, and by MLCA, which no DISC overtakes.     *)
(****************************************************************************)
EXTENDS Sequencer, SequenceTheorems, WellFoundedInduction, TLAPS

(****************************************************************************)
(*                       Sequences and minima                               *)
(****************************************************************************)

(* A nonempty set of naturals has the minimum that Min names.               *)
LEMMA MinNat ==
    ASSUME NEW S \in SUBSET Nat, S # {}
    PROVE  /\ Min(S) \in S
           /\ \A x \in S : Min(S) <= x
<1> DEFINE R == {ss \in Nat \X Nat : ss[1] < ss[2]}
<1>1. OpToRel(<, Nat) = R
  BY Zenon DEF OpToRel
<1>2. IsWellFoundedOn(R, Nat)
  BY Zenon, <1>1, NatLessThanWellFounded
<1>3. \A x, y \in Nat : <<y, x>> \in R <=> y < x
  OBVIOUS
<1> HIDE DEF R
<1>4. PICK x \in S : \A y \in S : ~(<<y, x>> \in R)
  BY <1>2, WFMin
<1>5. \A y \in S : x <= y
  <2>. TAKE y \in S
  <2>1. x \in Nat /\ y \in Nat
    OBVIOUS
  <2>2. ~(y < x)
    BY <1>3, <1>4, <2>1
  <2>. QED  BY <2>1, <2>2
<1>. QED  BY <1>5 DEF Min

(* Removing an element shifts those that follow it down by one.             *)
LEMMA RemoveAtProperties ==
    ASSUME NEW S, NEW L \in Seq(S), NEW i \in 1..Len(L)
    PROVE  /\ RemoveAt(L, i) \in Seq(S)
           /\ Len(RemoveAt(L, i)) = Len(L) - 1
           /\ \A j \in 1..Len(L) - 1 :
                 RemoveAt(L, i)[j] = IF j < i THEN L[j] ELSE L[j + 1]
<1> DEFINE A == SubSeq(L, 1, i - 1)
           B == SubSeq(L, i + 1, Len(L))
<1>0. Len(L) \in Nat /\ \A j \in 1..Len(L) : L[j] \in S
  BY LenProperties, ElementOfSeq
<1>1. /\ A \in Seq(S) /\ Len(A) = i - 1
      /\ \A j \in 1..i - 1 : A[j] = L[j]
  BY <1>0, SubSeqProperties, 1 \in Int, i - 1 \in Int
<1>2. /\ B \in Seq(S) /\ Len(B) = Len(L) - i
      /\ \A j \in 1..Len(L) - i : B[j] = L[j + i]
  <2>1. \A j \in i + 1..Len(L) : L[j] \in S
    BY <1>0
  <2>2. /\ B \in Seq(S)
        /\ Len(B) = IF i + 1 <= Len(L) THEN Len(L) - (i + 1) + 1 ELSE 0
        /\ \A j \in 1..Len(L) - (i + 1) + 1 : B[j] = L[i + 1 + j - 1]
    BY <1>0, <2>1, SubSeqProperties, i + 1 \in Int
  <2>. QED  BY <2>2, <1>0
<1> HIDE DEF A, B
<1>3. /\ A \o B \in Seq(S)
      /\ Len(A \o B) = Len(A) + Len(B)
      /\ \A j \in 1..Len(A) + Len(B) :
            (A \o B)[j] = IF j <= Len(A) THEN A[j] ELSE B[j - Len(A)]
  BY <1>1, <1>2, ConcatProperties
<1>4. RemoveAt(L, i) = A \o B
  BY DEF RemoveAt, A, B
<1>5. Len(A) + Len(B) = Len(L) - 1
  BY <1>0, <1>1, <1>2
<1>6. ASSUME NEW j \in 1..Len(L) - 1
      PROVE  (A \o B)[j] = IF j < i THEN L[j] ELSE L[j + 1]
  <2>1. (A \o B)[j] = IF j <= i - 1 THEN A[j] ELSE B[j - (i - 1)]
    BY <1>1, <1>3, <1>5
  <2>2. CASE j < i
    BY <1>0, <1>1, <2>1, <2>2
  <2>3. CASE ~(j < i)
    <3>1. j - (i - 1) \in 1..Len(L) - i /\ j - (i - 1) + i = j + 1
      BY <1>0, <2>3
    <3>. QED  BY <1>0, <1>2, <2>1, <2>3, <3>1
  <2>. QED  BY <2>2, <2>3
<1>. QED  BY <1>3, <1>4, <1>5, <1>6

(* Inserting an element shifts those from its place on up by one.           *)
LEMMA InsertAtProperties ==
    ASSUME NEW L \in Seq(Ids), NEW i \in 1..Len(L) + 1, NEW e \in Ids
    PROVE  /\ InsertAt(L, i, e) \in Seq(Ids)
           /\ Len(InsertAt(L, i, e)) = Len(L) + 1
           /\ \A j \in 1..Len(L) + 1 :
                 InsertAt(L, i, e)[j] = IF j < i THEN L[j]
                                        ELSE IF j = i THEN e ELSE L[j - 1]
<1> DEFINE A == SubSeq(L, 1, i - 1)
           B == SubSeq(L, i, Len(L))
<1>0. Len(L) \in Nat /\ \A j \in 1..Len(L) : L[j] \in Ids
  BY LenProperties, ElementOfSeq
<1>1. /\ A \in Seq(Ids) /\ Len(A) = i - 1
      /\ \A j \in 1..i - 1 : A[j] = L[j]
  BY <1>0, SubSeqProperties, 1 \in Int, i - 1 \in Int
<1>2. /\ B \in Seq(Ids) /\ Len(B) = Len(L) - i + 1
      /\ \A j \in 1..Len(L) - i + 1 : B[j] = L[j + i - 1]
  <2>1. \A j \in i..Len(L) : L[j] \in Ids
    BY <1>0
  <2>. QED  BY <1>0, <2>1, SubSeqProperties
<1> HIDE DEF A, B
<1>3. <<e>> \in Seq(Ids) /\ Len(<<e>>) = 1 /\ <<e>>[1] = e
  OBVIOUS
<1>4. /\ A \o <<e>> \in Seq(Ids)
      /\ Len(A \o <<e>>) = i
      /\ \A j \in 1..i :
            (A \o <<e>>)[j] = IF j < i THEN A[j] ELSE e
  <2>1. /\ A \o <<e>> \in Seq(Ids)
        /\ Len(A \o <<e>>) = Len(A) + 1
        /\ \A j \in 1..Len(A) + 1 :
              (A \o <<e>>)[j] = IF j <= Len(A) THEN A[j] ELSE <<e>>[j - Len(A)]
    BY <1>1, <1>3, ConcatProperties
  <2>. QED  BY <1>1, <1>3, <2>1
<1> DEFINE C == A \o <<e>>
<1> HIDE DEF C
<1>5. /\ C \in Seq(Ids) /\ Len(C) = i
      /\ \A j \in 1..i : C[j] = IF j < i THEN A[j] ELSE e
  BY <1>4 DEF C
<1>6. /\ C \o B \in Seq(Ids)
      /\ Len(C \o B) = Len(C) + Len(B)
      /\ \A j \in 1..Len(C) + Len(B) :
            (C \o B)[j] = IF j <= Len(C) THEN C[j] ELSE B[j - Len(C)]
  BY <1>2, <1>5, ConcatProperties
<1>7. InsertAt(L, i, e) = C \o B
  BY DEF InsertAt, A, B, C
<1>8. Len(C) + Len(B) = Len(L) + 1
  BY <1>0, <1>2, <1>5
<1>9. ASSUME NEW j \in 1..Len(L) + 1
      PROVE  (C \o B)[j] = IF j < i THEN L[j]
                           ELSE IF j = i THEN e ELSE L[j - 1]
  <2>1. (C \o B)[j] = IF j <= i THEN C[j] ELSE B[j - i]
    BY <1>6, <1>5, <1>8
  <2>2. CASE j <= i
    BY <1>0, <1>1, <1>5, <2>1, <2>2
  <2>3. CASE ~(j <= i)
    <3>1. j - i \in 1..Len(L) - i + 1 /\ j - i + i - 1 = j - 1
      BY <1>0, <2>3
    <3>. QED  BY <1>0, <1>2, <2>1, <2>3, <3>1
  <2>. QED  BY <2>2, <2>3
<1>. QED  BY <1>6, <1>7, <1>8, <1>9

(****************************************************************************)
(*                  Updates that leave the lists alone                      *)
(****************************************************************************)

MT == MoleculeType(Ids, NoId)

Sound(s) == s \in SequencerType /\ LinkedIn(s) /\ SortedIn(s) /\ DetachedIn(s)

(* r stands where q stood: same list, same order, same dangling pointer.    *)
SamePlace(q, r) ==
    /\ r.phase = q.phase
    /\ r.channel = q.channel
    /\ r.priority = q.priority
    /\ r.before = q.before

SamePlaces(s, t) ==
    /\ t.list = s.list
    /\ \A m \in Ids : SamePlace(s.molecule[m], t.molecule[m])

(* The types of the fields that the proofs speak of.                        *)
LEMMA Fields ==
    ASSUME NEW s \in SequencerType
    PROVE  /\ s.list \in [Channels -> Seq(Ids)]
           /\ s.molecule \in [Ids -> MT]
           /\ s.state \in [Channels -> States]
           /\ s.answers \in [Ids -> Nat]
           /\ s.completions \in Seq([molecule : Ids, status : Statuses])
  BY DEF SequencerType, MT

(* The types of the fields of a molecule.                                   *)
LEMMA RecordFields ==
    ASSUME NEW r \in MT
    PROVE  /\ r.phase \in Phases
           /\ r.channel \in Channels
           /\ r.priority \in Nat
           /\ r.before \in Ids \cup {NoId}
           /\ r.cur \in Nat
           /\ r.atoms \in Seq(Kinds)
           /\ r.sstatus \in Statuses
           /\ r.active \in BOOLEAN
  BY DEF MT, MoleculeType, Channels

(* A step that moves no molecule keeps the playlists sound, whatever else   *)
(* it writes.                                                               *)
LEMMA SamePlacesSound ==
    ASSUME NEW s, NEW t, Sound(s), t \in SequencerType, SamePlaces(s, t)
    PROVE  Sound(t)
<1>1. /\ s \in SequencerType
      /\ s.list \in [Channels -> Seq(Ids)]
      /\ \A c \in Channels : \A i \in DOMAIN s.list[c] : s.list[c][i] \in Ids
  BY Fields, LenProperties, ElementOfSeq DEF Sound
<1>2. LinkedIn(t)
  <2>1. \A c \in Channels : \A i, j \in DOMAIN t.list[c] :
           t.list[c][i] = t.list[c][j] => i = j
    BY DEF Sound, LinkedIn, SamePlaces
  <2>2. \A m \in Ids : /\ IsQueued(t, m) <=> IsQueued(s, m)
                      /\ t.molecule[m].channel = s.molecule[m].channel
    BY DEF SamePlaces, SamePlace, IsQueued
  <2>3. \A c \in Channels : \A i \in DOMAIN t.list[c] :
           /\ IsQueued(t, t.list[c][i])
           /\ t.molecule[t.list[c][i]].channel = c
    BY <1>1, <2>2 DEF Sound, LinkedIn, SamePlaces
  <2>4. \A m \in Ids : IsQueued(t, m) => InList(t, m)
    BY <2>2 DEF Sound, LinkedIn, SamePlaces, InList
  <2>. QED  BY <2>1, <2>3, <2>4 DEF LinkedIn
<1>3. SortedIn(t)
  BY <1>1 DEF Sound, SortedIn, SamePlaces, SamePlace
<1>4. DetachedIn(t)
  BY DEF Sound, DetachedIn, SamePlaces, SamePlace
<1>. QED  BY <1>2, <1>3, <1>4 DEF Sound

(* What SetMolecule changes and what it does not.                           *)
LEMMA SetMoleculeProperties ==
    ASSUME NEW s \in SequencerType, NEW m \in Ids, NEW r \in MT
    PROVE  /\ SetMolecule(s, m, r) \in SequencerType
           /\ SetMolecule(s, m, r).list = s.list
           /\ SetMolecule(s, m, r).molecule[m] = r
           /\ \A i \in Ids \ {m} :
                 SetMolecule(s, m, r).molecule[i] = s.molecule[i]
<1>1. SetMolecule(s, m, r) \in SequencerType
  BY DEF SequencerType, SetMolecule, MT
<1>2. SetMolecule(s, m, r).molecule = [s.molecule EXCEPT ![m] = r]
  BY DEF SequencerType, SetMolecule
<1>3. SetMolecule(s, m, r).list = s.list
  BY DEF SequencerType, SetMolecule
<1>. QED  BY <1>1, <1>2, <1>3, Fields

(* Activity flags, atoms, samples and statuses may change freely.           *)
LEMMA SetMoleculeSound ==
    ASSUME NEW s, Sound(s), NEW m \in Ids, NEW r \in MT,
           SamePlace(s.molecule[m], r)
    PROVE  Sound(SetMolecule(s, m, r))
<1>1. s \in SequencerType
  BY DEF Sound
<1>2. SamePlaces(s, SetMolecule(s, m, r))
  BY <1>1, SetMoleculeProperties DEF SamePlaces, SamePlace
<1>. QED  BY <1>1, <1>2, SetMoleculeProperties, SamePlacesSound

(* The fields that say nothing of the playlists.                            *)
LEMMA SetStateSound ==
    ASSUME NEW s, Sound(s), NEW c \in Channels, NEW x \in States
    PROVE  Sound([s EXCEPT !.state[c] = x])
<1> DEFINE S == [s.state EXCEPT ![c] = x]
           t == [s EXCEPT !.state = S]
<1>1. S \in [Channels -> States]
  BY Fields DEF Sound
<1> HIDE DEF S
<1>2. t \in SequencerType /\ t.list = s.list /\ t.molecule = s.molecule
  BY <1>1 DEF Sound, SequencerType
<1>3. Sound(t)
  BY <1>2, SamePlacesSound DEF SamePlaces, SamePlace
<1>. QED  BY <1>3 DEF S

(* Answering the client touches no playlist.                                *)
LEMMA SendReplySound ==
    ASSUME NEW s, Sound(s), NEW m \in Ids
    PROVE  Sound(SendReply(s, m)) /\ Sound(SendMLCA(s, m))
<1> DEFINE A == [s.answers EXCEPT ![m] = Bump(@)]
           t == [s EXCEPT !.answers = A]
<1>1. A \in [Ids -> Nat]
  BY Fields DEF Sound, Bump, CountBound
<1> HIDE DEF A
<1>2. t \in SequencerType /\ t.list = s.list /\ t.molecule = s.molecule
  BY <1>1 DEF Sound, SequencerType
<1>3. Sound(t)
  BY <1>2, SamePlacesSound DEF SamePlaces, SamePlace
<1>. QED  BY <1>3 DEF A, SendReply, SendMLCA

(* Nor does the queue of delayed completions,                               *)
LEMMA SetCompletionsSound ==
    ASSUME NEW s, Sound(s),
           NEW q \in Seq([molecule : Ids, status : Statuses])
    PROVE  Sound([s EXCEPT !.completions = q])
<1> DEFINE t == [s EXCEPT !.completions = q]
<1>1. t \in SequencerType /\ t.list = s.list /\ t.molecule = s.molecule
  BY DEF Sound, SequencerType
<1>. QED  BY <1>1, SamePlacesSound DEF SamePlaces, SamePlace

(* ... so that a completion may be put off at any time (addCompleted).      *)
LEMMA AddCompletedSound ==
    ASSUME NEW s, Sound(s), NEW m \in Ids, NEW x \in Statuses
    PROVE  Sound(AddCompleted(s, m, x))
<1> DEFINE I == [molecule : Ids, status : Statuses]
           q == Append(s.completions, [molecule |-> m, status |-> x])
<1>1. [molecule |-> m, status |-> x] \in I
  OBVIOUS
<1>2. q \in Seq(I)
  BY <1>1, Fields, AppendProperties DEF Sound
<1> HIDE DEF q
<1>3. Sound([s EXCEPT !.completions = q])
  BY <1>2, SetCompletionsSound
<1>. QED  BY <1>3 DEF AddCompleted, q

(* A fault is recorded beside the playlists.                                *)
LEMMA FaultSound ==
    ASSUME NEW s, Sound(s)
    PROVE  Sound(Fault(s))
<1>1. /\ Fault(s) \in SequencerType
      /\ Fault(s).list = s.list /\ Fault(s).molecule = s.molecule
  BY DEF Sound, SequencerType, Fault
<1>. QED  BY <1>1, SamePlacesSound DEF SamePlaces, SamePlace

(* Trunk::disconnect touches no playlist.                                   *)
LEMMA HangupSound ==
    ASSUME NEW s, Sound(s)
    PROVE  Sound(Hangup(s))
<1> DEFINE n == Bump(s.hangups)
           t == [s EXCEPT !.hangups = n]
<1>1. n \in Nat
  BY DEF Sound, SequencerType, Bump, CountBound
<1> HIDE DEF n
<1>2. t \in SequencerType /\ t.list = s.list /\ t.molecule = s.molecule
  BY <1>1 DEF Sound, SequencerType
<1>3. Sound(t)
  BY <1>2, SamePlacesSound DEF SamePlaces, SamePlace
<1>. QED  BY <1>3 DEF n, Hangup

(****************************************************************************)
(*                            Unlinking                                     *)
(****************************************************************************)

(* t's playlist of channel c is what is left of s's: e says where each of   *)
(* its elements was.                                                        *)
Embeds(s, t, c, e) ==
    /\ e \in [DOMAIN t.list[c] -> DOMAIN s.list[c]]
    /\ \A j \in DOMAIN t.list[c] : t.list[c][j] = s.list[c][e[j]]
    /\ \A j, k \in DOMAIN t.list[c] : j < k => e[j] < e[k]

(* What becomes of the molecule q, r, when others are unlinked: it may have *)
(* been unlinked itself, and then points to one that was there.             *)
MayUnlink(s, q, r) ==
    /\ r.channel = q.channel
    /\ r.priority = q.priority
    /\ r.phase = "queued" => q.phase = "queued"
    /\ r.phase = "new" => q.phase = "new"
    /\ r.phase = "detached" =>
          /\ r.before \in Ids
          /\ s.molecule[r.before].phase # "new"
          /\ s.molecule[r.before].channel = q.channel

(* What every removal amounts to: if each list of t is a sublist of the     *)
(* list that s had, and exactly the molecules in them are queued, t is      *)
(* sound.                                                                   *)
LEMMA SublistSound ==
    ASSUME NEW s, Sound(s), NEW t \in SequencerType,
           \A c \in Channels : \E e : Embeds(s, t, c, e),
           \A c \in Channels : \A j \in DOMAIN t.list[c] :
              IsQueued(t, t.list[c][j]),
           \A m \in Ids : IsQueued(t, m) => InList(t, m),
           \A m \in Ids : MayUnlink(s, s.molecule[m], t.molecule[m])
    PROVE  Sound(t)
<1>1. \A c \in Channels : \A j \in DOMAIN s.list[c] :
         /\ j \in Int
         /\ s.list[c][j] \in Ids
         /\ s.molecule[s.list[c][j]].channel = c
  <2>1. \A c \in Channels : \A j \in DOMAIN s.list[c] :
           j \in Int /\ s.list[c][j] \in Ids
    BY Fields, LenProperties, ElementOfSeq DEF Sound
  <2>. QED  BY <2>1 DEF Sound, LinkedIn
<1>2. \A c \in Channels : \A j \in DOMAIN t.list[c] : j \in Int
  BY Fields, LenProperties
<1>3. ASSUME NEW c \in Channels, NEW i \in DOMAIN t.list[c],
             NEW j \in DOMAIN t.list[c], t.list[c][i] = t.list[c][j]
      PROVE  i = j
  <2>1. PICK e : Embeds(s, t, c, e)
    OBVIOUS
  <2>2. /\ e[i] \in DOMAIN s.list[c] /\ e[j] \in DOMAIN s.list[c]
        /\ s.list[c][e[i]] = s.list[c][e[j]]
    BY <1>3, <2>1 DEF Embeds
  <2>3. e[i] = e[j]
    BY <2>2 DEF Sound, LinkedIn
  <2>. QED  BY <1>1, <1>2, <2>1, <2>2, <2>3 DEF Embeds
<1>4. ASSUME NEW c \in Channels, NEW j \in DOMAIN t.list[c]
      PROVE  t.molecule[t.list[c][j]].channel = c
  <2>1. PICK e : Embeds(s, t, c, e)
    OBVIOUS
  <2>. QED  BY <1>1, <2>1 DEF Embeds, MayUnlink
<1>5. LinkedIn(t)
  BY <1>3, <1>4 DEF LinkedIn
<1>6. SortedIn(t)
  <2>. SUFFICES ASSUME NEW c \in Channels, NEW i \in DOMAIN t.list[c],
                       NEW j \in DOMAIN t.list[c], i < j
                PROVE  t.molecule[t.list[c][i]].priority
                          >= t.molecule[t.list[c][j]].priority
    BY DEF SortedIn
  <2>1. PICK e : Embeds(s, t, c, e)
    OBVIOUS
  <2>2. /\ e[i] \in DOMAIN s.list[c] /\ e[j] \in DOMAIN s.list[c]
        /\ t.list[c][i] = s.list[c][e[i]] /\ t.list[c][j] = s.list[c][e[j]]
        /\ e[i] < e[j]
    BY <2>1 DEF Embeds
  <2>3. s.molecule[s.list[c][e[i]]].priority
           >= s.molecule[s.list[c][e[j]]].priority
    BY <2>2 DEF Sound, SortedIn
  <2>. QED  BY <1>1, <2>2, <2>3 DEF MayUnlink
<1>7. DetachedIn(t)
  <2>. SUFFICES ASSUME NEW m \in Ids, t.molecule[m].phase = "detached"
                PROVE  /\ t.molecule[m].before \in Ids
                       /\ t.molecule[t.molecule[m].before].phase # "new"
                       /\ t.molecule[t.molecule[m].before].channel
                             = t.molecule[m].channel
    BY DEF DetachedIn
  <2>. QED  BY DEF MayUnlink
<1>. QED  BY <1>5, <1>6, <1>7 DEF Sound

(* A list that does not change embeds into itself.                          *)
LEMMA SameListEmbeds ==
    ASSUME NEW s, NEW t, NEW c, t.list[c] = s.list[c]
    PROVE  \E e : Embeds(s, t, c, e)
<1> DEFINE e == [j \in DOMAIN t.list[c] |-> j]
<1>1. Embeds(s, t, c, e)
  BY DEF Embeds
<1>. QED  BY <1>1

(* Without the element at i, and with its molecule no longer queued.        *)
LEMMA UnlinkSound ==
    ASSUME NEW s, Sound(s), NEW t \in SequencerType,
           NEW c \in Channels, NEW i \in 1..Len(s.list[c]), NEW r \in MT,
           r.phase \in {"detached", "gone"},
           MayUnlink(s, s.molecule[s.list[c][i]], r),
           t.list = [s.list EXCEPT ![c] = RemoveAt(s.list[c], i)],
           t.molecule = [s.molecule EXCEPT ![s.list[c][i]] = r]
    PROVE  Sound(t)
<1> DEFINE L == s.list[c]
           K == RemoveAt(L, i)
           x == L[i]
<1>1. /\ s \in SequencerType /\ L \in Seq(Ids) /\ Len(L) \in Nat
      /\ x \in Ids
      /\ \A d \in Channels : /\ DOMAIN s.list[d] = 1..Len(s.list[d])
                             /\ \A j \in DOMAIN s.list[d] : s.list[d][j] \in Ids
  BY Fields, LenProperties, ElementOfSeq DEF Sound
<1>2. /\ DOMAIN K = 1..Len(L) - 1
      /\ \A j \in 1..Len(L) - 1 : K[j] = IF j < i THEN L[j] ELSE L[j + 1]
  <2>1. /\ K \in Seq(Ids) /\ Len(K) = Len(L) - 1
        /\ \A j \in 1..Len(L) - 1 : K[j] = IF j < i THEN L[j] ELSE L[j + 1]
    <3>1. L \in Seq(Ids) /\ i \in 1..Len(L)
      BY <1>1
    <3> HIDE DEF L
    <3>. QED  BY <3>1, RemoveAtProperties
  <2> HIDE DEF K
  <2>. QED  BY <2>1, LenProperties
<1> HIDE DEF K
<1>3. /\ t.list[c] = K
      /\ \A d \in Channels \ {c} : t.list[d] = s.list[d]
      /\ t.molecule[x] = r
      /\ \A m \in Ids \ {x} : t.molecule[m] = s.molecule[m]
  BY <1>1, Fields DEF K
<1>4. /\ \A j \in 1..Len(L) : L[j] = x => j = i
      /\ \A d \in Channels : \A j \in DOMAIN s.list[d] :
            IsQueued(s, s.list[d][j]) /\ (s.list[d][j] = x => d = c)
      /\ \A m \in Ids : IsQueued(s, m) => InList(s, m)
  <2>1. \A j \in 1..Len(L) : L[j] = x => j = i
    BY <1>1 DEF Sound, LinkedIn
  <2>2. \A d \in Channels : \A j \in DOMAIN s.list[d] :
            IsQueued(s, s.list[d][j]) /\ s.molecule[s.list[d][j]].channel = d
    BY DEF Sound, LinkedIn
  <2>3. s.molecule[x].channel = c
    BY <1>1, <2>2
  <2>. QED  BY SMTT(30), <2>1, <2>2, <2>3 DEF Sound, LinkedIn
<1>5. \A d \in Channels : \E e : Embeds(s, t, d, e)
  <2>. TAKE d \in Channels
  <2>1. CASE d = c
    <3> DEFINE e == [j \in 1..Len(L) - 1 |-> IF j < i THEN j ELSE j + 1]
    <3>1. DOMAIN t.list[c] = 1..Len(L) - 1 /\ DOMAIN s.list[c] = 1..Len(L)
      BY <1>1, <1>2, <1>3
    <3>2. e \in [1..Len(L) - 1 -> 1..Len(L)]
      BY <1>1
    <3>3. \A j \in 1..Len(L) - 1 : t.list[c][j] = s.list[c][e[j]]
      BY <1>1, <1>2, <1>3
    <3>4. \A j, k \in 1..Len(L) - 1 : j < k => e[j] < e[k]
      BY <1>1
    <3> HIDE DEF e
    <3>5. Embeds(s, t, c, e)
      BY <3>1, <3>2, <3>3, <3>4 DEF Embeds
    <3>. QED  BY <2>1, <3>5
  <2>2. CASE d # c
    BY <1>3, <2>2, SameListEmbeds
  <2>. QED  BY <2>1, <2>2
<1>6. ASSUME NEW d \in Channels, NEW j \in DOMAIN t.list[d]
      PROVE  IsQueued(t, t.list[d][j])
  <2>1. t.list[d][j] \in Ids \ {x} /\ IsQueued(s, t.list[d][j])
    <3>1. CASE d = c
      <4>1. CASE j < i
        <5>1. j \in 1..Len(L) /\ j # i /\ t.list[d][j] = L[j]
          BY <1>1, <1>2, <1>3, <3>1, <4>1
        <5>. QED  BY <1>1, <1>4, <5>1
      <4>2. CASE ~(j < i)
        <5>1. /\ j + 1 \in 1..Len(L) /\ j + 1 # i
              /\ t.list[d][j] = L[j + 1]
          BY <1>1, <1>2, <1>3, <3>1, <4>2
        <5>. QED  BY <1>1, <1>4, <5>1
      <4>. QED  BY <4>1, <4>2
    <3>2. CASE d # c
      BY <1>1, <1>3, <1>4, <3>2
    <3>. QED  BY <3>1, <3>2
  <2>. QED  BY <1>3, <2>1 DEF IsQueued
<1>7. ASSUME NEW m \in Ids, IsQueued(t, m)
      PROVE  InList(t, m)
  <2>1. m # x /\ IsQueued(s, m)
    BY <1>3, <1>7 DEF IsQueued
  <2>2. PICK d \in Channels : \E j \in DOMAIN s.list[d] : s.list[d][j] = m
    BY <1>4, <2>1 DEF InList
  <2>3. PICK j \in DOMAIN s.list[d] : s.list[d][j] = m
    BY <2>2
  <2>4. CASE d # c
    BY <1>3, <2>3, <2>4 DEF InList
  <2>5. CASE d = c
    <3>1. j \in 1..Len(L) /\ j # i /\ L[j] = m
      BY <1>1, <2>1, <2>3, <2>5
    <3>2. CASE j < i
      <4>1. j \in 1..Len(L) - 1 /\ K[j] = m
        BY <1>1, <1>2, <3>1, <3>2
      <4>. QED  BY <1>2, <1>3, <4>1 DEF InList
    <3>3. CASE ~(j < i)
      <4>1. j - 1 \in 1..Len(L) - 1 /\ K[j - 1] = m
        BY <1>1, <1>2, <3>1, <3>3
      <4>. QED  BY <1>2, <1>3, <4>1 DEF InList
    <3>. QED  BY <3>2, <3>3
  <2>. QED  BY <2>4, <2>5
<1>8. ASSUME NEW m \in Ids
      PROVE  MayUnlink(s, s.molecule[m], t.molecule[m])
  <2>1. CASE m = x
    BY <1>3, <2>1
  <2>2. CASE m # x
    BY ZenonT(30), <1>3, <2>2 DEF MayUnlink, Sound, DetachedIn
  <2>. QED  BY <2>1, <2>2
<1>. QED  BY <1>5, <1>6, <1>7, <1>8, SublistSound

(* A molecule that is not in a list is forgotten.                           *)
LEMMA ForgetSound ==
    ASSUME NEW s, Sound(s), NEW m \in Ids, NEW r \in MT,
           ~IsQueued(s, m), r.phase = "gone",
           MayUnlink(s, s.molecule[m], r)
    PROVE  Sound(SetMolecule(s, m, r))
<1> DEFINE t == SetMolecule(s, m, r)
<1>1. /\ s \in SequencerType /\ t \in SequencerType
      /\ t.list = s.list /\ t.molecule[m] = r
      /\ \A i \in Ids \ {m} : t.molecule[i] = s.molecule[i]
  BY SetMoleculeProperties DEF Sound
<1> HIDE DEF t
<1>2. \A c \in Channels : \E e : Embeds(s, t, c, e)
  BY <1>1, SameListEmbeds
<1>3. \A c \in Channels : \A j \in DOMAIN t.list[c] :
         /\ s.list[c][j] \in Ids /\ s.list[c][j] # m
         /\ IsQueued(s, s.list[c][j])
  BY <1>1, Fields, LenProperties, ElementOfSeq DEF Sound, LinkedIn
<1>4. \A c \in Channels : \A j \in DOMAIN t.list[c] : IsQueued(t, t.list[c][j])
  BY <1>1, <1>3 DEF IsQueued
<1>5. \A i \in Ids : IsQueued(t, i) => InList(t, i)
  BY <1>1 DEF Sound, LinkedIn, IsQueued, InList
<1>6. \A i \in Ids : MayUnlink(s, s.molecule[i], t.molecule[i])
  BY <1>1 DEF MayUnlink, Sound, DetachedIn
<1>7. Sound(t)
  BY <1>1, <1>2, <1>4, <1>5, <1>6, SublistSound
<1>. QED  BY <1>7 DEF t

(* Where a queued molecule is.                                              *)
LEMMA QueuedIndex ==
    ASSUME NEW s, Sound(s), NEW m \in Ids, IsQueued(s, m)
    PROVE  LET L == s.list[s.molecule[m].channel]
           IN /\ IndexIn(L, m) \in 1..Len(L)
              /\ L[IndexIn(L, m)] = m
<1>1. PICK c \in Channels : \E i \in DOMAIN s.list[c] : s.list[c][i] = m
  BY DEF Sound, LinkedIn, InList
<1>2. s.molecule[m].channel = c
  BY <1>1 DEF Sound, LinkedIn
<1>3. DOMAIN s.list[c] = 1..Len(s.list[c])
  BY Fields, LenProperties DEF Sound
<1>. QED  BY <1>1, <1>2, <1>3 DEF IndexIn

(* Taking one molecule out of its list, to be deleted or left dangling.     *)
LEMMA UnlinkOpSound ==
    ASSUME NEW s, Sound(s), NEW c \in Channels,
           NEW i \in 1..Len(s.list[c]), NEW r \in MT,
           r.phase \in {"detached", "gone"},
           MayUnlink(s, s.molecule[s.list[c][i]], r)
    PROVE  /\ Sound(Unlink(s, c, i, r))
           /\ Unlink(s, c, i, r).molecule = [s.molecule EXCEPT ![s.list[c][i]] = r]
           /\ Unlink(s, c, i, r).state = s.state
<1> DEFINE K == RemoveAt(s.list[c], i)
           l == [s.list EXCEPT ![c] = K]
           u == [s EXCEPT !.list = l]
           x == s.list[c][i]
           t == SetMolecule(u, x, r)
<1>1. s \in SequencerType /\ s.list[c] \in Seq(Ids) /\ x \in Ids
  BY Fields, ElementOfSeq DEF Sound
<1>2. K \in Seq(Ids)
  BY <1>1, RemoveAtProperties
<1> HIDE DEF K
<1>3. l \in [Channels -> Seq(Ids)]
  BY <1>1, <1>2, Fields
<1> HIDE DEF l
<1>4. /\ u \in SequencerType /\ u.list = l /\ u.molecule = s.molecule
      /\ u.state = s.state
  BY <1>1, <1>3 DEF SequencerType
<1> HIDE DEF u
<1>5. t \in SequencerType /\ t.list = l
  BY <1>1, <1>4, SetMoleculeProperties
<1>6. t.molecule = [s.molecule EXCEPT ![x] = r] /\ t.state = s.state
  BY <1>4 DEF SetMolecule, SequencerType
<1> HIDE DEF t
<1>7. Sound(t)
  BY <1>5, <1>6, UnlinkSound DEF l, K
<1>. QED  BY <1>6, <1>7 DEF t, u, l, K, Unlink

(* List::removeAfter of a queued molecule: the one it unlinks points back   *)
(* to it.                                                                   *)
LEMMA UnlinkAfterSound ==
    ASSUME NEW s, Sound(s), NEW b \in Ids, IsQueued(s, b)
    PROVE  LET t == UnlinkAfter(s, s.molecule[b].channel, b)
           IN /\ Sound(t)
              /\ t.state = s.state
              /\ \A m \in Ids : ~IsQueued(s, m) => t.molecule[m] = s.molecule[m]
              /\ \A m \in Ids : t.molecule[m].channel = s.molecule[m].channel
              /\ \A m \in Ids : s.molecule[m].phase # "new"
                                   => t.molecule[m].phase # "new"
<1> DEFINE c == s.molecule[b].channel
           L == s.list[c]
           i == IndexIn(L, b) + 1
           q == s.molecule[L[i]]
           r == [q EXCEPT !.phase = "detached", !.before = b]
<1>1. s \in SequencerType /\ c \in Channels
  BY Fields, RecordFields DEF Sound
<1>2. IndexIn(L, b) \in 1..Len(L)
  BY QueuedIndex
<1>3. CASE i > Len(L)
  BY <1>3 DEF UnlinkAfter
<1>4. CASE ~(i > Len(L))
  <2>1. i \in 1..Len(L) /\ i \in DOMAIN L /\ L[i] \in Ids
    BY <1>1, <1>2, <1>4, Fields, LenProperties, ElementOfSeq
  <2>2. IsQueued(s, L[i]) /\ q.channel = c /\ q \in MT
    <3>1. \A j \in DOMAIN L : IsQueued(s, L[j]) /\ s.molecule[L[j]].channel = c
      BY Zenon, <1>1 DEF Sound, LinkedIn
    <3>2. s.molecule \in [Ids -> MT]
      BY <1>1, Fields
    <3> HIDE DEF i, L, c
    <3>. QED  BY <2>1, <3>1, <3>2
  <2> HIDE DEF q, i
  <2>3. r \in MT /\ r.phase = "detached" /\ r.before = b
        /\ r.channel = q.channel /\ r.priority = q.priority
    <3>1. r \in MT
      BY <2>2 DEF MT, MoleculeType, Phases
    <3>2. /\ r.phase = "detached" /\ r.before = b
          /\ r.channel = q.channel /\ r.priority = q.priority
      BY <2>2 DEF MT, MoleculeType
    <3>. QED  BY <3>1, <3>2
  <2> HIDE DEF r
  <2>4. MayUnlink(s, q, r)
    BY <2>2, <2>3 DEF MayUnlink, IsQueued
  <2>5. /\ Sound(Unlink(s, c, i, r))
        /\ Unlink(s, c, i, r).molecule = [s.molecule EXCEPT ![L[i]] = r]
        /\ Unlink(s, c, i, r).state = s.state
    <3>1. r.phase \in {"detached", "gone"} /\ MayUnlink(s, s.molecule[s.list[c][i]], r)
      BY <2>3, <2>4 DEF q
    <3> HIDE DEF c
    <3>. QED  BY <1>1, <2>1, <2>3, <3>1, UnlinkOpSound
  <2>6. UnlinkAfter(s, c, b) = Unlink(s, c, i, r)
    BY <1>4 DEF UnlinkAfter, i, r, q
  <2>7. s.molecule \in [Ids -> MT]
    BY <1>1, Fields
  <2> DEFINE t == Unlink(s, c, i, r)
  <2> HIDE DEF t, c
  <2>8. \A m \in Ids : t.molecule[m] = IF m = L[i] THEN r ELSE s.molecule[m]
    BY <2>5, <2>7 DEF t
  <2>9. L[i] \in Ids /\ s.molecule[L[i]] = q /\ q.phase = "queued"
    BY <2>1, <2>2 DEF q, IsQueued
  <2> HIDE DEF L
  <2>10. \A m \in Ids : ~IsQueued(s, m) => t.molecule[m] = s.molecule[m]
    BY <2>8, <2>9 DEF IsQueued
  <2>11. \A m \in Ids : t.molecule[m].channel = s.molecule[m].channel
    BY <2>3, <2>8, <2>9
  <2>12. \A m \in Ids : s.molecule[m].phase # "new" => t.molecule[m].phase # "new"
    BY <2>3, <2>8, <2>9
  <2>. QED  BY <2>5, <2>6, <2>10, <2>11, <2>12 DEF t, c
<1>. QED  BY <1>3, <1>4

(* Activity::remove of an inactive molecule, also of one that abort()       *)
(* unlinked: then the molecule it unlinks by mistake is left dangling,      *)
(* never half linked.                                                       *)
LEMMA DeleteSound ==
    ASSUME NEW s, Sound(s), NEW m \in Ids,
           s.molecule[m].phase \in {"queued", "detached"}
    PROVE  Sound(Delete(s, m))
<1> DEFINE r == s.molecule[m]
           c == r.channel
           gone == [r EXCEPT !.phase = "gone"]
           b == r.before
           after == UnlinkAfter(s, c, b)
           deleted == IF r.phase = "queued"
                      THEN Unlink(s, c, IndexIn(s.list[c], m), gone)
                      ELSE SetMolecule(after, m, gone)
<1>1. s \in SequencerType /\ r \in MT /\ c \in Channels
  BY Fields, RecordFields DEF Sound
<1>2. /\ gone \in MT /\ gone.phase = "gone"
      /\ gone.channel = c /\ gone.priority = r.priority
  BY <1>1 DEF MT, MoleculeType, Phases
<1>3. MayUnlink(s, r, gone)
  BY <1>2 DEF MayUnlink
<1> HIDE DEF gone
<1>4. CASE r.phase = "queued"
  <2> DEFINE i == IndexIn(s.list[c], m)
  <2>1. i \in 1..Len(s.list[c]) /\ s.list[c][i] = m
    BY <1>4, QueuedIndex DEF IsQueued
  <2>2. gone.phase \in {"detached", "gone"}
        /\ MayUnlink(s, s.molecule[s.list[c][i]], gone)
    BY <1>2, <1>3, <2>1
  <2> HIDE DEF i, c
  <2>3. Sound(Unlink(s, c, i, gone))
    BY <1>1, <1>2, <2>1, <2>2, UnlinkOpSound
  <2>4. Sound(deleted)
    BY <1>4, <2>3 DEF i
  <2>5. Sound([deleted EXCEPT !.state[c] = "idle"])
    BY <1>1, <2>4, SetStateSound DEF States
  <2> HIDE DEF deleted
  <2>6. Delete(s, m) \in {deleted, [deleted EXCEPT !.state[c] = "idle"]}
    BY <1>4 DEF Delete, deleted, c, gone
  <2>. QED  BY <2>4, <2>5, <2>6
<1>5. CASE r.phase = "detached" /\ ~IsQueued(s, b)
  <2>1. Delete(s, m) = Fault(s)
    BY <1>5 DEF Delete
  <2>. QED  BY <2>1, FaultSound
<1>6. CASE r.phase = "detached" /\ IsQueued(s, b)
  <2>1. b \in Ids /\ s.molecule[b].channel = c
    BY <1>6 DEF Sound, DetachedIn
  <2>2. /\ Sound(after)
        /\ after.molecule[m] = r
    <3>1. ~IsQueued(s, m)
      BY <1>6 DEF IsQueued
    <3> HIDE DEF b
    <3>. QED  BY <1>6, <2>1, <3>1, UnlinkAfterSound
  <2> HIDE DEF after
  <2>3. ~IsQueued(after, m) /\ MayUnlink(after, after.molecule[m], gone)
    BY <1>2, <1>6, <2>2 DEF IsQueued, MayUnlink
  <2>4. Sound(SetMolecule(after, m, gone))
    BY <1>2, <2>2, <2>3, ForgetSound
  <2>5. Sound(deleted)
    BY <1>6, <2>4
  <2>6. Sound([deleted EXCEPT !.state[c] = "idle"])
    BY <1>1, <2>5, SetStateSound DEF States
  <2> HIDE DEF deleted
  <2>7. Delete(s, m) \in {deleted, [deleted EXCEPT !.state[c] = "idle"]}
    BY <1>6 DEF Delete, deleted, after, gone
  <2>. QED  BY <2>5, <2>6, <2>7
<1>. QED  BY <1>4, <1>5, <1>6

(****************************************************************************)
(*                    Starting, emptying and linking                        *)
(****************************************************************************)

(* Molecule::start moves no molecule.                                       *)
LEMMA MoleculeStartSound ==
    ASSUME NEW s, Sound(s), NEW m \in Ids, NEW landed \in [Ids -> Nat]
    PROVE  Sound(MoleculeStart(s, m, landed))
<1> DEFINE r == s.molecule[m]
           a == AtomToStart(r, landed[m])
           ok == Starts(s, m, landed)
           started == [r EXCEPT
               !.stopped = FALSE,
               !.cur     = IF a = 0 THEN r.cur ELSE a,
               !.sstatus = IF a \in {0, r.cur} THEN r.sstatus ELSE "ok",
               !.active  = r.active \/ ok,
               !.sample  = IF ok THEN "active" ELSE r.sample]
           others == IF ok /\ IsOutput(r.atoms[a])
                     THEN [i \in Ids |-> ForgetStoppedTone(s.molecule[i])]
                     ELSE s.molecule
           M == [others EXCEPT ![m] = started]
           t == [s EXCEPT !.molecule = M]
<1>1. s \in SequencerType /\ s.molecule \in [Ids -> MT] /\ r \in MT
  BY Fields DEF Sound
<1>2. a \in Nat
  BY <1>1, RecordFields DEF AtomToStart
<1>3. ok \in BOOLEAN
  BY DEF Starts
<1> HIDE DEF a, ok
<1>4. started \in MT /\ SamePlace(r, started)
  <2>1. started \in MT
    BY ZenonT(30), <1>1, <1>2, <1>3 DEF MT, MoleculeType, Statuses, SampleStates
  <2>2. SamePlace(r, started)
    BY <1>1 DEF MT, MoleculeType, SamePlace
  <2>. QED  BY <2>1, <2>2
<1> HIDE DEF started
<1>5. ASSUME NEW q \in MT
      PROVE  ForgetStoppedTone(q) \in MT /\ SamePlace(q, ForgetStoppedTone(q))
  <2> DEFINE p == [q EXCEPT !.sample = "idle"]
  <2>1. p \in MT /\ SamePlace(q, p) /\ SamePlace(q, q)
    BY DEF MT, MoleculeType, SamePlace, SampleStates
  <2>2. ForgetStoppedTone(q) \in {p, q}
    BY DEF ForgetStoppedTone
  <2>. QED  BY <2>1, <2>2
<1>6. /\ others \in [Ids -> MT]
      /\ \A i \in Ids : SamePlace(s.molecule[i], others[i])
  <2>1. \A i \in Ids : SamePlace(s.molecule[i], s.molecule[i])
    BY DEF SamePlace
  <2>. QED  BY <1>1, <1>5, <2>1
<1> HIDE DEF others
<1>7. /\ M \in [Ids -> MT]
      /\ \A i \in Ids : SamePlace(s.molecule[i], M[i])
  BY <1>4, <1>6
<1> HIDE DEF M
<1>8. t \in SequencerType /\ t.list = s.list /\ t.molecule = M
  BY <1>1, <1>7 DEF SequencerType, MT
<1>9. Sound(t)
  BY <1>7, <1>8, SamePlacesSound DEF SamePlaces
<1>10. MoleculeStart(s, m, landed) = t
  BY DEF MoleculeStart, M, others, started, a, ok
<1>. QED  BY <1>9, <1>10

(* Sequencer::release leaves two empty lists and no queued molecule.        *)
LEMMA ReleaseSound ==
    ASSUME NEW s, Sound(s)
    PROVE  Sound(Release(s))
<1> DEFINE G(i) == [s.molecule[i] EXCEPT !.phase = "gone"]
           M == [i \in Ids |-> IF IsQueued(s, i) THEN G(i) ELSE s.molecule[i]]
           E == [c \in Channels |-> << >>]
           t == [s EXCEPT !.media = FALSE, !.callref = FALSE,
                          !.disconnecting = FALSE, !.sentRdis = FALSE,
                          !.hangups = 0, !.list = E, !.molecule = M]
<1>1. s \in SequencerType /\ s.molecule \in [Ids -> MT]
  BY Fields DEF Sound
<1>2. \A i \in Ids : /\ G(i) \in MT /\ G(i).phase = "gone"
                      /\ G(i).channel = s.molecule[i].channel
                      /\ G(i).priority = s.molecule[i].priority
  BY <1>1 DEF MT, MoleculeType, Phases
<1> HIDE DEF G
<1>3. /\ M \in [Ids -> MT]
      /\ \A i \in Ids : M[i].phase # "queued" /\ MayUnlink(s, s.molecule[i], M[i])
  <2>1. M \in [Ids -> MT] /\ \A i \in Ids : M[i].phase # "queued"
    BY <1>1, <1>2 DEF IsQueued
  <2>2. ASSUME NEW i \in Ids
        PROVE  MayUnlink(s, s.molecule[i], M[i])
    <3>1. CASE IsQueued(s, i)
      BY <1>2, <3>1 DEF MayUnlink
    <3>2. CASE ~IsQueued(s, i)
      BY <3>2 DEF MayUnlink, Sound, DetachedIn
    <3>. QED  BY <3>1, <3>2
  <2>. QED  BY <2>1, <2>2
<1> HIDE DEF M
<1>4. E \in [Channels -> Seq(Ids)] /\ \A c \in Channels : DOMAIN E[c] = {}
  <2>1. << >> \in Seq(Ids) /\ DOMAIN << >> = {}
    OBVIOUS
  <2>. QED  BY <2>1
<1> HIDE DEF E
<1>5. t \in SequencerType /\ t.list = E /\ t.molecule = M
  BY <1>1, <1>3, <1>4 DEF SequencerType, MT
<1> HIDE DEF t
<1>6. \A c \in Channels : \E e : Embeds(s, t, c, e)
  <2>. TAKE c \in Channels
  <2> DEFINE e == [j \in {} |-> 0]
  <2>1. Embeds(s, t, c, e)
    BY <1>4, <1>5 DEF Embeds
  <2>. QED  BY <2>1
<1>7. \A i \in Ids : ~IsQueued(t, i)
  BY <1>3, <1>5 DEF IsQueued
<1>8. \A i \in Ids : MayUnlink(s, s.molecule[i], t.molecule[i])
  BY <1>3, <1>5
<1>9. \A c \in Channels : \A j \in DOMAIN t.list[c] : IsQueued(t, t.list[c][j])
  BY <1>4, <1>5
<1>10. Sound(t)
  BY <1>5, <1>6, <1>7, <1>8, <1>9, SublistSound
<1>. QED  BY <1>10 DEF t, E, M, G, Release

(* The loop in Activity::start deletes a prefix of the list.                *)
LEMMA DropBeforeSound ==
    ASSUME NEW s, Sound(s), NEW c \in Channels,
           NEW k \in 1..Len(s.list[c]) + 1
    PROVE  /\ Sound(DropBefore(s, c, k))
           /\ DropBefore(s, c, k).state = s.state
<1> DEFINE L == s.list[c]
           n == Len(L)
           K == SubSeq(L, k, n)
           D == {L[i] : i \in 1..k - 1}
           G(i) == [s.molecule[i] EXCEPT !.phase = "gone"]
           l == [s.list EXCEPT ![c] = K]
           M == [i \in Ids |-> IF i \in D THEN G(i) ELSE s.molecule[i]]
           A == [i \in Ids |-> IF i \in D /\ s.interface
                               THEN Bump(s.answers[i]) ELSE s.answers[i]]
           t == [s EXCEPT !.list = l, !.molecule = M, !.answers = A]
<1>1. /\ s \in SequencerType /\ s.molecule \in [Ids -> MT]
      /\ s.list \in [Channels -> Seq(Ids)] /\ s.answers \in [Ids -> Nat]
      /\ L \in Seq(Ids) /\ n \in Nat
      /\ \A d \in Channels : \A j \in DOMAIN s.list[d] : s.list[d][j] \in Ids
      /\ DOMAIN L = 1..n
  BY Fields, LenProperties, ElementOfSeq DEF Sound
<1>2. /\ K \in Seq(Ids) /\ DOMAIN K = 1..n - k + 1
      /\ \A j \in 1..n - k + 1 : K[j] = L[j + k - 1]
  <2>1. /\ k \in 1..n + 1 /\ k \in Int
        /\ \A j \in k..n : L[j] \in Ids
    BY <1>1
  <2> HIDE DEF n, L
  <2>2. /\ K \in Seq(Ids) /\ Len(K) = IF k <= n THEN n - k + 1 ELSE 0
        /\ \A j \in 1..n - k + 1 : K[j] = L[k + j - 1]
    BY <1>1, <2>1, SubSeqProperties
  <2> HIDE DEF K
  <2>3. Len(K) = n - k + 1
    <3>1. k \in Int /\ n \in Nat /\ k <= n + 1
      BY <1>1, <2>1
    <3>. QED  BY <2>2, <3>1
  <2>4. \A j \in 1..n - k + 1 : k + j - 1 = j + k - 1
    BY <1>1, <2>1
  <2>5. DOMAIN K = 1..n - k + 1
    BY <2>2, <2>3, LenProperties
  <2>. QED  BY <2>2, <2>4, <2>5
<1> HIDE DEF K
<1>3. \A i \in Ids : /\ G(i) \in MT /\ G(i).phase = "gone"
                      /\ G(i).channel = s.molecule[i].channel
                      /\ G(i).priority = s.molecule[i].priority
  <2>1. ASSUME NEW q \in MT
        PROVE  LET g == [q EXCEPT !.phase = "gone"]
               IN /\ g \in MT /\ g.phase = "gone"
                  /\ g.channel = q.channel /\ g.priority = q.priority
    BY DEF MT, MoleculeType, Phases
  <2>. QED  BY <1>1, <2>1
<1> HIDE DEF G
<1>4. M \in [Ids -> MT] /\ A \in [Ids -> Nat] /\ l \in [Channels -> Seq(Ids)]
  BY <1>1, <1>2, <1>3 DEF Bump, CountBound
<1>5. /\ \A i \in D : M[i].phase = "gone"
      /\ \A i \in Ids \ D : M[i] = s.molecule[i]
      /\ \A i \in Ids : MayUnlink(s, s.molecule[i], M[i])
  <2>1. /\ \A i \in D : i \in Ids /\ M[i] = G(i)
        /\ \A i \in Ids \ D : M[i] = s.molecule[i]
    BY <1>1
  <2>2. ASSUME NEW i \in Ids
        PROVE  MayUnlink(s, s.molecule[i], M[i])
    <3>1. CASE i \in D
      BY <1>3, <2>1, <3>1 DEF MayUnlink
    <3>2. CASE i \notin D
      BY <2>1, <3>2 DEF MayUnlink, Sound, DetachedIn
    <3>. QED  BY <3>1, <3>2
  <2>. QED  BY <1>3, <2>1, <2>2
<1> HIDE DEF M, A
<1>6. /\ l[c] = K
      /\ \A d \in Channels \ {c} : l[d] = s.list[d]
  BY <1>1
<1> HIDE DEF l
<1>7. /\ t \in SequencerType /\ t.list = l /\ t.molecule = M
      /\ t.state = s.state
  BY <1>1, <1>4 DEF SequencerType, MT
<1> HIDE DEF t
<1>8. /\ \A i \in 1..n : L[i] \in D <=> i < k
      /\ \A d \in Channels : \A j \in DOMAIN s.list[d] :
            /\ IsQueued(s, s.list[d][j])
            /\ d # c => s.list[d][j] \notin D
  <2>1. \A i, j \in 1..n : L[i] = L[j] => i = j
    BY <1>1 DEF Sound, LinkedIn
  <2>2. \A i \in 1..n : L[i] \in D <=> i < k
    BY <1>1, <2>1
  <2>3. \A d \in Channels : \A j \in DOMAIN s.list[d] :
            IsQueued(s, s.list[d][j]) /\ s.molecule[s.list[d][j]].channel = d
    BY DEF Sound, LinkedIn
  <2>4. \A x \in D : s.molecule[x].channel = c
    BY <1>1, <2>3
  <2>. QED  BY <2>2, <2>3, <2>4
<1>9. \A d \in Channels : \E e : Embeds(s, t, d, e)
  <2>. TAKE d \in Channels
  <2>1. CASE d = c
    <3> DEFINE e == [j \in 1..n - k + 1 |-> j + k - 1]
    <3>1. DOMAIN t.list[c] = 1..n - k + 1 /\ DOMAIN s.list[c] = 1..n
      BY <1>1, <1>2, <1>6, <1>7
    <3>2. e \in [1..n - k + 1 -> 1..n]
      BY SMTT(30), <1>1
    <3>3. \A j \in 1..n - k + 1 : t.list[c][j] = s.list[c][e[j]]
      BY <1>1, <1>2, <1>6, <1>7
    <3>4. \A i, j \in 1..n - k + 1 : i < j => e[i] < e[j]
      BY <1>1
    <3> HIDE DEF e
    <3>5. Embeds(s, t, c, e)
      BY <3>1, <3>2, <3>3, <3>4 DEF Embeds
    <3>. QED  BY <2>1, <3>5
  <2>2. CASE d # c
    BY <1>6, <1>7, <2>2, SameListEmbeds
  <2>. QED  BY <2>1, <2>2
<1>10. ASSUME NEW d \in Channels, NEW j \in DOMAIN t.list[d]
       PROVE  IsQueued(t, t.list[d][j])
  <2>1. t.list[d][j] \in Ids \ D /\ IsQueued(s, t.list[d][j])
    <3>1. CASE d = c
      <4>1. /\ j + k - 1 \in 1..n /\ ~(j + k - 1 < k)
            /\ t.list[d][j] = L[j + k - 1]
        <5>1. j \in 1..n - k + 1 /\ t.list[d][j] = K[j]
          BY <1>2, <1>6, <1>7, <3>1
        <5>2. j \in Int /\ k \in 1..n + 1 /\ n \in Nat /\ 1 <= j /\ j <= n - k + 1
          BY <1>1, <5>1
        <5> HIDE DEF n
        <5>3. j + k - 1 \in 1..n /\ ~(j + k - 1 < k)
          BY <5>2
        <5>. QED  BY <1>2, <5>1, <5>3
      <4>. QED  BY <1>1, <1>8, <4>1
    <3>2. CASE d # c
      BY <1>1, <1>6, <1>7, <1>8, <3>2
    <3>. QED  BY <3>1, <3>2
  <2>. QED  BY <1>5, <1>7, <2>1 DEF IsQueued
<1>11. ASSUME NEW m \in Ids, IsQueued(t, m)
       PROVE  InList(t, m)
  <2>1. m \notin D /\ IsQueued(s, m)
    BY <1>5, <1>7, <1>11 DEF IsQueued
  <2>2. PICK d \in Channels : \E j \in DOMAIN s.list[d] : s.list[d][j] = m
    BY <2>1 DEF Sound, LinkedIn, InList
  <2>3. PICK j \in DOMAIN s.list[d] : s.list[d][j] = m
    BY <2>2
  <2>4. CASE d # c
    BY <1>6, <1>7, <2>3, <2>4 DEF InList
  <2>5. CASE d = c
    <3>1. j \in 1..n /\ ~(j < k) /\ L[j] = m
      BY <1>1, <1>8, <2>1, <2>3, <2>5
    <3>2. j - k + 1 \in 1..n - k + 1 /\ j - k + 1 + k - 1 = j
      <4>1. n \in Nat /\ k \in 1..n + 1 /\ j \in 1..n /\ ~(j < k)
        BY <1>1, <3>1
      <4> HIDE DEF n
      <4>. QED  BY <4>1
    <3>3. K[j - k + 1] = m
      BY <1>2, <3>1, <3>2
    <3>. QED  BY <1>2, <1>6, <1>7, <3>2, <3>3 DEF InList
  <2>. QED  BY <2>4, <2>5
<1>12. Sound(t)
  BY <1>5, <1>7, <1>9, <1>10, <1>11, SublistSound
<1>13. DropBefore(s, c, k) = t
  BY DEF DropBefore, t, l, M, A, K, G
<1>. QED  BY <1>7, <1>12, <1>13

(* Activity::start as a whole.                                              *)
LEMMA ActivityStartSound ==
    ASSUME NEW s, Sound(s), NEW c \in Channels, NEW landed \in [Ids -> Nat]
    PROVE  Sound(ActivityStart(s, c, landed))
<1> DEFINE L == s.list[c]
           n == Len(L)
           P == {i \in 1..n + 1 : i = n + 1 \/ Starts(s, L[i], landed)}
           k == Min(P)
           x == IF k <= n THEN "active" ELSE "idle"
           left == [DropBefore(s, c, k) EXCEPT !.state[c] = x]
<1>1. s \in SequencerType /\ n \in Nat /\ \A j \in 1..n : L[j] \in Ids
  BY Fields, LenProperties, ElementOfSeq DEF Sound
<1>2. k \in P
  <2>1. P \in SUBSET Nat /\ n + 1 \in P
    BY <1>1
  <2> HIDE DEF P
  <2>. QED  BY <2>1, MinNat
<1>3. k \in 1..n + 1
  BY <1>2
<1> HIDE DEF k
<1>4. Sound(DropBefore(s, c, k))
  BY <1>3, DropBeforeSound
<1>5. Sound(left)
  <2>1. x \in States
    BY DEF States
  <2> HIDE DEF x
  <2>. QED  BY <1>4, <2>1, SetStateSound
<1> HIDE DEF left
<1>6. Sound(Fault(s))
  BY FaultSound
<1>7. k <= n => Sound(MoleculeStart(left, L[k], landed))
  BY <1>1, <1>3, <1>5, MoleculeStartSound
<1>8. ActivityStart(s, c, landed) =
         IF \E i \in 1..k - 1 : s.molecule[L[i]].active THEN Fault(s)
         ELSE IF k <= n THEN MoleculeStart(left, L[k], landed) ELSE left
  BY DEF ActivityStart, left, k
<1>. QED  BY <1>5, <1>6, <1>7, <1>8

(* Activity::add's place for a new molecule: after everything at least as   *)
(* important, before everything less so.                                    *)
LEMMA InsertPositionProperties ==
    ASSUME NEW s, Sound(s), NEW c \in Channels, NEW priority \in Nat
    PROVE  LET L == s.list[c]
               p == InsertPosition(s, c, priority)
           IN /\ p \in 1..Len(L) + 1
              /\ \A j \in 1..Len(L) :
                    /\ j < p => s.molecule[L[j]].priority >= priority
                    /\ j >= p => s.molecule[L[j]].priority < priority
<1> DEFINE L == s.list[c]
           n == Len(L)
           P == {i \in 1..n + 1 :
                   i = n + 1 \/ s.molecule[L[i]].priority < priority}
           p == Min(P)
<1>1. /\ s \in SequencerType /\ n \in Nat /\ DOMAIN L = 1..n
      /\ \A j \in 1..n : L[j] \in Ids
  BY Fields, LenProperties, ElementOfSeq DEF Sound
<1>2. p \in P /\ \A i \in P : p <= i
  <2>1. P \in SUBSET Nat /\ n + 1 \in P
    BY <1>1
  <2> HIDE DEF P
  <2>. QED  BY <2>1, MinNat
<1> HIDE DEF p
<1>3. \A j \in 1..n : s.molecule[L[j]].priority \in Nat
  BY <1>1, Fields, RecordFields
<1>4. p \in 1..n + 1
  BY <1>2
<1>5. ASSUME NEW j \in 1..n, j < p
      PROVE  s.molecule[L[j]].priority >= priority
  <2>1. ~(s.molecule[L[j]].priority < priority)
    BY <1>1, <1>2, <1>5
  <2>. QED  BY <1>3, <2>1
<1>6. ASSUME NEW j \in 1..n, j >= p
      PROVE  s.molecule[L[j]].priority < priority
  <2>1. p \in 1..n /\ s.molecule[L[p]].priority < priority
    BY <1>1, <1>2, <1>4, <1>6
  <2>2. p = j \/ p < j
    BY <1>1, <1>6, <2>1
  <2>3. CASE p = j
    BY <2>1, <2>3
  <2>4. CASE p < j
    <3>1. s.molecule[L[p]].priority >= s.molecule[L[j]].priority
      BY <1>1, <2>1, <2>4 DEF Sound, SortedIn
    <3>. QED  BY SMTT(30), <1>3, <2>1, <3>1
  <2>. QED  BY <2>2, <2>3, <2>4
<1>7. InsertPosition(s, c, priority) = p
  BY DEF InsertPosition, p
<1>. QED  BY <1>4, <1>5, <1>6, <1>7

(* A requested molecule enters its playlist.                                *)
LEMMA LinkSound ==
    ASSUME NEW s, Sound(s), NEW m \in Ids, NEW r \in MT,
           s.molecule[m].phase = "new", r.phase = "queued"
    PROVE  Sound(Link(s, m, r))
<1> DEFINE c == r.channel
           L == s.list[c]
           n == Len(L)
           p == InsertPosition(s, c, r.priority)
           K == InsertAt(L, p, m)
           l == [s.list EXCEPT ![c] = K]
           u == [s EXCEPT !.list = l]
           t == SetMolecule(u, m, r)
<1>1. /\ s \in SequencerType /\ c \in Channels /\ r.priority \in Nat
      /\ L \in Seq(Ids) /\ n \in Nat /\ DOMAIN L = 1..n
      /\ \A d \in Channels : /\ DOMAIN s.list[d] = 1..Len(s.list[d])
                             /\ \A j \in DOMAIN s.list[d] : s.list[d][j] \in Ids
  BY Fields, RecordFields, LenProperties, ElementOfSeq DEF Sound
<1>2. /\ p \in 1..n + 1
      /\ \A j \in 1..n : /\ j < p => s.molecule[L[j]].priority >= r.priority
                         /\ j >= p => s.molecule[L[j]].priority < r.priority
  <2> HIDE DEF c
  <2>. QED  BY <1>1, InsertPositionProperties
<1> HIDE DEF p
<1>3. /\ K \in Seq(Ids) /\ DOMAIN K = 1..n + 1
      /\ \A j \in 1..n + 1 : K[j] = IF j < p THEN L[j]
                                    ELSE IF j = p THEN m ELSE L[j - 1]
  <2>1. /\ K \in Seq(Ids) /\ Len(K) = n + 1
        /\ \A j \in 1..n + 1 : K[j] = IF j < p THEN L[j]
                                      ELSE IF j = p THEN m ELSE L[j - 1]
    <3>1. p \in 1..Len(L) + 1 /\ L \in Seq(Ids) /\ n = Len(L)
      BY <1>1, <1>2
    <3> HIDE DEF L, n, K
    <3>2. K \in Seq(Ids) /\ Len(K) = Len(L) + 1
      BY <3>1, InsertAtProperties DEF K
    <3>3. \A j \in 1..Len(L) + 1 :
             InsertAt(L, p, m)[j] = IF j < p THEN L[j]
                                    ELSE IF j = p THEN m ELSE L[j - 1]
      <4>1. ASSUME NEW q \in Seq(Ids), NEW i \in 1..Len(q) + 1
            PROVE  \A j \in 1..Len(q) + 1 :
                      InsertAt(q, i, m)[j] = IF j < i THEN q[j]
                                             ELSE IF j = i THEN m ELSE q[j - 1]
        BY InsertAtProperties
      <4>. QED  BY <3>1, <4>1
    <3>. QED  BY <3>1, <3>2, <3>3 DEF K
  <2> HIDE DEF K
  <2>. QED  BY <2>1, LenProperties
<1> HIDE DEF K, n
<1>4. /\ l \in [Channels -> Seq(Ids)] /\ l[c] = K
      /\ \A d \in Channels \ {c} : l[d] = s.list[d]
  BY <1>1, <1>3, Fields
<1> HIDE DEF l, c
<1>5. u \in SequencerType /\ u.list = l /\ u.molecule = s.molecule
  BY <1>1, <1>4 DEF SequencerType
<1> HIDE DEF u
<1>6. /\ t \in SequencerType /\ t.list = l /\ t.molecule[m] = r
      /\ \A i \in Ids \ {m} : t.molecule[i] = s.molecule[i]
  BY <1>5, SetMoleculeProperties
<1> HIDE DEF t
<1>7. /\ \A d \in Channels : \A j, k \in DOMAIN s.list[d] :
            s.list[d][j] = s.list[d][k] => j = k
      /\ \A d \in Channels : \A j \in DOMAIN s.list[d] :
            /\ IsQueued(s, s.list[d][j])
            /\ s.molecule[s.list[d][j]].channel = d
            /\ s.list[d][j] \in Ids \ {m}
  BY <1>1 DEF Sound, LinkedIn, IsQueued
<1>13. c = r.channel
  BY DEF c
(* Where the elements of the new list come from.                            *)
<1>8. \A j \in 1..n + 1 :
         /\ j < p => j \in 1..n /\ K[j] = L[j]
         /\ j > p => j - 1 \in 1..n /\ K[j] = L[j - 1]
         /\ j = p => K[j] = m
  BY <1>1, <1>2, <1>3
<1>9. LinkedIn(t)
  <2>1. ASSUME NEW d \in Channels, NEW j \in DOMAIN t.list[d],
               NEW k \in DOMAIN t.list[d], t.list[d][j] = t.list[d][k]
        PROVE  j = k
    <3>1. CASE d = c
      <4>1. /\ j \in 1..n + 1 /\ k \in 1..n + 1 /\ K[j] = K[k]
            /\ DOMAIN L = 1..n
        BY <1>1, <1>3, <1>4, <1>6, <2>1, <3>1
      <4>2. \A i \in 1..n : L[i] # m
        BY <1>1, <1>7
      <4>3. \A h, i \in 1..n : L[h] = L[i] => h = i
        BY <1>1, <1>7
      <4>. QED  BY <1>2, <1>8, <4>1, <4>2, <4>3
    <3>2. CASE d # c
      BY <1>4, <1>6, <1>7, <2>1, <3>2
    <3>. QED  BY <3>1, <3>2
  <2>2. ASSUME NEW d \in Channels, NEW j \in DOMAIN t.list[d]
        PROVE  IsQueued(t, t.list[d][j]) /\ t.molecule[t.list[d][j]].channel = d
    <3>1. \/ t.list[d][j] = m /\ d = c
          \/ \E i \in DOMAIN s.list[d] : t.list[d][j] = s.list[d][i]
      <4>1. CASE d = c
        <5>1. j \in 1..n + 1 /\ t.list[d][j] = K[j] /\ DOMAIN L = 1..n
          BY <1>1, <1>3, <1>4, <1>6, <4>1
        <5>. QED  BY <1>2, <1>8, <4>1, <5>1
      <4>2. CASE d # c
        BY <1>4, <1>6, <4>2
      <4>. QED  BY <4>1, <4>2
    <3>2. CASE t.list[d][j] = m /\ d = c
      BY <1>6, <1>13, <3>2 DEF IsQueued
    <3>3. CASE \E i \in DOMAIN s.list[d] : t.list[d][j] = s.list[d][i]
      BY <1>6, <1>7, <3>3 DEF IsQueued
    <3>. QED  BY <3>1, <3>2, <3>3
  <2>3. ASSUME NEW i \in Ids, IsQueued(t, i)
        PROVE  InList(t, i)
    <3>1. CASE i = m
      <4>1. p \in 1..n + 1 /\ K[p] = m
        BY <1>2, <1>8
      <4>. QED  BY <1>1, <1>3, <1>4, <1>6, <3>1, <4>1 DEF InList
    <3>2. CASE i # m
      <4>1. IsQueued(s, i)
        BY <1>6, <2>3, <3>2 DEF IsQueued
      <4>2. PICK d \in Channels : \E j \in DOMAIN s.list[d] : s.list[d][j] = i
        BY <4>1 DEF Sound, LinkedIn, InList
      <4>3. PICK j \in DOMAIN s.list[d] : s.list[d][j] = i
        BY <4>2
      <4>4. CASE d = c
        <5>1. j \in 1..n /\ L[j] = i
          BY <1>1, <4>3, <4>4
        <5>2. CASE j < p
          <6>1. j \in 1..n + 1 /\ K[j] = i
            BY <1>1, <1>8, <5>1, <5>2
          <6>. QED  BY <1>1, <1>3, <1>4, <1>6, <6>1 DEF InList
        <5>3. CASE ~(j < p)
          <6>1. j + 1 \in 1..n + 1 /\ j + 1 > p /\ j + 1 - 1 = j
            BY <1>1, <1>2, <5>1, <5>3
          <6>2. K[j + 1] = i
            BY <1>8, <5>1, <6>1
          <6>. QED  BY <1>1, <1>3, <1>4, <1>6, <6>1, <6>2 DEF InList
        <5>. QED  BY <5>2, <5>3
      <4>5. CASE d # c
        BY <1>4, <1>6, <4>3, <4>5 DEF InList
      <4>. QED  BY <4>4, <4>5
    <3>. QED  BY <3>1, <3>2
  <2>. QED  BY <2>1, <2>2, <2>3 DEF LinkedIn
<1>10. SortedIn(t)
  <2>. SUFFICES ASSUME NEW d \in Channels, NEW j \in DOMAIN t.list[d],
                       NEW k \in DOMAIN t.list[d], j < k
                PROVE  t.molecule[t.list[d][j]].priority
                          >= t.molecule[t.list[d][k]].priority
    BY DEF SortedIn
  <2>1. CASE d = c
    <3>1. /\ j \in 1..n + 1 /\ k \in 1..n + 1
          /\ t.list[d][j] = K[j] /\ t.list[d][k] = K[k]
          /\ DOMAIN L = 1..n
      BY <1>1, <1>3, <1>4, <1>6, <2>1
    <3>2. \A h, i \in 1..n : h < i =>
             s.molecule[L[h]].priority >= s.molecule[L[i]].priority
      BY <1>1 DEF Sound, SortedIn
    <3>3. \A i \in 1..n : /\ t.molecule[L[i]] = s.molecule[L[i]]
                         /\ s.molecule[L[i]].priority \in Nat
      BY <1>1, <1>6, <1>7, Fields, RecordFields
    <3>4. CASE j = p
      <4>1. k > p /\ k - 1 \in 1..n /\ k - 1 >= p
        BY <1>1, <1>2, <3>1, <3>4
      <4>2. s.molecule[L[k - 1]].priority < r.priority
        BY <1>2, <4>1
      <4>3. K[j] = m /\ K[k] = L[k - 1]
        BY <1>8, <3>1, <3>4, <4>1
      <4>4. /\ t.molecule[t.list[d][j]].priority = r.priority
            /\ t.molecule[t.list[d][k]].priority
                  = s.molecule[L[k - 1]].priority
        BY <1>6, <3>1, <3>3, <4>1, <4>3
      <4>5. r.priority \in Nat /\ s.molecule[L[k - 1]].priority \in Nat
        BY <3>3, <4>1, RecordFields
      <4>. QED  BY <4>2, <4>4, <4>5
    <3>5. CASE k = p
      <4>1. j < p /\ j \in 1..n
        BY <1>1, <1>2, <3>1, <3>5
      <4>2. s.molecule[L[j]].priority >= r.priority
        BY <1>2, <4>1
      <4>3. K[k] = m /\ K[j] = L[j]
        BY <1>8, <3>1, <3>5, <4>1
      <4>4. /\ t.molecule[t.list[d][k]].priority = r.priority
            /\ t.molecule[t.list[d][j]].priority = s.molecule[L[j]].priority
        BY <1>6, <3>1, <3>3, <4>1, <4>3
      <4>. QED  BY <4>2, <4>4
    <3>6. CASE j # p /\ k # p
      <4> DEFINE h == IF j < p THEN j ELSE j - 1
                 i == IF k < p THEN k ELSE k - 1
      <4>1. h \in 1..n /\ i \in 1..n /\ h < i
        BY <1>1, <1>2, <3>1, <3>6
      <4>2. K[j] = L[h] /\ K[k] = L[i]
        BY <1>2, <1>8, <3>1, <3>6
      <4> HIDE DEF h, i, L
      <4>3. s.molecule[L[h]].priority >= s.molecule[L[i]].priority
        BY <3>2, <4>1
      <4>. QED  BY <3>1, <3>3, <4>1, <4>2, <4>3
    <3>. QED  BY <3>4, <3>5, <3>6
  <2>2. CASE d # c
    <3>1. t.list[d] = s.list[d]
      BY <1>4, <1>6, <2>2
    <3>. QED  BY <1>6, <1>7, <3>1 DEF Sound, SortedIn
  <2>. QED  BY <2>1, <2>2
<1>11. DetachedIn(t)
  BY <1>6 DEF Sound, DetachedIn
<1>12. Link(s, m, r) = t
  BY DEF Link, t, u, l, K, p, c
<1>. QED  BY <1>6, <1>9, <1>10, <1>11, <1>12 DEF Sound

(****************************************************************************)
(*                            Completions                                   *)
(****************************************************************************)

(* Molecule::done moves no molecule and keeps its type.                     *)
LEMMA DoneProperties ==
    ASSUME NEW r \in MT
    PROVE  Done(r) \in MT /\ SamePlace(r, Done(r))
<1> DEFINE next == IF ~AtEnd(r) THEN r.cur + 1
                   ELSE IF "loop" \in r.mode THEN 1 ELSE 0
           a == IF r.stopped THEN r.cur ELSE next
           b == IF r.stopped \/ next = r.cur THEN r.sample ELSE "idle"
           x == IF r.stopped \/ next = r.cur THEN r.sstatus ELSE "ok"
           d == [r EXCEPT !.active = FALSE, !.cur = a, !.sample = b,
                          !.sstatus = x]
<1>1. a \in Nat /\ b \in SampleStates /\ x \in Statuses
  BY DEF MT, MoleculeType, SampleStates, Statuses
<1> HIDE DEF a, b, x
<1>2. d \in MT
  BY <1>1 DEF MT, MoleculeType
<1>3. SamePlace(r, d)
  BY DEF MT, MoleculeType, SamePlace
<1>4. Done(r) = d
  BY DEF Done, d, a, b, x
<1>. QED  BY <1>2, <1>3, <1>4

(* The critical section of Sequencer::completed, for any molecule that a    *)
(* late or delayed completion may name.                                     *)
LEMMA CompletedLockedSound ==
    ASSUME NEW s, Sound(s), NEW m \in Ids, NEW status \in Statuses,
           NEW landed \in [Ids -> Nat]
    PROVE  Sound(CompletedLocked(s, m, status, landed))
<1> DEFINE r == s.molecule[m]
           c == r.channel
           after == SetMolecule(s, m, Done(r))
           kept == IF s.state[c] = "stopping" \/ DoneReturns(r)
                   THEN Delete(after, m) ELSE after
<1>1. s \in SequencerType /\ r \in MT /\ c \in Channels
  BY Fields, RecordFields DEF Sound
<1>2. CASE s.fault \/ r.phase \notin {"queued", "detached"}
                   \/ r.cur \notin DOMAIN r.atoms
  BY <1>2, FaultSound DEF CompletedLocked
<1>3. CASE ~(s.fault \/ r.phase \notin {"queued", "detached"}
                     \/ r.cur \notin DOMAIN r.atoms)
  <2>1. Done(r) \in MT /\ SamePlace(r, Done(r))
    BY <1>1, DoneProperties
  <2>2. Sound(after)
    BY <2>1, SetMoleculeSound
  <2>3. after.molecule[m].phase \in {"queued", "detached"}
    BY <1>1, <1>3, <2>1, SetMoleculeProperties DEF SamePlace
  <2> HIDE DEF after
  <2>4. Sound(Delete(after, m))
    BY <2>2, <2>3, DeleteSound
  <2>5. Sound(kept)
    BY <2>2, <2>4
  <2> HIDE DEF kept
  <2>6. Sound([kept EXCEPT !.state[c] = "idle"])
    BY <1>1, <2>5, SetStateSound DEF States
  <2>7. Sound(ActivityStart(kept, c, landed))
    BY <1>1, <2>5, ActivityStartSound
  <2>8. CompletedLocked(s, m, status, landed) \in
           {kept, [kept EXCEPT !.state[c] = "idle"], ActivityStart(kept, c, landed)}
    BY <1>3 DEF CompletedLocked, kept, after
  <2>. QED  BY <2>5, <2>6, <2>7, <2>8
<1>. QED  BY <1>2, <1>3

(* The fields that only say how far the call has got.                       *)
LEMMA SetFlagsSound ==
    ASSUME NEW s, Sound(s), NEW b \in BOOLEAN, NEW a \in BOOLEAN
    PROVE  /\ Sound([s EXCEPT !.deleted = b])
           /\ Sound([s EXCEPT !.closing = b])
           /\ Sound([s EXCEPT !.disconnecting = b])
           /\ Sound([s EXCEPT !.interface = b])
           /\ Sound([s EXCEPT !.media = b])
           /\ Sound([s EXCEPT !.conference = b])
           /\ Sound([s EXCEPT !.media = b, !.sentRdis = a])
           /\ Sound([s EXCEPT !.media = TRUE, !.callref = TRUE,
                              !.interface = TRUE])
<1>1. ASSUME NEW t \in SequencerType, t.list = s.list, t.molecule = s.molecule
      PROVE  Sound(t)
  BY <1>1, SamePlacesSound DEF SamePlaces, SamePlace
<1>2. Sound([s EXCEPT !.deleted = b])
  BY <1>1 DEF Sound, SequencerType
<1>3. Sound([s EXCEPT !.closing = b])
  BY <1>1 DEF Sound, SequencerType
<1>4. Sound([s EXCEPT !.disconnecting = b])
  BY <1>1 DEF Sound, SequencerType
<1>5. Sound([s EXCEPT !.interface = b])
  BY <1>1 DEF Sound, SequencerType
<1>6. Sound([s EXCEPT !.media = b])
  BY <1>1 DEF Sound, SequencerType
<1>7. Sound([s EXCEPT !.conference = b])
  BY <1>1 DEF Sound, SequencerType
<1>8. Sound([s EXCEPT !.media = b, !.sentRdis = a])
  BY <1>1 DEF Sound, SequencerType
<1>9. Sound([s EXCEPT !.media = TRUE, !.callref = TRUE, !.interface = TRUE])
  BY <1>1 DEF Sound, SequencerType
<1>. QED  BY <1>2, <1>3, <1>4, <1>5, <1>6, <1>7, <1>8, <1>9

(* The counter m_in_completed is independent of the playlists.              *)
LEMMA SetInCompletedSound ==
    ASSUME NEW s, Sound(s), NEW n \in Int
    PROVE  Sound([s EXCEPT !.inCompleted = n])
<1> DEFINE t == [s EXCEPT !.inCompleted = n]
<1>1. t \in SequencerType /\ t.list = s.list /\ t.molecule = s.molecule
  BY DEF Sound, SequencerType
<1>. QED  BY <1>1, SamePlacesSound DEF SamePlaces, SamePlace

(* The rest of completed(): answer, hang up, delete.                        *)
LEMMA CompletedRestSound ==
    ASSUME NEW s, Sound(s), NEW m \in Ids, NEW answer
    PROVE  Sound(CompletedRest(s, m, answer))
<1> DEFINE answered == IF answer THEN SendMLCA(s, m) ELSE s
           hungUp == IF HasTrunk /\ answered.disconnecting
                     THEN Hangup(answered) ELSE answered
<1>1. Sound(answered)
  BY SendReplySound
<1>2. Sound(hungUp)
  BY <1>1, HangupSound
<1>3. Sound(Fault(hungUp))
  BY <1>2, FaultSound
<1>4. Sound([Release(hungUp) EXCEPT !.deleted = TRUE])
  BY <1>2, ReleaseSound, SetFlagsSound
<1>5. CompletedRest(s, m, answer) \in
         {s, answered, hungUp, Fault(hungUp),
          [Release(hungUp) EXCEPT !.deleted = TRUE]}
  BY DEF CompletedRest
<1>. QED  BY <1>1, <1>2, <1>3, <1>4, <1>5

(* Both parts together, as checkCompleted() runs them.                      *)
LEMMA CompletedSound ==
    ASSUME NEW s, Sound(s), NEW m \in Ids, NEW status \in Statuses,
           NEW landed \in [Ids -> Nat]
    PROVE  Sound(Completed(s, m, status, landed))
  BY CompletedLockedSound, CompletedRestSound DEF Completed

(* checkCompleted() dequeues at most one completion and handles it.         *)
LEMMA CheckCompletedSound ==
    ASSUME NEW s, Sound(s), NEW landed \in [Ids -> Nat]
    PROVE  Sound(CheckCompleted(s, landed))
<1> DEFINE i == Head(s.completions)
           t == [s EXCEPT !.completions = Tail(@)]
<1>1. CASE s.fault \/ s.completions = << >>
  BY <1>1 DEF CheckCompleted
<1>2. CASE ~(s.fault \/ s.completions = << >>)
  <2>1. /\ i \in [molecule : Ids, status : Statuses]
        /\ Tail(s.completions) \in Seq([molecule : Ids, status : Statuses])
    BY <1>2, Fields, HeadTailProperties DEF Sound
  <2>2. Sound(t)
    BY <2>1, SetCompletionsSound
  <2>3. i.molecule \in Ids /\ i.status \in Statuses
    BY <2>1
  <2> HIDE DEF t, i
  <2>4. Sound(Completed(t, i.molecule, i.status, landed))
    BY <2>2, <2>3, CompletedSound
  <2>. QED  BY <1>2, <2>4 DEF CheckCompleted, t, i
<1>. QED  BY <1>1, <1>2

(* An object that is used after its end is well-formed to the last.         *)
LEMMA StillThereSound ==
    ASSUME NEW s, Sound(s)
    PROVE  Sound(StillThere(s))
  BY FaultSound DEF StillThere

(* A completion inside a completion is queued, any other is handled.        *)
LEMMA SampleCompletedSound ==
    ASSUME NEW s, Sound(s), NEW m \in Ids, NEW status \in Statuses,
           NEW landed \in [Ids -> Nat]
    PROVE  Sound(SampleCompleted(s, m, status, landed))
<1>1. Sound(Completed(s, m, status, landed))
  BY CompletedSound
<1>2. Sound(StillThere(Completed(s, m, status, landed)))
  BY <1>1, StillThereSound
<1>. QED  BY <1>2, AddCompletedSound, CheckCompletedSound DEF SampleCompleted

(****************************************************************************)
(*                         Stopping a molecule                              *)
(****************************************************************************)

(* stop() of an atom: a touchtone completes inside of it.                   *)
LEMMA AtomStopSound ==
    ASSUME NEW s, Sound(s), NEW m \in Ids, NEW status \in Statuses,
           NEW landed \in [Ids -> Nat],
           s.molecule[m].cur \in DOMAIN s.molecule[m].atoms
    PROVE  Sound(AtomStop(s, m, status, landed))
<1> DEFINE r == s.molecule[m]
           q == [r EXCEPT !.sample = "stopping", !.sstatus = status]
           i == [r EXCEPT !.sample = "idle"]
           aborted == SetMolecule(s, m, q)
           silent == SetMolecule(s, m, i)
<1>1. r \in MT
  BY Fields DEF Sound
<1>2. /\ q \in MT /\ SamePlace(r, q)
      /\ i \in MT /\ SamePlace(r, i)
  BY <1>1 DEF MT, MoleculeType, SamePlace, SampleStates
<1>3. Sound(aborted) /\ Sound(silent)
  BY <1>2, SetMoleculeSound
<1> HIDE DEF aborted, silent
<1>4. /\ Sound(SampleCompleted(aborted, m, status, landed))
      /\ Sound(AddCompleted(silent, m, status))
  BY <1>3, SampleCompletedSound, AddCompletedSound
<1>5. CurrentKind(r) \in Kinds
  BY <1>1, RecordFields, ElementOfSeq, LenProperties DEF CurrentKind
<1>6. AtomStop(s, m, status, landed) \in
         {s, aborted, SampleCompleted(aborted, m, status, landed),
          AddCompleted(silent, m, status)}
  BY <1>5 DEF AtomStop, aborted, silent, Kinds
<1>. QED  BY <1>3, <1>4, <1>6

(* Molecule::stop and Molecule::abort.                                      *)
LEMMA MoleculeStopSound ==
    ASSUME NEW s, Sound(s), NEW m \in Ids, NEW status \in Statuses,
           NEW landed \in [Ids -> Nat]
    PROVE  /\ Sound(MoleculeAbort(s, m, status, landed))
           /\ Sound(MoleculeStop(s, m, status, landed))
<1> DEFINE r == s.molecule[m]
           q == [r EXCEPT !.stopped = TRUE, !.status = status]
           stopped == SetMolecule(s, m, q)
<1>1. s \in SequencerType /\ r \in MT
  BY Fields DEF Sound
<1>2. q \in MT /\ SamePlace(r, q) /\ q.cur = r.cur /\ q.atoms = r.atoms
  BY <1>1 DEF MT, MoleculeType, SamePlace
<1> HIDE DEF q
<1>3. Sound(stopped) /\ stopped.molecule[m] = q
  BY <1>1, <1>2, SetMoleculeSound, SetMoleculeProperties
<1> HIDE DEF stopped
<1>4. r.cur \in DOMAIN r.atoms => Sound(AtomStop(stopped, m, status, landed))
  BY <1>2, <1>3, AtomStopSound
<1>5. Sound(MoleculeAbort(s, m, status, landed))
  BY <1>3, <1>4 DEF MoleculeAbort, stopped, q
<1>. QED  BY <1>5 DEF MoleculeStop

(****************************************************************************)
(*                              Activity                                    *)
(****************************************************************************)

(* The head of a list is a queued molecule of that channel.                 *)
LEMMA HeadProperties ==
    ASSUME NEW s, Sound(s), NEW c \in Channels, Head1(s, c) # NoId
    PROVE  /\ Head1(s, c) \in Ids
           /\ IsQueued(s, Head1(s, c))
           /\ s.molecule[Head1(s, c)].channel = c
<1>1. /\ s.list[c] \in Seq(Ids) /\ s.list[c] # << >>
      /\ Head1(s, c) = Head(s.list[c])
  BY Fields DEF Sound, Head1
<1>2. 1 \in DOMAIN s.list[c] /\ Head1(s, c) = s.list[c][1] /\ Head1(s, c) \in Ids
  BY <1>1, HeadTailProperties, EmptySeq, LenProperties
<1>. QED  BY <1>2 DEF Sound, LinkedIn

(* Activity::add of a molecule that is not in any list yet.                 *)
LEMMA ActivityAddSound ==
    ASSUME NEW s, Sound(s), NEW m \in Ids, NEW r \in MT,
           NEW landed \in [Ids -> Nat],
           s.molecule[m].phase = "new", r.phase = "queued"
    PROVE  Sound(ActivityAdd(s, m, r, landed))
<1> DEFINE c == r.channel
           old == Head1(s, c)
           added == Link(s, m, r)
           started == MoleculeStart(added, m, landed)
           x == IF Starts(added, m, landed) THEN "active" ELSE started.state[c]
<1>1. c \in Channels
  BY RecordFields
<1>2. Sound(added)
  BY LinkSound
<1> HIDE DEF added
<1>3. Sound(started)
  BY <1>2, MoleculeStartSound
<1> HIDE DEF started
<1>4. x \in States
  BY <1>1, <1>3, Fields DEF Sound, States
<1>5. Sound([started EXCEPT !.state[c] = x])
  <2> HIDE DEF x, c
  <2>. QED  BY <1>1, <1>3, <1>4, SetStateSound
<1>6. old # NoId => Sound(MoleculeStop(added, old, "stopped", landed))
  BY <1>1, <1>2, HeadProperties, MoleculeStopSound DEF Statuses
<1>7. CASE old = NoId
  <2>1. ActivityAdd(s, m, r, landed) = [started EXCEPT !.state[c] = x]
    BY <1>7 DEF ActivityAdd, started, added
  <2>. QED  BY <1>5, <2>1
<1>8. CASE old # NoId
  <2>1. ActivityAdd(s, m, r, landed) \in
           {MoleculeStop(added, old, "stopped", landed), added}
    BY <1>8 DEF ActivityAdd, added
  <2>. QED  BY <1>2, <1>6, <1>8, <2>1
<1>. QED  BY <1>7, <1>8

(* Activity::remove stops an active molecule and deletes any other.         *)
LEMMA ActivityRemoveSound ==
    ASSUME NEW s, Sound(s), NEW m \in Ids, NEW landed \in [Ids -> Nat],
           s.molecule[m].phase \in {"queued", "detached"}
    PROVE  Sound(ActivityRemove(s, m, landed))
  BY DeleteSound, MoleculeStopSound DEF ActivityRemove, Statuses

(* Activity::stop of a channel.                                             *)
LEMMA ActivityStopSound ==
    ASSUME NEW s, Sound(s), NEW c \in Channels, NEW status \in Statuses,
           NEW landed \in [Ids -> Nat]
    PROVE  Sound(ActivityStop(s, c, status, landed))
<1> DEFINE h == Head1(s, c)
           stopping == [s EXCEPT !.state[c] = "stopping"]
           asked == MoleculeStop(stopping, h, status, landed)
<1>1. Sound(stopping)
  BY SetStateSound DEF States
<1> HIDE DEF stopping
<1>2. CASE h = NoId
  BY <1>1, <1>2 DEF ActivityStop, stopping
<1>3. CASE h # NoId
  <2>1. Sound(asked)
    BY <1>1, <1>3, HeadProperties, MoleculeStopSound
  <2> HIDE DEF asked
  <2>2. Sound([asked EXCEPT !.state[c] = "idle"])
    BY <2>1, SetStateSound DEF States
  <2>3. ActivityStop(s, c, status, landed) \in
           {asked, [asked EXCEPT !.state[c] = "idle"]}
    BY <1>3 DEF ActivityStop, asked, stopping
  <2>. QED  BY <2>1, <2>2, <2>3
<1>. QED  BY <1>2, <1>3

(* Activity::abort: the stop, then the unlinking of the next molecule.      *)
LEMMA ActivityAbortSound ==
    ASSUME NEW s, Sound(s), NEW c \in Channels, NEW status \in Statuses,
           NEW landed \in [Ids -> Nat]
    PROVE  Sound(ActivityAbort(s, c, status, landed))
<1> DEFINE h == Head1(s, c)
           stopping == [s EXCEPT !.state[c] = "stopping"]
           asked == MoleculeAbort(stopping, h, status, landed)
           short == UnlinkAfter(asked, c, Head1(asked, c))
<1>1. Sound(stopping)
  BY SetStateSound DEF States
<1> HIDE DEF stopping
<1>2. CASE h = NoId
  BY <1>1, <1>2 DEF ActivityAbort, stopping
<1>3. CASE h # NoId
  <2>1. Sound(asked)
    BY <1>1, <1>3, HeadProperties, MoleculeStopSound
  <2> HIDE DEF asked
  <2>2. Sound(Fault(asked))
    BY <2>1, FaultSound
  <2>3. CASE asked.fault \/ Head1(asked, c) = NoId
    BY <1>3, <2>2, <2>3 DEF ActivityAbort, asked, stopping
  <2>4. CASE ~(asked.fault \/ Head1(asked, c) = NoId)
    <3>1. /\ Head1(asked, c) \in Ids /\ IsQueued(asked, Head1(asked, c))
          /\ asked.molecule[Head1(asked, c)].channel = c
      BY <2>1, <2>4, HeadProperties
    <3>2. Sound(short)
      BY <2>1, <3>1, UnlinkAfterSound
    <3> HIDE DEF short
    <3>3. Sound([short EXCEPT !.state[c] = "idle"])
      BY <3>2, SetStateSound DEF States
    <3>4. ActivityAbort(s, c, status, landed) \in
             {short, [short EXCEPT !.state[c] = "idle"]}
      BY <1>3, <2>4 DEF ActivityAbort, asked, stopping, short
    <3>. QED  BY <3>2, <3>3, <3>4
  <2>. QED  BY <2>3, <2>4
<1>. QED  BY <1>2, <1>3

(* Activity::DTMF is a stop or nothing.                                     *)
LEMMA ActivityDTMFSound ==
    ASSUME NEW s, Sound(s), NEW c \in Channels, NEW landed \in [Ids -> Nat]
    PROVE  Sound(ActivityDTMF(s, c, landed))
  BY ActivityStopSound DEF ActivityDTMF, Statuses

(* disconnect()'s loop over the channels.                                   *)
LEMMA StopAllSound ==
    ASSUME NEW s, Sound(s), NEW landed \in [Ids -> Nat]
    PROVE  Sound(StopAll(s, landed))
<1>1. ASSUME NEW t, Sound(t), NEW c \in Channels
      PROVE  Sound(StopPlaying(t, c, landed))
  BY <1>1, ActivityStopSound DEF StopPlaying, Statuses
<1>2. 0 \in Channels /\ 1 \in Channels
  BY DEF Channels
<1>. QED  BY <1>1, <1>2 DEF StopAll

(* The loop of close() and disconnectRequest() over the channels.           *)
LEMMA AbortAllSound ==
    ASSUME NEW s, Sound(s), NEW status \in Statuses, NEW landed \in [Ids -> Nat]
    PROVE  Sound(AbortAll(s, status, landed))
<1>1. ASSUME NEW t, Sound(t), NEW c \in Channels
      PROVE  Sound(AbortPlaying(t, c, status, landed))
  BY <1>1, ActivityAbortSound DEF AbortPlaying
<1>2. 0 \in Channels /\ 1 \in Channels
  BY DEF Channels
<1>. QED  BY <1>1, <1>2 DEF AbortAll

(****************************************************************************)
(*                             The threads                                  *)
(****************************************************************************)

SweepType == [todo : Seq(Ids), from : Nat, to : Nat, immediately : BOOLEAN]

(* A thread that completes a molecule knows which; MLCD() and on_timer()    *)
(* know what they came for until they have left.                            *)
ThreadWell(t, r) ==
    /\ r \in ThreadType
    /\ r.pc \in {"locking", "answering"} => r.molecule \in Ids
    /\ t # "media" /\ r.pc # "idle" => r.own \in Ids

(* The inductive invariant: the playlists are sound, what MLCA is about to  *)
(* add is a queued molecule, and a thread that is inside of completed() or  *)
(* MLCD() is there on behalf of a molecule.                                 *)
IInv ==
    /\ Sound(seq)
    /\ client \in ClientType
    /\ client.pc = "adding" => client.request.phase = "queued"
    /\ thread = [t \in Threads |-> thread[t]]
    /\ \A t \in Threads : ThreadWell(t, thread[t])
    /\ sweep \in SweepType
    /\ overtaken \in BOOLEAN

(* Every outcome of setPos() is an atom index or none.                      *)
LEMMA LandingsType ==
    ASSUME NEW landed \in Landings
    PROVE  landed \in [Ids -> Nat]
  BY MaxAtomsAssumption DEF Landings

(* Priorities are naturals, by the assumption on the offers.                *)
LEMMA PrioritiesType == Priorities \subseteq Nat
  BY OffersAssumption DEF Priorities

(* A thread outside of the sequencer.                                       *)
LEMMA IdleType == Idle \in ThreadType /\ Idle.pc = "idle"
  BY DEF Idle, ThreadType, Statuses, Places

(* It is well wherever it belongs.                                          *)
LEMMA IdleWell == \A t \in Threads : ThreadWell(t, Idle)
  BY IdleType DEF ThreadWell

(* A molecule that nobody has asked for yet.                                *)
LEMMA UnusedType == UnusedMolecule(NoId) \in MT
<1> DEFINE r == NewMolecule(0, 0, {}, << >>, NoId)
<1>1. r \in MT
  BY DEF NewMolecule, MT, MoleculeType, Phases, Statuses, SampleStates
<1> HIDE DEF r
<1>2. [r EXCEPT !.phase = "new"] \in MT
  BY <1>1 DEF MT, MoleculeType, Phases
<1>. QED  BY <1>2 DEF UnusedMolecule, r

(* Between commands the interface thread holds nothing.                     *)
LEMMA NoRequestType == NoRequest \in ClientType /\ NoRequest.pc = "idle"
  BY UnusedType DEF NoRequest, ClientType, MT

(* A request becomes a queued molecule.                                     *)
LEMMA NewMoleculeType ==
    ASSUME NEW o \in Offers
    PROVE  LET r == NewMolecule(o.channel, o.priority, o.mode, o.atoms, NoId)
               g == [r EXCEPT !.phase = "gone"]
           IN /\ r \in MT /\ r.phase = "queued"
              /\ g \in MT /\ g.phase = "gone"
<1>1. /\ o.channel \in Channels /\ o.priority \in Nat
      /\ o.mode \in SUBSET Flags /\ o.atoms \in Seq(Kinds)
  BY OffersAssumption
<1>. QED  BY <1>1 DEF NewMolecule, MT, MoleculeType, Channels, Phases, Statuses,
                      SampleStates

(* A thread that carries on finds the sequencer or a fault.                 *)
LEMMA CarriesOnSound ==
    ASSUME IInv, NEW t, Sound(t)
    PROVE  Sound(CarriesOn(t))
  BY FaultSound DEF CarriesOn, IInv

(* A step that only touches the sequencer and says so.                      *)
LEMMA SequencerStep ==
    ASSUME IInv, Sound(seq'), UNCHANGED <<client, thread, sweep, overtaken>>
    PROVE  IInv'
  BY DEF IInv, ThreadWell

(* A step of one thread that touches the sequencer and its own place.       *)
LEMMA ThreadStep ==
    ASSUME IInv, NEW t \in Threads, NEW r, Sound(seq'), Sets(t, r),
           ThreadWell(t, r), UNCHANGED <<client, sweep, overtaken>>
    PROVE  IInv'
<1>1. /\ thread' = [u \in Threads |-> thread'[u]]
      /\ \A u \in Threads : thread'[u] = IF u = t THEN r ELSE thread[u]
  BY DEF IInv, Sets
<1>2. \A u \in Threads : ThreadWell(u, thread'[u])
  BY <1>1 DEF IInv
<1>. QED  BY <1>1, <1>2 DEF IInv, ThreadWell

(* A refused request leaves the playlists alone.                            *)
LEMMA RefuseSound ==
    ASSUME NEW s, Sound(s), NEW m \in Ids, NEW r \in MT,
           s.molecule[m].phase = "new", r.phase = "gone"
    PROVE  Sound(SetMolecule(s, m, r))
<1> DEFINE t == SetMolecule(s, m, r)
<1>1. /\ t \in SequencerType /\ t.list = s.list /\ t.molecule[m] = r
      /\ \A i \in Ids \ {m} : t.molecule[i] = s.molecule[i]
  BY SetMoleculeProperties DEF Sound
<1> HIDE DEF t
<1>2. \A c \in Channels : \A j \in DOMAIN s.list[c] :
         s.list[c][j] \in Ids \ {m}
  BY Fields, LenProperties, ElementOfSeq DEF Sound, LinkedIn, IsQueued
<1>3. LinkedIn(t)
  <2>1. \A c \in Channels : \A i, j \in DOMAIN t.list[c] :
           t.list[c][i] = t.list[c][j] => i = j
    BY <1>1 DEF Sound, LinkedIn
  <2>2. \A c \in Channels : \A i \in DOMAIN t.list[c] :
           IsQueued(t, t.list[c][i]) /\ t.molecule[t.list[c][i]].channel = c
    BY <1>1, <1>2 DEF Sound, LinkedIn, IsQueued
  <2>3. \A i \in Ids : IsQueued(t, i) => InList(t, i)
    BY <1>1 DEF Sound, LinkedIn, IsQueued, InList
  <2>. QED  BY <2>1, <2>2, <2>3 DEF LinkedIn
<1>4. SortedIn(t)
  BY <1>1, <1>2 DEF Sound, SortedIn
<1>5. DetachedIn(t)
  BY <1>1 DEF Sound, DetachedIn
<1>. QED  BY <1>1, <1>3, <1>4, <1>5 DEF Sound, t

(* A new sequencer has empty playlists.                                     *)
LEMMA InitInvariant == Init => IInv
<1> SUFFICES ASSUME Init PROVE IInv
  OBVIOUS
<1>1. seq \in SequencerType
  <2> DEFINE E == [c \in Channels |-> << >>]
             S == [c \in Channels |-> "idle"]
             M == [i \in Ids |-> UnusedMolecule(NoId)]
             A == [i \in Ids |-> 0]
  <2>2. << >> \in Seq(Ids) /\ << >> \in Seq([molecule : Ids, status : Statuses])
    OBVIOUS
  <2>3. /\ E \in [Channels -> Seq(Ids)] /\ S \in [Channels -> States]
        /\ M \in [Ids -> MT] /\ A \in [Ids -> Nat]
    BY UnusedType, <2>2 DEF States
  <2> HIDE DEF E, S, M, A
  <2>4. seq = [list |-> E, state |-> S, molecule |-> M, completions |-> << >>,
               answers |-> A, inCompleted |-> 0, media |-> TRUE,
               interface |-> TRUE, callref |-> HasTrunk,
               disconnecting |-> FALSE, sentRdis |-> FALSE, closing |-> FALSE,
               deleted |-> FALSE, hangups |-> 0, conference |-> TRUE,
               fault |-> FALSE]
    BY DEF Init, E, S, M, A
  <2>. QED  BY <2>2, <2>3, <2>4, TrunkAssumption DEF SequencerType, MT
<1>2. /\ \A c \in Channels : seq.list[c] = << >>
      /\ \A i \in Ids : seq.molecule[i].phase = "new"
  BY DEF Init, UnusedMolecule, NewMolecule
<1>3. LinkedIn(seq) /\ SortedIn(seq) /\ DetachedIn(seq)
  BY <1>2 DEF LinkedIn, SortedIn, DetachedIn, IsQueued
<1>4. sweep \in SweepType
  BY DEF Init, NoSweep, SweepType
<1>5. /\ thread = [t \in Threads |-> thread[t]]
      /\ \A t \in Threads : ThreadWell(t, thread[t])
  BY IdleWell DEF Init
<1>. QED  BY <1>1, <1>3, <1>4, <1>5, NoRequestType DEF Init, IInv, Sound

----------------------------------------------------------------------------
(*                       What every thread does                             *)

(* completed() returns to its caller, which still knows what it came for.   *)
LEMMA ReturnedWell ==
    ASSUME NEW t \in Threads, ThreadWell(t, thread[t]), thread[t].pc # "idle"
    PROVE  ThreadWell(t, Returned(t))
<1> DEFINE r == thread[t]
<1>1. CASE r.rest = << >>
  BY <1>1, IdleWell DEF Returned
<1>2. CASE r.rest # << >>
  <2>1. /\ r \in ThreadType /\ r.rest \in Seq(Callers)
        /\ t # "media" => r.own \in Ids
    BY DEF ThreadWell, ThreadType
  <2>2. Head(r.rest) \in Callers /\ Tail(r.rest) \in Seq(Callers)
    BY <1>2, <2>1, HeadTailProperties
  <2> DEFINE h == Head(r.rest)
             q == Tail(r.rest)
  <2>3. Returned(t) = [r EXCEPT !.pc = h, !.rest = q, !.molecule = NoId,
                                !.status = "ok", !.answer = FALSE]
    BY <1>2 DEF Returned
  <2> HIDE DEF h, q, r
  <2>4. h \in Callers /\ q \in Seq(Callers)
    BY <2>2 DEF h, q
  <2>5. Returned(t) \in ThreadType /\ Returned(t).pc = h
        /\ Returned(t).own = r.own
    BY <2>1, <2>3, <2>4 DEF ThreadType, Places, Callers, Statuses
  <2>. QED  BY <2>1, <2>4, <2>5 DEF ThreadWell, Callers
<1>. QED  BY <1>1, <1>2

(* Going on to another place that has no molecule of its own.               *)
LEMMA GoesWell ==
    ASSUME NEW t \in Threads, ThreadWell(t, thread[t]), thread[t].pc # "idle",
           NEW place \in Places \ {"idle", "locking", "answering"}
    PROVE  /\ ThreadWell(t, [thread[t] EXCEPT !.pc = place])
           /\ ThreadWell(t, [thread[t] EXCEPT !.pc = place, !.molecule = NoId,
                                              !.answer = FALSE])
<1> DEFINE r == thread[t]
           a == [r EXCEPT !.pc = place]
           b == [r EXCEPT !.pc = place, !.molecule = NoId, !.answer = FALSE]
<1>1. r \in ThreadType /\ (t # "media" => r.own \in Ids)
  BY DEF ThreadWell
<1> HIDE DEF r
<1>2. /\ a \in ThreadType /\ a.pc = place /\ a.own = r.own
      /\ b \in ThreadType /\ b.pc = place /\ b.own = r.own
  BY <1>1 DEF ThreadType
<1> HIDE DEF a, b
<1>3. ThreadWell(t, a) /\ ThreadWell(t, b)
  BY <1>1, <1>2 DEF ThreadWell
<1>. QED  BY <1>3 DEF a, b, r

(* Going on to the lock with a molecule.                                    *)
LEMMA LockingWell ==
    ASSUME NEW t \in Threads, NEW r, r \in ThreadType,
           t # "media" => r.own \in Ids,
           NEW m \in Ids, NEW status \in Statuses, NEW rest \in Seq(Callers)
    PROVE  /\ ThreadWell(t, [r EXCEPT !.pc = "locking", !.molecule = m,
                                      !.status = status])
           /\ ThreadWell(t, [r EXCEPT !.pc = "locking", !.rest = rest,
                                      !.molecule = m, !.status = status])
           /\ ThreadWell(t, [r EXCEPT !.pc = "leaving", !.rest = rest])
<1> DEFINE a == [r EXCEPT !.pc = "locking", !.molecule = m, !.status = status]
           b == [r EXCEPT !.pc = "locking", !.rest = rest, !.molecule = m,
                          !.status = status]
           l == [r EXCEPT !.pc = "leaving", !.rest = rest]
<1>1. /\ a \in ThreadType /\ a.pc = "locking" /\ a.molecule = m /\ a.own = r.own
      /\ b \in ThreadType /\ b.pc = "locking" /\ b.molecule = m /\ b.own = r.own
      /\ l \in ThreadType /\ l.pc = "leaving" /\ l.own = r.own
  BY DEF ThreadType, Places
<1> HIDE DEF a, b, l
<1>2. ThreadWell(t, a) /\ ThreadWell(t, b) /\ ThreadWell(t, l)
  BY <1>1 DEF ThreadWell
<1>. QED  BY <1>2 DEF a, b, l

(* Whether a completion answers its MLCA is a Boolean.                      *)
LEMMA AnswersType ==
    ASSUME NEW s, NEW m, NEW status
    PROVE  Answers(s, m, status) \in BOOLEAN
  BY DEF Answers

(* The critical section of completed().                                     *)
LEMMA CompletesSound ==
    ASSUME IInv, NEW t \in Threads, NEW landed \in Landings,
           Completes(t, landed)
    PROVE  IInv'
<1> DEFINE r == thread[t]
           a == Answers(seq, r.molecule, r.status)
           q == [r EXCEPT !.pc = "answering", !.status = "ok", !.answer = a]
           u == CompletedLocked(seq, r.molecule, r.status, landed)
<1>1. /\ landed \in [Ids -> Nat] /\ Sound(seq)
      /\ r \in ThreadType /\ r.molecule \in Ids /\ r.status \in Statuses
      /\ t # "media" => r.own \in Ids
  BY LandingsType DEF IInv, ThreadWell, Completes, ThreadType
<1>2. /\ seq' = CarriesOn(u) /\ Sets(t, q)
      /\ UNCHANGED <<client, sweep, overtaken>>
  BY DEF Completes
<1>3. Sound(u)
  BY <1>1, CompletedLockedSound
<1>4. a \in BOOLEAN
  BY AnswersType
<1> HIDE DEF u, a, r
<1>5. /\ q \in ThreadType /\ q.pc = "answering" /\ q.molecule = r.molecule
      /\ q.own = r.own
  BY <1>1, <1>4 DEF ThreadType, Places, Statuses
<1> HIDE DEF q
<1>6. ThreadWell(t, q)
  BY <1>1, <1>5 DEF ThreadWell
<1>. QED  BY <1>2, <1>3, <1>6, CarriesOnSound, ThreadStep

(* What follows without the lock, and the way back to the caller.           *)
LEMMA InsideSound ==
    ASSUME IInv, NEW t \in Threads, Inside(t)
    PROVE  IInv'
<1>1. Sound(seq) /\ ThreadWell(t, thread[t])
  BY DEF IInv
<1>2. ASSUME thread[t].pc # "idle"
      PROVE  /\ ThreadWell(t, Returned(t))
             /\ \A place \in Places \ {"idle", "locking", "answering"} :
                   /\ ThreadWell(t, [thread[t] EXCEPT !.pc = place])
                   /\ ThreadWell(t, [thread[t] EXCEPT !.pc = place,
                                        !.molecule = NoId, !.answer = FALSE])
  BY <1>1, <1>2, ReturnedWell, GoesWell
<1>3. CASE \E landed \in Landings : Completes(t, landed)
  BY <1>3, CompletesSound
<1>4. CASE AnswersMLCA(t)
  <2> DEFINE u == IF thread[t].answer THEN SendMLCA(seq, thread[t].molecule) ELSE seq
             q == IF seq.state[0] # "idle" THEN Returned(t)
                  ELSE [thread[t] EXCEPT !.pc = "looking", !.molecule = NoId,
                                         !.answer = FALSE]
  <2>1. thread[t].pc = "answering" /\ thread[t].molecule \in Ids
    BY <1>1, <1>4 DEF AnswersMLCA, ThreadWell
  <2>2. Sound(u)
    BY <1>1, <2>1, SendReplySound
  <2>3. seq' = CarriesOn(u) /\ Sets(t, q) /\ UNCHANGED <<client, sweep, overtaken>>
    BY <1>4 DEF AnswersMLCA
  <2>4. ThreadWell(t, q)
    BY <1>2, <2>1 DEF Places
  <2> HIDE DEF u, q
  <2>. QED  BY <2>2, <2>3, <2>4, CarriesOnSound, ThreadStep
<1>5. CASE Looks(t)
  <2> DEFINE place == IF HasTrunk THEN "deciding" ELSE "closing"
             q == IF seq.state[1] # "idle" THEN Returned(t)
                  ELSE [thread[t] EXCEPT !.pc = place]
  <2>1. /\ thread[t].pc = "looking" /\ seq' = CarriesOn(seq) /\ Sets(t, q)
        /\ UNCHANGED <<client, sweep, overtaken>>
    BY <1>5 DEF Looks
  <2>2. place \in Places \ {"idle", "locking", "answering"}
    BY DEF Places
  <2> HIDE DEF place
  <2>3. ThreadWell(t, q)
    BY <1>2, <2>1, <2>2
  <2> HIDE DEF q
  <2>. QED  BY <1>1, <2>1, <2>3, CarriesOnSound, ThreadStep
<1>6. CASE Decides(t)
  <2> DEFINE place == IF seq.disconnecting THEN "hanging" ELSE "closing"
             q == [thread[t] EXCEPT !.pc = place]
  <2>1. /\ thread[t].pc = "deciding" /\ seq' = CarriesOn(seq) /\ Sets(t, q)
        /\ UNCHANGED <<client, sweep, overtaken>>
    BY <1>6 DEF Decides
  <2>2. place \in Places \ {"idle", "locking", "answering"}
    BY DEF Places
  <2> HIDE DEF place
  <2>3. ThreadWell(t, q)
    BY <1>2, <2>1, <2>2
  <2> HIDE DEF q
  <2>. QED  BY <1>1, <2>1, <2>3, CarriesOnSound, ThreadStep
<1>7. CASE HangsUp(t)
  <2> DEFINE u == IF seq.disconnecting THEN Hangup(seq) ELSE seq
             q == [thread[t] EXCEPT !.pc = "closing"]
  <2>1. /\ thread[t].pc = "hanging" /\ seq' = CarriesOn(u) /\ Sets(t, q)
        /\ UNCHANGED <<client, sweep, overtaken>>
    BY <1>7 DEF HangsUp
  <2>2. Sound(u)
    BY <1>1, HangupSound
  <2>3. ThreadWell(t, q)
    BY <1>2, <2>1 DEF Places
  <2> HIDE DEF u, q
  <2>. QED  BY <2>1, <2>2, <2>3, CarriesOnSound, ThreadStep
<1>8. CASE ClosesAtLast(t)
  <2> DEFINE u == IF seq.closing
                  THEN [Release(seq) EXCEPT !.deleted = TRUE] ELSE seq
  <2>1. /\ thread[t].pc = "closing" /\ seq' = CarriesOn(u) /\ Sets(t, Returned(t))
        /\ UNCHANGED <<client, sweep, overtaken>>
    BY <1>8 DEF ClosesAtLast
  <2>2. Sound(u)
    BY <1>1, ReleaseSound, SetFlagsSound
  <2> HIDE DEF u
  <2>. QED  BY <1>2, <2>1, <2>2, CarriesOnSound, ThreadStep
<1>9. CASE Leaves(t)
  <2> DEFINE n == seq.inCompleted - 1
             u == [seq EXCEPT !.inCompleted = n]
             q == IF seq.inCompleted = 1 THEN [thread[t] EXCEPT !.pc = "checking"]
                  ELSE Returned(t)
  <2>1. /\ thread[t].pc = "leaving" /\ seq' = CarriesOn(u) /\ Sets(t, q)
        /\ UNCHANGED <<client, sweep, overtaken>>
    BY <1>9 DEF Leaves
  <2>2. n \in Int
    BY <1>1 DEF Sound, SequencerType
  <2> HIDE DEF n
  <2>3. Sound(u)
    BY <1>1, <2>2, SetInCompletedSound
  <2>4. ThreadWell(t, q)
    BY <1>2, <2>1 DEF Places
  <2> HIDE DEF u, q
  <2>. QED  BY <2>1, <2>3, <2>4, CarriesOnSound, ThreadStep
<1>10. CASE Checks(t)
  <2>1. thread[t].pc = "checking" /\ UNCHANGED <<client, sweep, overtaken>>
    BY <1>10 DEF Checks
  <2>2. CASE seq.completions = << >>
    <3>1. seq' = CarriesOn(seq) /\ Sets(t, Returned(t))
      BY <1>10, <2>2 DEF Checks
    <3>. QED  BY <1>1, <1>2, <2>1, <3>1, CarriesOnSound, ThreadStep
  <2>3. CASE seq.completions # << >>
    <3> DEFINE i == Head(seq.completions)
               m == i.molecule
               x == i.status
               u == [seq EXCEPT !.completions = Tail(@)]
               q == [thread[t] EXCEPT !.pc = "locking", !.molecule = m,
                                      !.status = x]
    <3>1. seq' = CarriesOn(u) /\ Sets(t, q)
      BY <1>10, <2>3 DEF Checks
    <3>2. /\ i \in [molecule : Ids, status : Statuses]
          /\ Tail(seq.completions) \in Seq([molecule : Ids, status : Statuses])
      BY <1>1, <2>3, Fields, HeadTailProperties DEF Sound
    <3>3. Sound(u)
      BY <1>1, <3>2, SetCompletionsSound
    <3>4. m \in Ids /\ x \in Statuses
      BY <3>2
    <3> HIDE DEF i, m, x, u
    <3>5. thread[t] \in ThreadType /\ (t # "media" => thread[t].own \in Ids)
      BY <1>1, <2>1 DEF ThreadWell
    <3>6. << >> \in Seq(Callers)
      OBVIOUS
    <3>7. ThreadWell(t, q)
      BY <3>4, <3>5, <3>6, LockingWell
    <3> HIDE DEF q
    <3>. QED  BY <2>1, <3>1, <3>3, <3>7, CarriesOnSound, ThreadStep
  <2>. QED  BY <2>2, <2>3
<1>. QED  BY <1>3, <1>4, <1>5, <1>6, <1>7, <1>8, <1>9, <1>10 DEF Inside

(* Entering completed(Sample) for the end of a sample of m.                 *)
LEMMA EntersSound ==
    ASSUME NEW s, Sound(s), NEW m \in Ids, NEW status \in Statuses
    PROVE  Sound(Enters(s, m, status))
<1> DEFINE n == s.inCompleted + 1
           u == [s EXCEPT !.inCompleted = n]
<1>1. n \in Int
  BY DEF Sound, SequencerType
<1> HIDE DEF n
<1>2. Sound(u)
  BY <1>1, SetInCompletedSound
<1> HIDE DEF u
<1>3. Sound(AddCompleted(u, m, status))
  BY <1>2, AddCompletedSound
<1>. QED  BY <1>2, <1>3 DEF Enters, u, n

(* Either to the lock or, if another thread is inside, on to leaving.       *)
LEMMA EnteredWell ==
    ASSUME NEW t \in Threads, thread[t] \in ThreadType,
           t # "media" => thread[t].own \in Ids,
           NEW m \in Ids, NEW status \in Statuses, NEW rest \in Seq(Callers)
    PROVE  ThreadWell(t, Entered(t, m, status, rest))
<1> DEFINE more == <<"leaving">> \o rest
<1>1. <<"leaving">> \in Seq(Callers)
  BY DEF Callers
<1>2. more \in Seq(Callers)
  BY <1>1, ConcatProperties
<1> DEFINE w == thread[t]
<1>3. Entered(t, m, status, rest) =
         IF seq.inCompleted > 0 THEN [w EXCEPT !.pc = "leaving", !.rest = rest]
         ELSE [w EXCEPT !.pc = "locking", !.rest = more, !.molecule = m,
                        !.status = status]
  BY DEF Entered
<1>4. w \in ThreadType /\ (t # "media" => w.own \in Ids)
  OBVIOUS
<1> HIDE DEF more, w
<1>5. /\ ThreadWell(t, [w EXCEPT !.pc = "leaving", !.rest = rest])
      /\ ThreadWell(t, [w EXCEPT !.pc = "locking", !.rest = more, !.molecule = m,
                                 !.status = status])
  BY <1>2, <1>4, LockingWell
<1>. QED  BY <1>3, <1>5

----------------------------------------------------------------------------
(*                        The interface thread                              *)

(* MLCA: refused and deleted, or on its way to the lock.                    *)
LEMMA MLCASound ==
    ASSUME IInv, NEW m \in Ids, NEW o \in Offers, MLCA(m, o)
    PROVE  IInv'
<1> DEFINE r == NewMolecule(o.channel, o.priority, o.mode, o.atoms, NoId)
           g == [r EXCEPT !.phase = "gone"]
           refused == SetMolecule(seq, m, g)
<1>1. Sound(seq) /\ seq.molecule[m].phase = "new"
  BY DEF MLCA, IInv
<1>2. r \in MT /\ r.phase = "queued" /\ g \in MT /\ g.phase = "gone"
  BY NewMoleculeType
<1> HIDE DEF r, g
<1>3. CASE Refuses(seq)
  <2>1. Sound(refused)
    BY <1>1, <1>2, RefuseSound
  <2> HIDE DEF refused
  <2>2. Sound(SendMLCA(refused, m))
    BY <2>1, SendReplySound
  <2>3. Sound(seq') /\ UNCHANGED <<client, thread, sweep, overtaken>>
    BY <1>3, <2>2 DEF MLCA, refused, r, g
  <2>. QED  BY <2>3, SequencerStep
<1>4. CASE ~Refuses(seq)
  <2>1. client' = [NoRequest EXCEPT !.pc = "adding", !.request = r]
        /\ UNCHANGED seq
    BY <1>4 DEF MLCA, r
  <2>2. /\ client' \in ClientType /\ client'.pc = "adding"
        /\ client'.request.phase = "queued"
    BY <1>2, <2>1, NoRequestType DEF ClientType, MT
  <2>. QED  BY <2>1, <2>2 DEF MLCA, IInv, ThreadWell
<1>. QED  BY <1>3, <1>4

(* A step of the interface thread that touches the sequencer and ends its   *)
(* request.                                                                 *)
LEMMA RequestStep ==
    ASSUME IInv, Sound(seq'), client' \in ClientType, client'.pc # "adding",
           overtaken' \in BOOLEAN, UNCHANGED <<thread, sweep>>
    PROVE  IInv'
  BY DEF IInv, ThreadWell

(* MLCA that finds an atom it cannot play drops the molecule.               *)
LEMMA MLCAFailsSound ==
    ASSUME IInv, NEW m \in Ids, MLCAFails(m)
    PROVE  IInv'
<1> DEFINE r == client.request
           g == [r EXCEPT !.phase = "gone"]
           u == SendMLCA(SetMolecule(seq, m, g), m)
<1>1. /\ Sound(seq) /\ seq.molecule[m].phase = "new"
      /\ r \in MT /\ overtaken \in BOOLEAN
  BY DEF MLCAFails, IInv, ClientType, MT
<1>2. g \in MT /\ g.phase = "gone"
  BY <1>1 DEF MT, MoleculeType, Phases
<1>3. Sound(SetMolecule(seq, m, g))
  BY <1>1, <1>2, RefuseSound
<1>4. Sound(u)
  BY <1>3, SendReplySound
<1>5. /\ seq' = CarriesOn(u) /\ client' = NoRequest
      /\ UNCHANGED <<thread, sweep, overtaken>>
  BY DEF MLCAFails
<1> HIDE DEF u
<1>. QED  BY <1>1, <1>4, <1>5, CarriesOnSound, NoRequestType, RequestStep

(* MLCA with the lock: the molecule is added, or dropped for want of media. *)
LEMMA MLCAAddsSound ==
    ASSUME IInv, NEW m \in Ids, NEW landed \in Landings, MLCAAdds(m, landed)
    PROVE  IInv'
<1> DEFINE r == client.request
           g == [r EXCEPT !.phase = "gone"]
<1>1. /\ landed \in [Ids -> Nat] /\ Sound(seq)
      /\ seq.molecule[m].phase = "new"
  BY LandingsType DEF MLCAAdds, IInv
<1>2. r \in MT /\ r.phase = "queued"
  BY DEF MLCAAdds, IInv, ClientType, MT
<1>3. g \in MT /\ g.phase = "gone"
  BY <1>2 DEF MT, MoleculeType, Phases
<1>4. Sound(SetMolecule(seq, m, g))
  BY <1>1, <1>3, RefuseSound
<1>5. Sound(ActivityAdd(seq, m, r, landed))
  BY <1>1, <1>2, ActivityAddSound
<1>6. Sound(CheckCompleted(ActivityAdd(seq, m, r, landed), landed))
  BY <1>1, <1>5, CheckCompletedSound
<1> DEFINE t == IF seq.media
                THEN CheckCompleted(ActivityAdd(seq, m, r, landed), landed)
                ELSE SetMolecule(seq, m, g)
<1>7. Sound(t)
  BY <1>4, <1>6
<1>8. /\ seq' = CarriesOn(t) /\ client' = NoRequest
      /\ overtaken' = (overtaken \/ Overtakes) /\ UNCHANGED <<thread, sweep>>
  BY DEF MLCAAdds
<1> HIDE DEF t
<1>9. overtaken' \in BOOLEAN
  BY <1>8
<1>. QED  BY <1>7, <1>8, <1>9, CarriesOnSound, NoRequestType, RequestStep

(* Setting the mode of a molecule to discard.                               *)
LEMMA DiscardedSound ==
    ASSUME NEW s, Sound(s), NEW m \in Ids
    PROVE  Sound(SetMolecule(s, m, [s.molecule[m] EXCEPT !.mode = {"discard"}]))
<1> DEFINE r == s.molecule[m]
           q == [r EXCEPT !.mode = {"discard"}]
<1>1. r \in MT
  BY Fields DEF Sound
<1>2. q \in MT /\ SamePlace(r, q)
  BY <1>1 DEF MT, MoleculeType, SamePlace, Flags
<1>. QED  BY <1>2, SetMoleculeSound

(* Discarding what plays: the mode changes, then it is stopped.             *)
LEMMA DiscardActiveSound ==
    ASSUME NEW s, Sound(s), NEW m \in Ids, NEW landed \in [Ids -> Nat]
    PROVE  Sound(DiscardActive(s, m, landed))
<1> DEFINE discarded == SetMolecule(s, m, [s.molecule[m] EXCEPT !.mode = {"discard"}])
<1>1. Sound(discarded)
  BY DiscardedSound
<1> HIDE DEF discarded
<1>2. Sound(MoleculeStop(discarded, m, "stopped", landed))
  BY <1>1, MoleculeStopSound DEF Statuses
<1>. QED  BY <1>2, CheckCompletedSound DEF DiscardActive, discarded

(* MLCD picks a molecule out of a list, without the lock ...                *)
LEMMA MLCDSound ==
    ASSUME IInv, NEW m \in Ids, MLCD(m)
    PROVE  IInv'
<1> DEFINE r == [Idle EXCEPT !.pc = "testing", !.own = m]
<1>1. r \in ThreadType /\ r.pc = "testing" /\ r.own = m
  BY IdleType DEF ThreadType, Places
<1>2. Sets("client", r) /\ UNCHANGED <<seq, client, sweep, overtaken>>
  BY DEF MLCD
<1> HIDE DEF r
<1>3. ThreadWell("client", r) /\ "client" \in Threads
  BY <1>1 DEF ThreadWell, Threads
<1>4. Sound(seq')
  BY <1>2 DEF IInv
<1>. QED  BY <1>2, <1>3, <1>4, ThreadStep

(* What MLCD knows while it goes on with the molecule.                      *)
LEMMA DiscardsWell ==
    ASSUME IInv, NEW place \in Places \ {"idle"}, Discards(place)
    PROVE  /\ Sound(seq) /\ Found \in Ids /\ "client" \in Threads
           /\ thread["client"] \in ThreadType
           /\ \A p \in Places \ {"idle", "locking", "answering"} :
                 ThreadWell("client", [thread["client"] EXCEPT !.pc = p])
<1>1. "client" \in Threads
  BY DEF Threads
<1>2. /\ Sound(seq) /\ ThreadWell("client", thread["client"])
      /\ thread["client"].pc # "idle"
  BY <1>1 DEF IInv, Discards
<1>. QED  BY <1>1, <1>2, GoesWell DEF ThreadWell, Found

(* Molecule::stop without the lock, of a molecule that is still there.      *)
LEMMA StopsSound ==
    ASSUME IInv, NEW place \in Places \ {"idle"}, Discards(place),
           NEW next \in {"checking", "replying"}, Stops(Found, next)
    PROVE  IInv'
<1> DEFINE m == Found
           r == seq.molecule[m]
           q == [r EXCEPT !.stopped = TRUE, !.status = "stopped",
                          !.sample = "stopping", !.sstatus = "stopped"]
           stopped == SetMolecule(seq, m, q)
           n == [thread["client"] EXCEPT !.pc = next]
<1>1. /\ Sound(seq) /\ m \in Ids /\ "client" \in Threads
      /\ thread["client"] \in ThreadType /\ ThreadWell("client", n)
      /\ UNCHANGED <<client, sweep, overtaken>>
  BY DiscardsWell DEF Discards, Places
<1>2. NoLanding \in [Ids -> Nat]
  BY DEF NoLanding
<1>3. r \in MT
  BY <1>1, Fields DEF Sound
<1>4. q \in MT /\ SamePlace(r, q)
  BY <1>3 DEF MT, MoleculeType, SamePlace, SampleStates, Statuses
<1>5. Sound(stopped)
  BY <1>1, <1>4, SetMoleculeSound
<1>6. /\ Sound(Fault(seq)) /\ Sound(MoleculeStop(seq, m, "stopped", NoLanding))
  BY <1>1, <1>2, FaultSound, MoleculeStopSound DEF Statuses
<1> DEFINE e == Entered("client", m, "stopped", <<next>>)
<1>7. ThreadWell("client", e)
  <2>1. <<next>> \in Seq(Callers)
    BY DEF Callers
  <2>2. Found \in Ids /\ thread["client"].own = Found
    BY <1>1 DEF Found
  <2>. QED  BY <1>1, <2>1, <2>2, EnteredWell DEF Statuses
<1>8. Sound(Enters(stopped, m, "stopped"))
  BY <1>1, <1>5, EntersSound DEF Statuses
<1>9. \/ /\ seq' \in {Fault(seq), MoleculeStop(seq, m, "stopped", NoLanding)}
         /\ Sets("client", n)
      \/ seq' = Enters(stopped, m, "stopped") /\ Sets("client", e)
  BY DEF Stops, GoesTo
<1> HIDE DEF n, e, stopped, q, m
<1>. QED  BY <1>1, <1>6, <1>7, <1>8, <1>9, ThreadStep

(* ... and goes on with it, when it may have been deleted: that is a fault, *)
(* and changes no list.                                                     *)
LEMMA MLCDGoesOnSound ==
    ASSUME IInv,
           MLCDTests \/ MLCDSets \/ MLCDStops \/ MLCDRemoves \/ MLCDReplies
    PROVE  IInv'
<1>1. CASE MLCDTests
  <2> DEFINE place == IF seq.molecule[Found].active THEN "setting" ELSE "removing"
  <2>1. /\ Discards("testing") /\ "testing" \in Places \ {"idle"}
        /\ place \in Places \ {"idle", "locking", "answering"}
        /\ seq' \in {seq, Fault(seq)}
        /\ Sets("client", [thread["client"] EXCEPT !.pc = place])
        /\ UNCHANGED <<client, sweep, overtaken>>
    BY <1>1 DEF MLCDTests, GoesTo, Places, Discards
  <2> HIDE DEF place
  <2>2. Sound(seq')
    BY <2>1, DiscardsWell, FaultSound
  <2>. QED  BY <2>1, <2>2, DiscardsWell, ThreadStep
<1>2. CASE MLCDSets
  <2> DEFINE u == SetMolecule(seq, Found,
                       [seq.molecule[Found] EXCEPT !.mode = {"discard"}])
  <2>1. /\ Discards("setting") /\ "setting" \in Places \ {"idle"}
        /\ "stopping" \in Places \ {"idle", "locking", "answering"}
        /\ seq' \in {u, Fault(seq)}
        /\ Sets("client", [thread["client"] EXCEPT !.pc = "stopping"])
        /\ UNCHANGED <<client, sweep, overtaken>>
    BY <1>2 DEF MLCDSets, GoesTo, Places, Discards
  <2>2. Sound(u)
    BY <2>1, DiscardsWell, DiscardedSound
  <2> HIDE DEF u
  <2>3. Sound(seq')
    BY <2>1, <2>2, DiscardsWell, FaultSound
  <2>. QED  BY <2>1, <2>3, DiscardsWell, ThreadStep
<1>3. CASE MLCDStops
  BY <1>3, StopsSound DEF MLCDStops, Places
<1>4. CASE MLCDRemoves
  <2>1. Discards("removing") /\ "removing" \in Places \ {"idle"}
    BY <1>4 DEF MLCDRemoves, Places
  <2>2. CASE Holds(Found) /\ ~seq.molecule[Found].active
    <3>1. /\ Sound(seq) /\ Found \in Ids
          /\ seq.molecule[Found].phase \in {"queued", "detached"}
      BY <2>1, <2>2, DiscardsWell DEF Holds
    <3>2. Sound(Delete(seq, Found))
      BY <3>1, DeleteSound
    <3>3. /\ seq' = Delete(seq, Found)
          /\ Sets("client", [thread["client"] EXCEPT !.pc = "replying"])
          /\ UNCHANGED <<client, sweep, overtaken>>
          /\ "replying" \in Places \ {"idle", "locking", "answering"}
      BY <1>4, <2>2 DEF MLCDRemoves, GoesTo, Discards, Places
    <3>. QED  BY <2>1, <3>2, <3>3, DiscardsWell, ThreadStep
  <2>3. CASE ~(Holds(Found) /\ ~seq.molecule[Found].active)
    <3>1. Stops(Found, "replying")
      BY <1>4, <2>3 DEF MLCDRemoves
    <3>. QED  BY <2>1, <3>1, StopsSound
  <2>. QED  BY <2>2, <2>3
<1>5. CASE MLCDReplies
  <2>1. Discards("replying") /\ "replying" \in Places \ {"idle"}
    BY <1>5 DEF MLCDReplies, Places
  <2>2. Sound(SendReply(seq, Found))
    BY <2>1, DiscardsWell, SendReplySound
  <2>3. /\ seq' = CarriesOn(SendReply(seq, Found)) /\ Sets("client", Idle)
        /\ UNCHANGED <<client, sweep, overtaken>>
    BY <1>5 DEF MLCDReplies, Discards
  <2>4. ThreadWell("client", Idle) /\ "client" \in Threads
    BY IdleWell DEF Threads
  <2>. QED  BY <2>2, <2>3, <2>4, CarriesOnSound, ThreadStep
<1>. QED  BY <1>1, <1>2, <1>3, <1>4, <1>5

(* A step of MLDP.                                                          *)
LEMMA SweepStep ==
    ASSUME IInv, Sound(seq'), sweep' \in SweepType,
           UNCHANGED <<client, thread, overtaken>>
    PROVE  IInv'
  BY DEF IInv, ThreadWell

(* MLDP starts its sweep with a copy of the lists.                          *)
LEMMA MLDPSound ==
    ASSUME IInv, NEW channels, NEW from \in Priorities, NEW to \in Priorities,
           NEW immediately \in BOOLEAN, MLDP(channels, from, to, immediately)
    PROVE  IInv'
<1> DEFINE A == IF 0 \in channels THEN seq.list[0] ELSE << >>
           B == IF 1 \in channels THEN seq.list[1] ELSE << >>
<1>1. << >> \in Seq(Ids) /\ seq.list[0] \in Seq(Ids) /\ seq.list[1] \in Seq(Ids)
  BY Fields DEF IInv, Sound, Channels
<1>2. A \in Seq(Ids) /\ B \in Seq(Ids)
  BY <1>1
<1> HIDE DEF A, B
<1>3. A \o B \in Seq(Ids)
  BY <1>2, ConcatProperties
<1>4. from \in Nat /\ to \in Nat
  BY PrioritiesType
<1>5. /\ sweep' = [todo |-> A \o B, from |-> from, to |-> to,
                   immediately |-> immediately]
      /\ UNCHANGED <<seq, client, thread, overtaken>>
  BY DEF MLDP, A, B
<1>6. sweep' \in SweepType
  BY <1>3, <1>4, <1>5 DEF SweepType
<1>7. Sound(seq')
  BY <1>5 DEF IInv
<1>. QED  BY <1>5, <1>6, <1>7, SweepStep

(* Each turn of MLDP removes or stops one molecule.                         *)
LEMMA MLDPVisitSound ==
    ASSUME IInv, NEW landed \in Landings, MLDPVisit(landed)
    PROVE  IInv'
<1> DEFINE m == Head(sweep.todo)
<1>1. landed \in [Ids -> Nat] /\ Sound(seq)
  BY LandingsType DEF IInv
<1>2. m \in Ids /\ Tail(sweep.todo) \in Seq(Ids)
  BY HeadTailProperties DEF MLDPVisit, IInv, SweepType
<1>3. sweep' \in SweepType
  <2>1. NoSweep \in SweepType
    BY DEF NoSweep, SweepType
  <2>2. [sweep EXCEPT !.todo = Tail(@)] \in SweepType
    BY <1>2 DEF IInv, SweepType
  <2>. QED  BY <2>1, <2>2 DEF MLDPVisit
<1> DEFINE r == seq.molecule[m]
           t == IF r.phase \notin {"queued", "detached"} THEN Fault(seq)
                ELSE IF r.priority \notin sweep.from..sweep.to THEN seq
                ELSE IF r.active /\ sweep.immediately
                     THEN DiscardActive(seq, m, landed)
                     ELSE ActivityRemove(seq, m, landed)
<1>4. seq' = StillThere(t) /\ UNCHANGED <<client, thread, overtaken>>
  BY DEF MLDPVisit
<1> HIDE DEF m
<1>5. Sound(Fault(seq)) /\ Sound(DiscardActive(seq, m, landed))
  BY <1>1, <1>2, FaultSound, DiscardActiveSound
<1>6. seq.molecule[m].phase \in {"queued", "detached"}
         => Sound(ActivityRemove(seq, m, landed))
  BY <1>1, <1>2, ActivityRemoveSound
<1>7. Sound(t)
  BY <1>1, <1>5, <1>6
<1> HIDE DEF t
<1>8. Sound(seq')
  BY <1>4, <1>7, StillThereSound
<1>. QED  BY <1>3, <1>4, <1>8, SweepStep
(* Sequencer::disconnect: stop all, one delayed completion, hang up.        *)
LEMMA DisconnectSound ==
    ASSUME NEW s, Sound(s), NEW landed \in [Ids -> Nat]
    PROVE  Sound(Disconnect(s, landed))
<1> DEFINE t == [s EXCEPT !.disconnecting = s.callref]
           asked == CheckCompleted(StopAll(t, landed), landed)
<1>1. s.callref \in BOOLEAN
  BY DEF Sound, SequencerType
<1>2. Sound(t)
  BY <1>1, SetFlagsSound
<1> HIDE DEF t
<1>3. Sound(asked)
  BY <1>2, StopAllSound, CheckCompletedSound
<1>4. Sound(Hangup(asked))
  BY <1>3, HangupSound
<1>. QED  BY <1>3, <1>4 DEF Disconnect, t

(* Sequencer::close: abort all, one delayed completion, release.            *)
LEMMA CloseSound ==
    ASSUME NEW s, Sound(s), NEW destroy, NEW landed \in [Ids -> Nat]
    PROVE  Sound(Close(s, destroy, landed))
<1> DEFINE t == [s EXCEPT !.closing = TRUE]
           asked == CheckCompleted(AbortAll(t, "stopped", landed), landed)
<1>1. Sound(t)
  BY SetFlagsSound
<1> HIDE DEF t
<1>2. Sound(asked)
  BY <1>1, AbortAllSound, CheckCompletedSound DEF Statuses
<1> HIDE DEF asked
<1>3. /\ Sound(StillThere(asked)) /\ Sound(Release(asked))
      /\ Sound([asked EXCEPT !.media = FALSE])
  BY <1>2, StillThereSound, ReleaseSound, SetFlagsSound
<1>4. Sound([Release(asked) EXCEPT !.deleted = TRUE])
  BY <1>3, SetFlagsSound
<1>. QED  BY <1>2, <1>3, <1>4 DEF Close, asked, t

(* The other commands of the interface thread.                              *)
LEMMA CommandsSound ==
    ASSUME IInv,
           \/ \E landed \in Landings : DISC(landed) \/ BGRC(landed) \/ LostCall(landed)
           \/ LostConnection \/ LosesCall \/ CNFC
    PROVE  IInv'
<1>1. /\ \A landed \in Landings : landed \in [Ids -> Nat]
      /\ Sound(seq) /\ client \in ClientType /\ overtaken \in BOOLEAN
  BY LandingsType DEF IInv
<1>2. CASE \E landed \in Landings : DISC(landed) \/ BGRC(landed)
  <2>1. PICK landed \in Landings : DISC(landed) \/ BGRC(landed)
    BY <1>2
  <2>2. Sound(seq') /\ UNCHANGED <<client, thread, sweep, overtaken>>
    BY <1>1, <2>1, DisconnectSound, CloseSound DEF DISC, BGRC
  <2>. QED  BY <2>2, SequencerStep
<1>3. CASE LostConnection
  <2>1. /\ Sound(seq') /\ client' = [client EXCEPT !.pc = "losing"]
        /\ UNCHANGED <<thread, sweep, overtaken>>
    BY <1>1, <1>3, SetFlagsSound DEF LostConnection
  <2>2. client' \in ClientType /\ client'.pc # "adding"
    BY <1>1, <2>1 DEF ClientType
  <2>. QED  BY <1>1, <2>1, <2>2, RequestStep
<1>4. CASE LosesCall
  <2> DEFINE p == IF seq.callref THEN "disconnecting"
                  ELSE IF ~HasTrunk THEN "closing" ELSE "idle"
  <2>1. /\ seq' = CarriesOn(seq) /\ client' = [client EXCEPT !.pc = p]
        /\ UNCHANGED <<thread, sweep, overtaken>>
    BY <1>4 DEF LosesCall
  <2>2. p \in {"disconnecting", "closing", "idle"}
    OBVIOUS
  <2> HIDE DEF p
  <2>3. client' \in ClientType /\ client'.pc # "adding"
    BY <1>1, <2>1, <2>2 DEF ClientType
  <2>. QED  BY <1>1, <2>1, <2>3, CarriesOnSound, RequestStep
<1>5. CASE \E landed \in Landings : LostCall(landed)
  <2>1. PICK landed \in Landings : LostCall(landed)
    BY <1>5
  <2> DEFINE u == IF client.pc = "disconnecting" THEN Disconnect(seq, landed)
                  ELSE Close(seq, FALSE, landed)
  <2>2. Sound(u)
    BY <1>1, DisconnectSound, CloseSound
  <2>3. /\ seq' = CarriesOn(u) /\ client' = [client EXCEPT !.pc = "idle"]
        /\ UNCHANGED <<thread, sweep, overtaken>>
    BY <2>1 DEF LostCall
  <2> HIDE DEF u
  <2>4. client' \in ClientType /\ client'.pc # "adding"
    BY <1>1, <2>3 DEF ClientType
  <2>. QED  BY <1>1, <2>2, <2>3, <2>4, CarriesOnSound, RequestStep
<1>6. CASE CNFC
  <2>1. Sound(seq') /\ UNCHANGED <<client, thread, sweep, overtaken>>
    BY <1>1, <1>6, SetFlagsSound DEF CNFC
  <2>. QED  BY <2>1, SequencerStep
<1>. QED  BY <1>2, <1>3, <1>4, <1>5, <1>6

----------------------------------------------------------------------------
(*                    The media and the timer thread                        *)

(* The end of a sample enters completed(Sample).                            *)
LEMMA MediaEventSound ==
    ASSUME IInv, NEW m \in Ids, MediaEvent(m)
    PROVE  IInv'
<1> DEFINE r == seq.molecule[m]
           q == [r EXCEPT !.sample = "idle"]
           u == SetMolecule(seq, m, q)
           e == Entered("media", m, r.sstatus, << >>)
<1>1. /\ Sound(seq) /\ r \in MT /\ r.sstatus \in Statuses
      /\ "media" \in Threads /\ thread["media"] \in ThreadType
      /\ << >> \in Seq(Callers)
  BY Fields, RecordFields DEF IInv, Sound, Threads, ThreadWell
<1>2. q \in MT /\ SamePlace(r, q)
  BY <1>1 DEF MT, MoleculeType, SamePlace, SampleStates
<1>3. Sound(u)
  BY <1>1, <1>2, SetMoleculeSound
<1> HIDE DEF q
<1>4. /\ seq' = Enters(u, m, r.sstatus) /\ Sets("media", e)
      /\ UNCHANGED <<client, sweep, overtaken>>
  BY DEF MediaEvent, q
<1> HIDE DEF u
<1>5. Sound(Enters(u, m, r.sstatus))
  BY <1>1, <1>3, EntersSound
<1>6. ThreadWell("media", e)
  BY <1>1, EnteredWell
<1> HIDE DEF e
<1>. QED  BY <1>1, <1>4, <1>5, <1>6, ThreadStep

(* A digit may stop the head of each channel.                               *)
LEMMA TouchtoneSound ==
    ASSUME IInv, NEW landed \in Landings, Touchtone(landed)
    PROVE  IInv'
<1>1. landed \in [Ids -> Nat] /\ Sound(seq) /\ 0 \in Channels /\ 1 \in Channels
  BY LandingsType DEF IInv, Channels
<1>2. Sound(ActivityDTMF(ActivityDTMF(seq, 0, landed), 1, landed))
  BY <1>1, ActivityDTMFSound
<1>3. Sound(seq') /\ UNCHANGED <<client, thread, sweep, overtaken>>
  BY <1>2 DEF Touchtone
<1>. QED  BY <1>3, SequencerStep

(* A timer that expires only changes its silence.                           *)
LEMMA ExpirySound ==
    ASSUME IInv, NEW m \in Ids, TimerExpires(m) \/ OrphanExpires(m)
    PROVE  IInv'
<1> DEFINE r == seq.molecule[m]
           f == [r EXCEPT !.sample = "fired"]
           o == [r EXCEPT !.orphans = @ - 1]
<1>1. Sound(seq) /\ r \in MT /\ r.cur \in Nat /\ "timer" \in Threads
  BY Fields, RecordFields DEF IInv, Sound, Threads
<1>2. f \in MT /\ SamePlace(r, f)
  BY <1>1 DEF MT, MoleculeType, SamePlace, SampleStates
<1>3. r.orphans > 0 => o \in MT /\ SamePlace(r, o)
  BY SMTT(30), <1>1 DEF MT, MoleculeType, SamePlace
<1>4. Sound(SetMolecule(seq, m, f))
  BY <1>1, <1>2, SetMoleculeSound
<1>5. r.orphans > 0 => Sound(SetMolecule(seq, m, o))
  BY <1>1, <1>3, SetMoleculeSound
<1>6. /\ Sound(seq') /\ Sets("timer", OnTimer(m))
      /\ UNCHANGED <<client, sweep, overtaken>>
  BY <1>4, <1>5 DEF TimerExpires, OrphanExpires
<1>7. ThreadWell("timer", OnTimer(m))
  <2> DEFINE n == r.cur
             q == [Idle EXCEPT !.pc = "locking", !.molecule = m, !.own = m,
                               !.atom = n, !.rest = <<"forgetting">>]
  <2>1. OnTimer(m) = q
    BY DEF OnTimer
  <2>2. n \in Nat /\ <<"forgetting">> \in Seq(Callers)
    BY <1>1 DEF Callers
  <2> HIDE DEF n
  <2>3. q \in ThreadType /\ q.molecule = m /\ q.own = m
    BY <2>2, IdleType DEF ThreadType, Places
  <2>. QED  BY <2>1, <2>3 DEF ThreadWell
<1>. QED  BY <1>1, <1>6, <1>7, ThreadStep

(* on_timer() forgets its timer whatever became of the silence.             *)
LEMMA InvalidateSound ==
    ASSUME NEW s, Sound(s), NEW m \in Ids, NEW atom
    PROVE  Sound(Invalidate(s, m, atom))
<1> DEFINE r == s.molecule[m]
           x == IF r.sample \in {"active", "fired"} THEN "idle" ELSE r.sample
           n == IF r.sample = "active" THEN r.orphans + 1 ELSE r.orphans
           q == [r EXCEPT !.sample = x, !.orphans = n]
<1>1. r \in MT
  BY Fields DEF Sound
<1>2. x \in SampleStates /\ n \in Nat
  BY <1>1 DEF MT, MoleculeType, SampleStates
<1> HIDE DEF x, n
<1>3. q \in MT /\ SamePlace(r, q)
  BY <1>1, <1>2 DEF MT, MoleculeType, SamePlace
<1> HIDE DEF q
<1>4. Sound(SetMolecule(s, m, q))
  BY <1>3, SetMoleculeSound
<1>5. Invalidate(s, m, atom) \in {SetMolecule(s, m, q), s, Fault(s)}
  <2>1. q = [r EXCEPT !.sample = IF @ \in {"active", "fired"} THEN "idle" ELSE @,
                      !.orphans = IF r.sample = "active" THEN @ + 1 ELSE @]
    BY <1>1 DEF q, x, n, MT, MoleculeType
  <2>. QED  BY <2>1 DEF Invalidate
<1>. QED  BY <1>4, <1>5, FaultSound

(* So ends on_timer().                                                      *)
LEMMA ForgetsSound ==
    ASSUME IInv, Forgets
    PROVE  IInv'
<1> DEFINE m == thread["timer"].own
           u == Invalidate(seq, m, thread["timer"].atom)
<1>1. /\ Sound(seq) /\ "timer" \in Threads /\ m \in Ids
  BY DEF IInv, Threads, ThreadWell, Forgets
<1>2. /\ seq' = CarriesOn(u) /\ Sets("timer", Idle)
      /\ UNCHANGED <<client, sweep, overtaken>>
  BY DEF Forgets
<1>3. Sound(u)
  BY <1>1, InvalidateSound
<1> HIDE DEF u
<1>. QED  BY <1>1, <1>2, <1>3, IdleWell, CarriesOnSound, ThreadStep

----------------------------------------------------------------------------
(*                          The trunk thread                                *)

(* Call events: remote hang-up, end of a hang-up, next call.                *)
LEMMA TrunkSound ==
    ASSUME IInv,
           \/ \E landed \in Landings : DisconnectRequest(landed)
           \/ DisconnectDone \/ OnIncoming
    PROVE  IInv'
<1>1. Sound(seq)
  BY DEF IInv
<1>2. CASE \E landed \in Landings : DisconnectRequest(landed)
  <2>0. PICK landed \in Landings : DisconnectRequest(landed)
    BY <1>2
  <2> DEFINE asked == CheckCompleted(
                         AbortAll(seq, "stopped_disconnect", landed), landed)
             a == asked.media /\ ~ChannelsIdle(asked)
             b == asked.sentRdis \/ (asked.callref /\ ~asked.disconnecting)
  <2>1. Sound(asked)
    BY <1>1, LandingsType, AbortAllSound, CheckCompletedSound DEF Statuses
  <2> HIDE DEF asked
  <2>2. a \in BOOLEAN /\ b \in BOOLEAN
    OBVIOUS
  <2> HIDE DEF a, b
  <2>3. Sound([asked EXCEPT !.media = a, !.sentRdis = b])
    BY <2>1, <2>2, SetFlagsSound
  <2>4. /\ seq' = [asked EXCEPT !.media = a, !.sentRdis = b]
        /\ UNCHANGED <<client, thread, sweep, overtaken>>
    BY <2>0 DEF DisconnectRequest, asked, a, b
  <2>. QED  BY <2>3, <2>4, SequencerStep
<1>3. CASE DisconnectDone
  <2>1. Sound(seq') /\ UNCHANGED <<client, thread, sweep, overtaken>>
    BY <1>1, <1>3, ReleaseSound DEF DisconnectDone
  <2>. QED  BY <2>1, SequencerStep
<1>4. CASE OnIncoming
  <2>1. Sound(seq') /\ UNCHANGED <<client, thread, sweep, overtaken>>
    BY <1>1, <1>4, SetFlagsSound DEF OnIncoming
  <2>. QED  BY <2>1, SequencerStep
<1>. QED  BY <1>2, <1>3, <1>4

----------------------------------------------------------------------------
(*                            The theorems                                  *)

(* No step of any thread breaks the invariant, and none is taken on trust:  *)
(* every disjunct of Next appears here.                                     *)
LEMMA StepInvariant == IInv /\ [Next]_vars => IInv'
<1> SUFFICES ASSUME IInv, [Next]_vars PROVE IInv'
  OBVIOUS
<1>0. "client" \in Threads /\ "media" \in Threads /\ "timer" \in Threads
  BY DEF Threads
<1>1. CASE Client
  <2>1. CASE \E m \in Ids, o \in Offers : MLCA(m, o)
    BY <2>1, MLCASound
  <2>2. CASE \E m \in Ids : MLCAFails(m)
    BY <2>2, MLCAFailsSound
  <2>3. CASE \E m \in Ids, landed \in Landings : MLCAAdds(m, landed)
    BY <2>3, MLCAAddsSound
  <2>4. CASE \E m \in Ids : MLCD(m)
    BY <2>4, MLCDSound
  <2>5. CASE MLCDTests \/ MLCDSets \/ MLCDStops \/ MLCDRemoves \/ MLCDReplies
    BY <2>5, MLCDGoesOnSound
  <2>6. CASE Inside("client")
    BY <1>0, <2>6, InsideSound
  <2>7. CASE \E channels \in {{0}, {1}, Channels}, from, to \in Priorities,
                immediately \in BOOLEAN : MLDP(channels, from, to, immediately)
    BY <2>7, MLDPSound
  <2>8. CASE \/ \E landed \in Landings :
                   DISC(landed) \/ BGRC(landed) \/ LostCall(landed)
             \/ LostConnection \/ LosesCall \/ CNFC
    BY <2>8, CommandsSound
  <2>. QED  BY <1>1, <2>1, <2>2, <2>3, <2>4, <2>5, <2>6, <2>7, <2>8 DEF Client
<1>2. CASE Sweep
  BY <1>2, MLDPVisitSound DEF Sweep
<1>3. CASE MediaThread
  BY <1>0, <1>3, MediaEventSound, InsideSound DEF MediaThread
<1>4. CASE Arrives("touchtone") /\ \E landed \in Landings : Touchtone(landed)
  BY <1>4, TouchtoneSound
<1>5. CASE TimerThread
  BY <1>0, <1>5, ExpirySound, InsideSound, ForgetsSound DEF TimerThread
<1>6. CASE TrunkThread
  BY <1>6, TrunkSound DEF TrunkThread
<1>7. CASE UNCHANGED vars
  BY <1>7 DEF vars, IInv, Sound, ThreadWell
<1>. QED  BY <1>1, <1>2, <1>3, <1>4, <1>5, <1>6, <1>7 DEF Next

(* Every reachable state satisfies the inductive invariant.                 *)
THEOREM Invariance == Spec => []IInv
<1>. QED  BY InitInvariant, StepInvariant, PTL DEF Spec

(* Type correctness of the sequencer and its threads: no request, command,  *)
(* completion, expiry or call event builds a malformed Sequencer.           *)
THEOREM TypeCorrect == Spec => []TypeOK
<1>1. IInv => TypeOK
  BY DEF IInv, Sound, TypeOK, SweepType, ThreadWell
<1>. QED  BY <1>1, Invariance, PTL

(* MLCA, completed(), the aborts, MLDP and release() unlink before they     *)
(* delete: a playlist never holds a deleted molecule or one molecule twice, *)
(* and every queued molecule can be found in the list of its channel.       *)
THEOREM PlaylistsLinked == Spec => []Linked
<1>1. IInv => Linked
  BY DEF IInv, Sound, Linked
<1>. QED  BY <1>1, Invariance, PTL

(* Activity::add inserts in order and nothing else reorders: the playlist   *)
(* of a channel is always in order of descending priority.                  *)
THEOREM PlaylistsSorted == Spec => []ByPriority
<1>1. IInv => ByPriority
  BY DEF IInv, Sound, ByPriority
<1>. QED  BY <1>1, Invariance, PTL

(****************************************************************************)
(*                    Nothing starts after a hang-up                        *)
(****************************************************************************)

(* The client has hung up, or is about to be rid of the channel: completed()*)
(* starts nothing any more.                                                 *)
IsEnding(s) == (HasTrunk /\ s.disconnecting) \/ s.closing

SameCall(s, t) ==
    /\ t.callref = s.callref
    /\ t.disconnecting = s.disconnecting
    /\ t.closing = s.closing

StartsNothing(s, t) ==
    \A m \in Ids : t.molecule[m].active => s.molecule[m].active

(* From s to t a call may end, but none begins; ...                         *)
NoNewCall(s, t) ==
    /\ \/ t.callref = s.callref /\ t.disconnecting = s.disconnecting
       \/ ~t.callref /\ ~t.disconnecting
    /\ s.closing => t.closing

(* ... and once it ends, nothing starts.                                    *)
MindsHangup(s, t) ==
    /\ NoNewCall(s, t)
    /\ IsEnding(s) => IsEnding(t) /\ StartsNothing(s, t)

(* Most functions leave the call alone, whatever they stop ...              *)
LEMMA MindsSame ==
    ASSUME NEW s, NEW t, SameCall(s, t), IsEnding(s) => StartsNothing(s, t)
    PROVE  MindsHangup(s, t)
  BY DEF SameCall, MindsHangup, NoNewCall, IsEnding

(* ... and one after the other they do no more.                             *)
LEMMA MindsTwice ==
    ASSUME NEW s, NEW t, NEW u, MindsHangup(s, t), MindsHangup(t, u)
    PROVE  MindsHangup(s, u)
  BY DEF MindsHangup, NoNewCall, StartsNothing

(* To do nothing is to mind a hang-up.                                      *)
LEMMA MindsNothing ==
    ASSUME NEW s
    PROVE  MindsHangup(s, s)
  BY DEF MindsHangup, NoNewCall, StartsNothing

(* The updates that say nothing of the call.                                *)
LEMMA SetMoleculeMinds ==
    ASSUME NEW s, s \in SequencerType, NEW m \in Ids, NEW r \in MT,
           r.active => s.molecule[m].active
    PROVE  MindsHangup(s, SetMolecule(s, m, r))
<1> DEFINE t == SetMolecule(s, m, r)
<1>1. SameCall(s, t)
  BY DEF SetMolecule, SequencerType, SameCall
<1>2. StartsNothing(s, t)
  BY SetMoleculeProperties DEF StartsNothing
<1> HIDE DEF t
<1>3. MindsHangup(s, t)
  BY <1>1, <1>2, MindsSame
<1>. QED  BY <1>3 DEF t

(* Updates of all that the call and what plays do not depend on.            *)
LEMMA OtherFieldsMind ==
    ASSUME NEW s, s \in SequencerType, NEW m, NEW x, NEW c, NEW n
    PROVE  /\ MindsHangup(s, Fault(s))
           /\ MindsHangup(s, SendReply(s, m))
           /\ MindsHangup(s, SendMLCA(s, m))
           /\ MindsHangup(s, Hangup(s))
           /\ MindsHangup(s, AddCompleted(s, m, x))
           /\ MindsHangup(s, [s EXCEPT !.state[c] = x])
           /\ MindsHangup(s, [s EXCEPT !.completions = x])
           /\ MindsHangup(s, [s EXCEPT !.inCompleted = x])
           /\ MindsHangup(s, [s EXCEPT !.deleted = x])
           /\ MindsHangup(s, [s EXCEPT !.interface = x])
           /\ MindsHangup(s, [s EXCEPT !.conference = x])
           /\ MindsHangup(s, [s EXCEPT !.media = x])
           /\ MindsHangup(s, [s EXCEPT !.media = x, !.sentRdis = n])
           /\ MindsHangup(s, StillThere(s))
<1>1. \A t : SameCall(s, t) /\ t.molecule = s.molecule => MindsHangup(s, t)
  BY MindsSame DEF StartsNothing
<1>2. MindsHangup(s, Fault(s))
  <2>1. SameCall(s, Fault(s)) /\ Fault(s).molecule = s.molecule
    BY DEF Fault, SequencerType, SameCall
  <2>. QED  BY <1>1, <2>1
<1>3. MindsHangup(s, SendReply(s, m))
  <2>1. SameCall(s, SendReply(s, m)) /\ SendReply(s, m).molecule = s.molecule
    BY DEF SendReply, SequencerType, SameCall
  <2>. QED  BY <1>1, <2>1
<1>4. MindsHangup(s, Hangup(s))
  <2>1. SameCall(s, Hangup(s)) /\ Hangup(s).molecule = s.molecule
    BY DEF Hangup, SequencerType, SameCall
  <2>. QED  BY <1>1, <2>1
<1>5. MindsHangup(s, AddCompleted(s, m, x))
  <2>1. SameCall(s, AddCompleted(s, m, x)) /\ AddCompleted(s, m, x).molecule = s.molecule
    BY DEF AddCompleted, SequencerType, SameCall
  <2>. QED  BY <1>1, <2>1
<1>6. MindsHangup(s, [s EXCEPT !.state[c] = x])
  <2> DEFINE t == [s EXCEPT !.state[c] = x]
  <2>1. SameCall(s, t) /\ t.molecule = s.molecule
    BY DEF SequencerType, SameCall
  <2> HIDE DEF t
  <2>2. MindsHangup(s, t)
    BY <1>1, <2>1
  <2>. QED  BY <2>2 DEF t
<1>7. MindsHangup(s, [s EXCEPT !.completions = x])
  <2> DEFINE t == [s EXCEPT !.completions = x]
  <2>1. SameCall(s, t) /\ t.molecule = s.molecule
    BY DEF SequencerType, SameCall
  <2> HIDE DEF t
  <2>2. MindsHangup(s, t)
    BY <1>1, <2>1
  <2>. QED  BY <2>2 DEF t
<1>8. MindsHangup(s, [s EXCEPT !.inCompleted = x])
  <2> DEFINE t == [s EXCEPT !.inCompleted = x]
  <2>1. SameCall(s, t) /\ t.molecule = s.molecule
    BY DEF SequencerType, SameCall
  <2> HIDE DEF t
  <2>2. MindsHangup(s, t)
    BY <1>1, <2>1
  <2>. QED  BY <2>2 DEF t
<1>9. MindsHangup(s, [s EXCEPT !.deleted = x])
  <2> DEFINE t == [s EXCEPT !.deleted = x]
  <2>1. SameCall(s, t) /\ t.molecule = s.molecule
    BY DEF SequencerType, SameCall
  <2> HIDE DEF t
  <2>2. MindsHangup(s, t)
    BY <1>1, <2>1
  <2>. QED  BY <2>2 DEF t
<1>10. MindsHangup(s, [s EXCEPT !.interface = x])
  <2> DEFINE t == [s EXCEPT !.interface = x]
  <2>1. SameCall(s, t) /\ t.molecule = s.molecule
    BY DEF SequencerType, SameCall
  <2> HIDE DEF t
  <2>2. MindsHangup(s, t)
    BY <1>1, <2>1
  <2>. QED  BY <2>2 DEF t
<1>11. MindsHangup(s, [s EXCEPT !.conference = x])
  <2> DEFINE t == [s EXCEPT !.conference = x]
  <2>1. SameCall(s, t) /\ t.molecule = s.molecule
    BY DEF SequencerType, SameCall
  <2> HIDE DEF t
  <2>2. MindsHangup(s, t)
    BY <1>1, <2>1
  <2>. QED  BY <2>2 DEF t
<1>12. MindsHangup(s, [s EXCEPT !.media = x])
  <2> DEFINE t == [s EXCEPT !.media = x]
  <2>1. SameCall(s, t) /\ t.molecule = s.molecule
    BY DEF SequencerType, SameCall
  <2> HIDE DEF t
  <2>2. MindsHangup(s, t)
    BY <1>1, <2>1
  <2>. QED  BY <2>2 DEF t
<1>13. MindsHangup(s, [s EXCEPT !.media = x, !.sentRdis = n])
  <2> DEFINE t == [s EXCEPT !.media = x, !.sentRdis = n]
  <2>1. SameCall(s, t) /\ t.molecule = s.molecule
    BY DEF SequencerType, SameCall
  <2> HIDE DEF t
  <2>2. MindsHangup(s, t)
    BY <1>1, <2>1
  <2>. QED  BY <2>2 DEF t
<1>14. MindsHangup(s, s)
  BY MindsNothing
<1>15. MindsHangup(s, SendMLCA(s, m)) /\ MindsHangup(s, StillThere(s))
  BY <1>2, <1>3, <1>14 DEF SendMLCA, StillThere
<1>. QED  BY <1>2, <1>3, <1>4, <1>5, <1>6, <1>7, <1>8, <1>9, <1>10, <1>11,
             <1>12, <1>13, <1>15

(* release() ends the call; a channel that is closing goes on doing so.     *)
LEMMA ReleaseMinds ==
    ASSUME NEW s, Sound(s)
    PROVE  /\ ~Release(s).callref /\ ~Release(s).disconnecting
           /\ Release(s).closing = s.closing
           /\ StartsNothing(s, Release(s))
           /\ s.closing => MindsHangup(s, Release(s))
<1> DEFINE t == Release(s)
<1>1. /\ ~t.callref /\ ~t.disconnecting /\ t.closing = s.closing
      /\ t.molecule = [i \in Ids |->
            IF IsQueued(s, i) THEN [s.molecule[i] EXCEPT !.phase = "gone"]
            ELSE s.molecule[i]]
  BY DEF Release, Sound, SequencerType
<1>2. \A i \in Ids : s.molecule[i] \in MT
  BY Fields DEF Sound
<1> HIDE DEF t
<1>3. StartsNothing(s, t)
  BY <1>1, <1>2 DEF StartsNothing, MT, MoleculeType
<1>4. s.closing => MindsHangup(s, t)
  BY <1>1, <1>3 DEF MindsHangup, NoNewCall, IsEnding
<1>. QED  BY <1>1, <1>3, <1>4 DEF t

(* Unlinking.                                                               *)
LEMMA UnlinkMinds ==
    ASSUME NEW s, Sound(s), NEW c \in Channels, NEW i \in 1..Len(s.list[c]),
           NEW r \in MT, r.active => s.molecule[s.list[c][i]].active
    PROVE  MindsHangup(s, Unlink(s, c, i, r))
<1> DEFINE K == RemoveAt(s.list[c], i)
           l == [s.list EXCEPT ![c] = K]
           u == [s EXCEPT !.list = l]
           x == s.list[c][i]
<1>1. s \in SequencerType /\ s.list[c] \in Seq(Ids) /\ x \in Ids
  BY Fields, ElementOfSeq DEF Sound
<1>2. K \in Seq(Ids)
  BY <1>1, RemoveAtProperties
<1> HIDE DEF K
<1>3. l \in [Channels -> Seq(Ids)]
  BY <1>1, <1>2, Fields
<1> HIDE DEF l
<1>4. u \in SequencerType /\ u.molecule = s.molecule /\ SameCall(s, u)
  BY <1>1, <1>3 DEF SequencerType, SameCall
<1> HIDE DEF u
<1>5. MindsHangup(s, u)
  BY <1>4, MindsSame DEF StartsNothing
<1>6. r.active => u.molecule[x].active
  BY <1>4 DEF x
<1>7. MindsHangup(u, SetMolecule(u, x, r))
  BY <1>1, <1>4, <1>6, SetMoleculeMinds
<1>. QED  BY <1>5, <1>7, MindsTwice DEF Unlink, u, l, K

(* Taking out what follows a molecule.                                      *)
LEMMA UnlinkAfterMinds ==
    ASSUME NEW s, Sound(s), NEW b \in Ids, IsQueued(s, b)
    PROVE  MindsHangup(s, UnlinkAfter(s, s.molecule[b].channel, b))
<1> DEFINE c == s.molecule[b].channel
           L == s.list[c]
           i == IndexIn(L, b) + 1
           q == s.molecule[L[i]]
           r == [q EXCEPT !.phase = "detached", !.before = b]
<1>1. s \in SequencerType /\ c \in Channels /\ s.molecule \in [Ids -> MT]
      /\ L \in Seq(Ids)
  BY Fields, RecordFields DEF Sound
<1>2. IndexIn(L, b) \in 1..Len(L)
  BY QueuedIndex
<1>3. CASE i > Len(L)
  BY <1>3, MindsNothing DEF UnlinkAfter
<1>4. CASE ~(i > Len(L))
  <2>1. i \in 1..Len(L) /\ L[i] \in Ids
    BY <1>1, <1>2, <1>4, LenProperties, ElementOfSeq
  <2>2. q \in MT
    BY <1>1, <2>1
  <2>3. UnlinkAfter(s, c, b) = Unlink(s, c, i, r)
    BY <1>4 DEF UnlinkAfter
  <2>4. r \in MT /\ r.active = q.active
    <3> HIDE DEF q
    <3>. QED  BY <2>2 DEF MT, MoleculeType, Phases
  <2>5. i \in 1..Len(s.list[c]) /\ (r.active => s.molecule[s.list[c][i]].active)
    BY <2>1, <2>4
  <2> HIDE DEF r, q, i, L, c
  <2>6. MindsHangup(s, Unlink(s, c, i, r))
    BY <1>1, <2>4, <2>5, UnlinkMinds
  <2>. QED  BY <2>3, <2>6 DEF c
<1>. QED  BY <1>3, <1>4

(* Deleting, also by way of an outdated prev pointer.                       *)
LEMMA DeleteMinds ==
    ASSUME NEW s, Sound(s), NEW m \in Ids,
           s.molecule[m].phase \in {"queued", "detached"}
    PROVE  MindsHangup(s, Delete(s, m))
<1> DEFINE r == s.molecule[m]
           c == r.channel
           gone == [r EXCEPT !.phase = "gone"]
           b == r.before
           i == IndexIn(s.list[c], m)
           after == UnlinkAfter(s, c, b)
           deleted == IF r.phase = "queued" THEN Unlink(s, c, i, gone)
                      ELSE SetMolecule(after, m, gone)
<1>1. s \in SequencerType /\ r \in MT /\ c \in Channels
  BY Fields, RecordFields DEF Sound
<1>2. gone \in MT /\ gone.active = r.active
  BY <1>1 DEF MT, MoleculeType, Phases
<1>3. CASE r.phase = "detached" /\ ~IsQueued(s, b)
  <2>1. Delete(s, m) = Fault(s)
    BY <1>3 DEF Delete
  <2>. QED  BY <1>1, <2>1, OtherFieldsMind
<1>4. CASE ~(r.phase = "detached" /\ ~IsQueued(s, b))
  <2>1. Delete(s, m) \in {deleted, [deleted EXCEPT !.state[c] = "idle"]}
    BY <1>4 DEF Delete
  <2>2. deleted \in SequencerType /\ MindsHangup(s, deleted)
    <3>1. CASE r.phase = "queued"
      <4>1. i \in 1..Len(s.list[c]) /\ s.list[c][i] = m
        BY <3>1, QueuedIndex DEF IsQueued
      <4>2. gone.active => s.molecule[s.list[c][i]].active
        BY <1>2, <4>1
      <4>3. gone.phase = "gone" /\ gone.channel = c /\ gone.priority = r.priority
        BY <1>1 DEF MT, MoleculeType
      <4>4. gone.phase \in {"detached", "gone"}
            /\ MayUnlink(s, s.molecule[s.list[c][i]], gone)
        BY <4>1, <4>3 DEF MayUnlink
      <4> HIDE DEF i, c, gone
      <4>5. /\ MindsHangup(s, Unlink(s, c, i, gone))
            /\ Sound(Unlink(s, c, i, gone))
        BY <1>1, <1>2, <4>1, <4>2, <4>4, UnlinkMinds, UnlinkOpSound
      <4>. QED  BY <3>1, <4>5 DEF Sound
    <3>2. CASE r.phase # "queued"
      <4>1. /\ IsQueued(s, b) /\ b \in Ids /\ s.molecule[b].channel = c
            /\ ~IsQueued(s, m)
        BY <1>4, <3>2 DEF Sound, DetachedIn, IsQueued
      <4> HIDE DEF b, gone
      <4>2. Sound(after) /\ MindsHangup(s, after) /\ after.molecule[m] = r
        BY <4>1, UnlinkAfterSound, UnlinkAfterMinds
      <4> HIDE DEF after
      <4>3. /\ MindsHangup(after, SetMolecule(after, m, gone))
            /\ SetMolecule(after, m, gone) \in SequencerType
        BY <1>2, <4>2, SetMoleculeMinds, SetMoleculeProperties DEF Sound
      <4>. QED  BY <3>2, <4>2, <4>3, MindsTwice
    <3>. QED  BY <3>1, <3>2
  <2> HIDE DEF deleted
  <2>3. MindsHangup(deleted, [deleted EXCEPT !.state[c] = "idle"])
    BY <2>2, OtherFieldsMind
  <2>. QED  BY <2>1, <2>2, <2>3, MindsTwice
<1>. QED  BY <1>3, <1>4

(* Starting leaves the call alone.                                          *)
LEMMA StartSameCall ==
    ASSUME NEW s, s \in SequencerType, NEW c \in Channels, NEW m \in Ids,
           NEW landed
    PROVE  /\ SameCall(s, MoleculeStart(s, m, landed))
           /\ SameCall(s, ActivityStart(s, c, landed))
<1>1. \A t, u : SameCall(s, t) /\ SameCall(t, u) => SameCall(s, u)
  BY DEF SameCall
<1> DEFINE F == {"callref", "disconnecting", "closing", "list", "state",
                 "molecule", "answers", "fault"}
<1>2. ASSUME NEW t, F \subseteq DOMAIN t, NEW i
      PROVE  SameCall(t, MoleculeStart(t, i, landed))
  BY <1>2 DEF SameCall, MoleculeStart
<1>3. F \subseteq DOMAIN s
  BY DEF SequencerType
<1> HIDE DEF F
<1>4. ASSUME NEW k
      PROVE  \A x : LET t == [DropBefore(s, c, k) EXCEPT !.state[c] = x]
                    IN SameCall(s, t) /\ F \subseteq DOMAIN t
  BY DEF SameCall, DropBefore, SequencerType, F
<1>5. SameCall(s, Fault(s))
  BY DEF SameCall, Fault, SequencerType
<1>6. SameCall(s, ActivityStart(s, c, landed))
  <2> DEFINE L == s.list[c]
             n == Len(L)
             k == Min({i \in 1..n + 1 : i = n + 1 \/ Starts(s, L[i], landed)})
             x == IF k <= n THEN "active" ELSE "idle"
             left == [DropBefore(s, c, k) EXCEPT !.state[c] = x]
  <2>1. ActivityStart(s, c, landed) \in
           {Fault(s), MoleculeStart(left, L[k], landed), left}
    BY DEF ActivityStart
  <2>2. SameCall(s, left) /\ F \subseteq DOMAIN left
    <3> HIDE DEF k, x
    <3>. QED  BY <1>4
  <2> HIDE DEF left, k, L
  <2>3. SameCall(left, MoleculeStart(left, L[k], landed))
    BY <1>2, <2>2
  <2>. QED  BY <1>1, <1>5, <2>1, <2>2, <2>3
<1>. QED  BY <1>2, <1>3, <1>6

----------------------------------------------------------------------------
(* A completion starts the next molecule unless the call ends.              *)
LEMMA CompletedLockedMinds ==
    ASSUME NEW s, Sound(s), NEW m \in Ids, NEW status \in Statuses,
           NEW landed \in [Ids -> Nat]
    PROVE  MindsHangup(s, CompletedLocked(s, m, status, landed))
<1> DEFINE r == s.molecule[m]
           c == r.channel
           after == SetMolecule(s, m, Done(r))
           kept == IF s.state[c] = "stopping" \/ DoneReturns(r)
                   THEN Delete(after, m) ELSE after
           t == CompletedLocked(s, m, status, landed)
<1>1. s \in SequencerType /\ r \in MT /\ c \in Channels
  BY Fields, RecordFields DEF Sound
<1>2. CASE s.fault \/ r.phase \notin {"queued", "detached"}
                   \/ r.cur \notin DOMAIN r.atoms
  BY <1>1, <1>2, OtherFieldsMind DEF CompletedLocked
<1>3. CASE ~(s.fault \/ r.phase \notin {"queued", "detached"}
                     \/ r.cur \notin DOMAIN r.atoms)
  <2>1. Done(r) \in MT /\ SamePlace(r, Done(r)) /\ ~Done(r).active
    <3>1. Done(r) \in MT /\ SamePlace(r, Done(r))
      BY <1>1, DoneProperties
    <3> HIDE DEF r
    <3>2. ~Done(r).active
      BY <1>1 DEF Done, MT, MoleculeType
    <3>. QED  BY <3>1, <3>2
  <2>2. Sound(after) /\ MindsHangup(s, after)
    BY <1>1, <2>1, SetMoleculeSound, SetMoleculeMinds
  <2>3. after.molecule[m].phase \in {"queued", "detached"}
    BY <1>1, <1>3, <2>1, SetMoleculeProperties DEF SamePlace
  <2> HIDE DEF after
  <2>4. Sound(kept) /\ MindsHangup(s, kept)
    BY <2>2, <2>3, DeleteSound, DeleteMinds, MindsTwice
  <2>5. t = IF kept.fault THEN kept
            ELSE IF StopsPlaying(s, status) THEN [kept EXCEPT !.state[c] = "idle"]
            ELSE ActivityStart(kept, c, landed)
    BY <1>3 DEF CompletedLocked, kept, after
  <2> HIDE DEF kept, t
  <2>6. MindsHangup(s, [kept EXCEPT !.state[c] = "idle"])
    BY <2>4, OtherFieldsMind, MindsTwice DEF Sound
  <2>7. kept.fault \/ StopsPlaying(s, status) => MindsHangup(s, t)
    BY <2>4, <2>5, <2>6
  <2>8. ASSUME ~kept.fault, ~StopsPlaying(s, status)
        PROVE  MindsHangup(s, t)
    <3>1. ~IsEnding(s) /\ SameCall(kept, t)
      BY <1>1, <2>4, <2>5, <2>8, StartSameCall DEF StopsPlaying, IsEnding, Sound
    <3>. QED  BY <2>4, <3>1 DEF MindsHangup, NoNewCall, SameCall
  <2>. QED  BY <2>7, <2>8 DEF t
<1>. QED  BY <1>2, <1>3

(* A completion with all that follows in one critical section.              *)
LEMMA CompletedMinds ==
    ASSUME NEW s, Sound(s), NEW m \in Ids, NEW status \in Statuses,
           NEW landed \in [Ids -> Nat]
    PROVE  MindsHangup(s, Completed(s, m, status, landed))
<1>1. ASSUME NEW t, Sound(t), NEW answer
      PROVE  MindsHangup(t, CompletedRest(t, m, answer))
  <2> DEFINE answered == IF answer THEN SendMLCA(t, m) ELSE t
             hungUp == IF HasTrunk /\ answered.disconnecting
                       THEN Hangup(answered) ELSE answered
  <2>1. Sound(answered) /\ MindsHangup(t, answered)
    BY <1>1, SendReplySound, OtherFieldsMind, MindsNothing DEF Sound
  <2> HIDE DEF answered
  <2>2. Sound(hungUp) /\ MindsHangup(t, hungUp)
    BY <2>1, HangupSound, OtherFieldsMind, MindsTwice DEF Sound
  <2>3. CompletedRest(t, m, answer) =
           IF t.fault THEN t
           ELSE IF ~ChannelsIdle(answered) THEN answered
           ELSE IF ~hungUp.closing THEN hungUp
           ELSE IF hungUp.deleted THEN Fault(hungUp)
           ELSE [Release(hungUp) EXCEPT !.deleted = TRUE]
    BY DEF CompletedRest, answered
  <2> HIDE DEF hungUp
  <2>4. MindsHangup(t, Fault(hungUp))
    BY <2>2, OtherFieldsMind, MindsTwice DEF Sound
  <2>5. Sound(Release(hungUp))
    BY <2>2, ReleaseSound
  <2>6. /\ hungUp.closing => MindsHangup(hungUp, Release(hungUp))
        /\ MindsHangup(Release(hungUp), [Release(hungUp) EXCEPT !.deleted = TRUE])
    BY <2>2, <2>5, ReleaseMinds, OtherFieldsMind DEF Sound
  <2>. QED  BY <2>1, <2>2, <2>3, <2>4, <2>6, MindsNothing, MindsTwice
<1>. QED  BY <1>1, CompletedLockedSound, CompletedLockedMinds, MindsTwice
          DEF Completed

(* A completion that was put off.                                           *)
LEMMA CheckCompletedMinds ==
    ASSUME NEW s, Sound(s), NEW landed \in [Ids -> Nat]
    PROVE  MindsHangup(s, CheckCompleted(s, landed))
<1> DEFINE i == Head(s.completions)
           t == [s EXCEPT !.completions = Tail(@)]
<1>1. CASE s.fault \/ s.completions = << >>
  BY <1>1, MindsNothing DEF CheckCompleted
<1>2. CASE ~(s.fault \/ s.completions = << >>)
  <2>1. /\ i \in [molecule : Ids, status : Statuses]
        /\ Tail(s.completions) \in Seq([molecule : Ids, status : Statuses])
    BY <1>2, Fields, HeadTailProperties DEF Sound
  <2>2. Sound(t) /\ MindsHangup(s, t)
    BY <2>1, SetCompletionsSound, OtherFieldsMind DEF Sound
  <2>3. i.molecule \in Ids /\ i.status \in Statuses
    BY <2>1
  <2> HIDE DEF t, i
  <2>4. MindsHangup(t, Completed(t, i.molecule, i.status, landed))
    BY <2>2, <2>3, CompletedMinds
  <2>. QED  BY <1>2, <2>2, <2>4, MindsTwice DEF CheckCompleted, t, i
<1>. QED  BY <1>1, <1>2

(* completed(Sample), nested in whatever stops a touchtone.                 *)
LEMMA SampleCompletedMinds ==
    ASSUME NEW s, Sound(s), NEW m \in Ids, NEW status \in Statuses,
           NEW landed \in [Ids -> Nat]
    PROVE  MindsHangup(s, SampleCompleted(s, m, status, landed))
<1> DEFINE t == Completed(s, m, status, landed)
           u == StillThere(t)
<1>1. Sound(t) /\ MindsHangup(s, t)
  BY CompletedSound, CompletedMinds
<1> HIDE DEF t
<1>2. Sound(u) /\ MindsHangup(t, u)
  BY <1>1, StillThereSound, OtherFieldsMind DEF Sound
<1> HIDE DEF u
<1>3. MindsHangup(u, CheckCompleted(u, landed))
  BY <1>2, CheckCompletedMinds
<1>4. MindsHangup(s, AddCompleted(s, m, status))
  BY OtherFieldsMind DEF Sound
<1>. QED  BY <1>1, <1>2, <1>3, <1>4, MindsTwice DEF SampleCompleted, u, t

(* Stopping completes a touchtone on the spot, and puts others off.         *)
LEMMA AtomStopMinds ==
    ASSUME NEW s, Sound(s), NEW m \in Ids, NEW status \in Statuses,
           NEW landed \in [Ids -> Nat],
           s.molecule[m].cur \in DOMAIN s.molecule[m].atoms
    PROVE  MindsHangup(s, AtomStop(s, m, status, landed))
<1> DEFINE r == s.molecule[m]
           q == [r EXCEPT !.sample = "stopping", !.sstatus = status]
           i == [r EXCEPT !.sample = "idle"]
           aborted == SetMolecule(s, m, q)
           silent == SetMolecule(s, m, i)
<1>1. s \in SequencerType /\ r \in MT
  BY Fields DEF Sound
<1>2. /\ q \in MT /\ SamePlace(r, q) /\ q.active = r.active
      /\ i \in MT /\ SamePlace(r, i) /\ i.active = r.active
  BY <1>1 DEF MT, MoleculeType, SamePlace, SampleStates
<1>3. CurrentKind(r) \in Kinds
  BY <1>1, RecordFields, ElementOfSeq, LenProperties DEF CurrentKind
<1>4. AtomStop(s, m, status, landed) \in
         {s, aborted, SampleCompleted(aborted, m, status, landed),
          AddCompleted(silent, m, status)}
  BY <1>3 DEF AtomStop, Kinds
<1> HIDE DEF q, i
<1>5. /\ Sound(aborted) /\ MindsHangup(s, aborted)
      /\ Sound(silent) /\ MindsHangup(s, silent)
  BY <1>1, <1>2, SetMoleculeSound, SetMoleculeMinds
<1> HIDE DEF aborted, silent
<1>6. /\ MindsHangup(aborted, SampleCompleted(aborted, m, status, landed))
      /\ MindsHangup(silent, AddCompleted(silent, m, status))
  BY <1>5, SampleCompletedMinds, OtherFieldsMind DEF Sound
<1>. QED  BY <1>4, <1>5, <1>6, MindsNothing, MindsTwice

(* Stopping a molecule, interruptible or not.                               *)
LEMMA MoleculeStopMinds ==
    ASSUME NEW s, Sound(s), NEW m \in Ids, NEW status \in Statuses,
           NEW landed \in [Ids -> Nat]
    PROVE  /\ MindsHangup(s, MoleculeAbort(s, m, status, landed))
           /\ MindsHangup(s, MoleculeStop(s, m, status, landed))
<1> DEFINE r == s.molecule[m]
           q == [r EXCEPT !.stopped = TRUE, !.status = status]
           stopped == SetMolecule(s, m, q)
<1>1. s \in SequencerType /\ r \in MT
  BY Fields DEF Sound
<1>2. /\ q \in MT /\ SamePlace(r, q) /\ q.cur = r.cur /\ q.atoms = r.atoms
      /\ q.active = r.active
  BY <1>1 DEF MT, MoleculeType, SamePlace
<1> HIDE DEF q
<1>3. Sound(stopped) /\ stopped.molecule[m] = q /\ MindsHangup(s, stopped)
  BY <1>1, <1>2, SetMoleculeSound, SetMoleculeProperties, SetMoleculeMinds
<1> HIDE DEF stopped
<1>4. r.cur \in DOMAIN r.atoms
         => MindsHangup(stopped, AtomStop(stopped, m, status, landed))
  BY <1>2, <1>3, AtomStopMinds
<1>5. MindsHangup(s, MoleculeAbort(s, m, status, landed))
  BY <1>3, <1>4, MindsTwice DEF MoleculeAbort, stopped, q
<1>. QED  BY <1>5, MindsNothing DEF MoleculeStop

(* Stopping what plays on a channel.                                        *)
LEMMA ActivityStopMinds ==
    ASSUME NEW s, Sound(s), NEW c \in Channels, NEW status \in Statuses,
           NEW landed \in [Ids -> Nat]
    PROVE  MindsHangup(s, ActivityStop(s, c, status, landed))
<1> DEFINE h == Head1(s, c)
           stopping == [s EXCEPT !.state[c] = "stopping"]
           asked == MoleculeStop(stopping, h, status, landed)
<1>1. Sound(stopping) /\ MindsHangup(s, stopping)
  BY SetStateSound, OtherFieldsMind DEF States, Sound
<1> HIDE DEF stopping
<1>2. CASE h = NoId
  BY <1>1, <1>2 DEF ActivityStop, stopping
<1>3. CASE h # NoId
  <2>1. Sound(asked) /\ MindsHangup(stopping, asked)
    BY <1>1, <1>3, HeadProperties, MoleculeStopSound, MoleculeStopMinds
  <2> HIDE DEF asked
  <2>2. MindsHangup(asked, [asked EXCEPT !.state[c] = "idle"])
    BY <2>1, OtherFieldsMind DEF Sound
  <2>3. ActivityStop(s, c, status, landed) \in
           {asked, [asked EXCEPT !.state[c] = "idle"]}
    BY <1>3 DEF ActivityStop, asked, stopping
  <2>. QED  BY <1>1, <2>1, <2>2, <2>3, MindsTwice
<1>. QED  BY <1>2, <1>3

(* Aborting it, with what follows it in the list.                           *)
LEMMA ActivityAbortMinds ==
    ASSUME NEW s, Sound(s), NEW c \in Channels, NEW status \in Statuses,
           NEW landed \in [Ids -> Nat]
    PROVE  MindsHangup(s, ActivityAbort(s, c, status, landed))
<1> DEFINE h == Head1(s, c)
           stopping == [s EXCEPT !.state[c] = "stopping"]
           asked == MoleculeAbort(stopping, h, status, landed)
           short == UnlinkAfter(asked, c, Head1(asked, c))
<1>1. Sound(stopping) /\ MindsHangup(s, stopping)
  BY SetStateSound, OtherFieldsMind DEF States, Sound
<1> HIDE DEF stopping
<1>2. CASE h = NoId
  BY <1>1, <1>2 DEF ActivityAbort, stopping
<1>3. CASE h # NoId
  <2>1. Sound(asked) /\ MindsHangup(stopping, asked)
    BY <1>1, <1>3, HeadProperties, MoleculeStopSound, MoleculeStopMinds
  <2> HIDE DEF asked
  <2>2. MindsHangup(s, asked) /\ MindsHangup(asked, Fault(asked))
    BY <1>1, <2>1, MindsTwice, OtherFieldsMind DEF Sound
  <2>3. CASE asked.fault \/ Head1(asked, c) = NoId
    BY <1>3, <2>2, <2>3, MindsTwice DEF ActivityAbort, asked, stopping
  <2>4. CASE ~(asked.fault \/ Head1(asked, c) = NoId)
    <3>1. /\ Head1(asked, c) \in Ids /\ IsQueued(asked, Head1(asked, c))
          /\ asked.molecule[Head1(asked, c)].channel = c
      BY <2>1, <2>4, HeadProperties
    <3>2. Sound(short) /\ MindsHangup(asked, short)
      BY <2>1, <3>1, UnlinkAfterSound, UnlinkAfterMinds
    <3> HIDE DEF short
    <3>3. MindsHangup(short, [short EXCEPT !.state[c] = "idle"])
      BY <3>2, OtherFieldsMind DEF Sound
    <3>4. ActivityAbort(s, c, status, landed) \in
             {short, [short EXCEPT !.state[c] = "idle"]}
      BY <1>3, <2>4 DEF ActivityAbort, asked, stopping, short
    <3>. QED  BY <2>2, <3>2, <3>3, <3>4, MindsTwice
  <2>. QED  BY <2>3, <2>4
<1>. QED  BY <1>2, <1>3

(* The loops over both channels, and the commands that are made of them.    *)
LEMMA LoopsMind ==
    ASSUME NEW s, Sound(s), NEW status \in Statuses, NEW landed \in [Ids -> Nat]
    PROVE  /\ MindsHangup(s, StopAll(s, landed))
           /\ MindsHangup(s, AbortAll(s, status, landed))
           /\ MindsHangup(s, ActivityDTMF(ActivityDTMF(s, 0, landed), 1, landed))
<1>1. 0 \in Channels /\ 1 \in Channels /\ "stopped" \in Statuses
      /\ "stopped_dtmf" \in Statuses
  BY DEF Channels, Statuses
<1>2. ASSUME NEW t, Sound(t), NEW c \in Channels
      PROVE  /\ Sound(StopPlaying(t, c, landed))
             /\ MindsHangup(t, StopPlaying(t, c, landed))
             /\ Sound(AbortPlaying(t, c, status, landed))
             /\ MindsHangup(t, AbortPlaying(t, c, status, landed))
             /\ Sound(ActivityDTMF(t, c, landed))
             /\ MindsHangup(t, ActivityDTMF(t, c, landed))
  BY <1>1, <1>2, ActivityStopSound, ActivityStopMinds, ActivityAbortSound,
     ActivityAbortMinds, MindsNothing DEF StopPlaying, AbortPlaying, ActivityDTMF
<1>3. MindsHangup(s, StopAll(s, landed))
  BY <1>1, <1>2, MindsTwice DEF StopAll
<1>4. MindsHangup(s, AbortAll(s, status, landed))
  BY <1>1, <1>2, MindsTwice DEF AbortAll
<1>5. MindsHangup(s, ActivityDTMF(ActivityDTMF(s, 0, landed), 1, landed))
  BY <1>1, <1>2, MindsTwice
<1>. QED  BY <1>3, <1>4, <1>5

(* MLDP's way with a molecule that plays.                                   *)
LEMMA DiscardActiveMinds ==
    ASSUME NEW s, Sound(s), NEW m \in Ids, NEW landed \in [Ids -> Nat]
    PROVE  /\ MindsHangup(s, DiscardActive(s, m, landed))
           /\ MindsHangup(s, SetMolecule(s, m,
                                [s.molecule[m] EXCEPT !.mode = {"discard"}]))
<1> DEFINE r == s.molecule[m]
           q == [r EXCEPT !.mode = {"discard"}]
           discarded == SetMolecule(s, m, q)
           stopped == MoleculeStop(discarded, m, "stopped", landed)
<1>1. s \in SequencerType /\ r \in MT
  BY Fields DEF Sound
<1>2. q \in MT /\ q.active = r.active
  BY <1>1 DEF MT, MoleculeType, Flags
<1>3. Sound(discarded) /\ MindsHangup(s, discarded)
  BY <1>1, <1>2, DiscardedSound, SetMoleculeMinds
<1>4. DiscardActive(s, m, landed) = CheckCompleted(stopped, landed)
  BY DEF DiscardActive
<1> HIDE DEF discarded
<1>5. Sound(stopped) /\ MindsHangup(discarded, stopped)
  BY <1>3, MoleculeStopSound, MoleculeStopMinds DEF Statuses
<1> HIDE DEF stopped
<1>6. MindsHangup(stopped, CheckCompleted(stopped, landed))
  BY <1>5, CheckCompletedMinds
<1>. QED  BY <1>3, <1>4, <1>5, <1>6, MindsTwice DEF discarded

----------------------------------------------------------------------------
(* Activity::add may start the new molecule, but begins no call.            *)
LEMMA AddsNoCall ==
    ASSUME NEW s, Sound(s), NEW m \in Ids, NEW r \in MT,
           NEW landed \in [Ids -> Nat],
           s.molecule[m].phase = "new", r.phase = "queued"
    PROVE  /\ NoNewCall(s, CheckCompleted(ActivityAdd(s, m, r, landed), landed))
           /\ SameCall(s, SetMolecule(s, m, r))
<1> DEFINE c == r.channel
           old == Head1(s, c)
           l == [s.list EXCEPT ![c] = InsertAt(@, InsertPosition(s, c, r.priority), m)]
           linked == [s EXCEPT !.list = l]
           added == Link(s, m, r)
           started == MoleculeStart(added, m, landed)
           t == ActivityAdd(s, m, r, landed)
<1>1. /\ s \in SequencerType /\ c \in Channels /\ Sound(added) /\ Sound(t)
      /\ "stopped" \in Statuses
  BY RecordFields, LinkSound, ActivityAddSound DEF Sound, Statuses
<1>2. SameCall(s, linked) /\ {"callref", "disconnecting", "closing", "molecule"}
                                \subseteq DOMAIN linked
  <2> HIDE DEF l
  <2>. QED  BY <1>1 DEF SameCall, SequencerType
<1>3. added = SetMolecule(linked, m, r)
  BY DEF Link
<1> HIDE DEF linked
<1>4. SameCall(s, added)
  BY <1>2, <1>3 DEF SameCall, SetMolecule
<1>5. SameCall(s, SetMolecule(s, m, r))
  BY <1>1 DEF SameCall, SetMolecule, SequencerType
<1> HIDE DEF added
<1>6. Sound(started) /\ SameCall(added, started)
  BY <1>1, MoleculeStartSound, StartSameCall DEF Sound
<1> DEFINE x == IF Starts(added, m, landed) THEN "active" ELSE started.state[c]
           begun == [started EXCEPT !.state[c] = x]
<1> HIDE DEF started
<1>7. SameCall(started, begun)
  <2> HIDE DEF x, c
  <2>. QED  BY <1>6 DEF Sound, SequencerType, SameCall
<1>8. NoNewCall(s, t)
  <2>1. CASE old = NoId
    <3>1. t = begun
      BY <2>1 DEF ActivityAdd, started, added
    <3>. QED  BY <1>4, <1>6, <1>7, <3>1 DEF SameCall, NoNewCall
  <2>2. CASE old # NoId
    <3>1. t \in {MoleculeStop(added, old, "stopped", landed), added}
      BY <2>2 DEF ActivityAdd, added
    <3>2. MindsHangup(added, MoleculeStop(added, old, "stopped", landed))
      BY <1>1, <2>2, HeadProperties, MoleculeStopMinds
    <3> HIDE DEF t
    <3>. QED  BY <1>4, <3>1, <3>2 DEF SameCall, NoNewCall, MindsHangup
  <2>. QED  BY <2>1, <2>2
<1> HIDE DEF t
<1>9. MindsHangup(t, CheckCompleted(t, landed))
  BY <1>1, CheckCompletedMinds
<1>10. NoNewCall(s, CheckCompleted(t, landed))
  BY <1>8, <1>9 DEF NoNewCall, MindsHangup
<1>. QED  BY <1>5, <1>10 DEF t

(* disconnect() begins the end of a call, if there is one.                  *)
LEMMA DisconnectMinds ==
    ASSUME NEW s, Sound(s), NEW landed \in [Ids -> Nat]
    PROVE  LET t == Disconnect(s, landed)
           IN /\ t.callref => s.callref
              /\ t.disconnecting => t.callref
              /\ HasTrunk /\ s.callref => StartsNothing(s, t)
<1> DEFINE u == [s EXCEPT !.disconnecting = s.callref]
           v == StopAll(u, landed)
           w == CheckCompleted(v, landed)
           t == Disconnect(s, landed)
<1>1. s \in SequencerType /\ s.callref \in BOOLEAN
  BY DEF Sound, SequencerType
<1>2. /\ Sound(u) /\ u.callref = s.callref /\ u.disconnecting = s.callref
      /\ u.molecule = s.molecule
  BY <1>1, SetFlagsSound DEF SequencerType
<1> HIDE DEF u
<1>3. Sound(v) /\ MindsHangup(u, v)
  BY <1>2, StopAllSound, LoopsMind DEF Statuses
<1> HIDE DEF v
<1>4. Sound(w) /\ MindsHangup(v, w)
  BY <1>3, CheckCompletedSound, CheckCompletedMinds
<1>5. t \in {w, Hangup(w)}
  BY DEF Disconnect, w, v, u
<1> HIDE DEF w
<1>6. MindsHangup(w, t)
  BY <1>4, <1>5, OtherFieldsMind, MindsNothing DEF Sound
<1> HIDE DEF t
<1>7. MindsHangup(u, t)
  BY <1>3, <1>4, <1>6, MindsTwice
<1>8. /\ t.callref => s.callref
      /\ t.disconnecting => t.callref
      /\ HasTrunk /\ s.callref => StartsNothing(s, t)
  BY <1>2, <1>7 DEF MindsHangup, NoNewCall, IsEnding, StartsNothing
<1>. QED  BY <1>8 DEF t

(* close() stops what plays on a channel that is to go.                     *)
LEMMA CloseMinds ==
    ASSUME NEW s, Sound(s), NEW destroy, NEW landed \in [Ids -> Nat]
    PROVE  MindsHangup(s, Close(s, destroy, landed))
<1> DEFINE u == [s EXCEPT !.closing = TRUE]
           v == AbortAll(u, "stopped", landed)
           w == CheckCompleted(v, landed)
           t == Close(s, destroy, landed)
<1>1. s \in SequencerType
  BY DEF Sound
<1>2. /\ Sound(u) /\ u.callref = s.callref /\ u.closing
      /\ u.disconnecting = s.disconnecting /\ u.molecule = s.molecule
  BY <1>1, SetFlagsSound DEF SequencerType
<1> HIDE DEF u
<1>3. MindsHangup(s, u)
  BY <1>2 DEF MindsHangup, NoNewCall, IsEnding, StartsNothing
<1>4. Sound(v) /\ MindsHangup(u, v)
  BY <1>2, AbortAllSound, LoopsMind DEF Statuses
<1> HIDE DEF v
<1>5. Sound(w) /\ MindsHangup(v, w)
  BY <1>4, CheckCompletedSound, CheckCompletedMinds
<1> HIDE DEF w
<1>6. w.closing
  BY <1>2, <1>4, <1>5 DEF MindsHangup, NoNewCall
<1> DEFINE gone == [Release(w) EXCEPT !.deleted = TRUE]
           mute == [w EXCEPT !.media = FALSE]
<1>7. t \in {StillThere(w), gone, mute}
  BY DEF Close, w, v, u
<1>8. Sound(Release(w)) /\ MindsHangup(w, Release(w))
  BY <1>5, <1>6, ReleaseSound, ReleaseMinds
<1>9. /\ MindsHangup(Release(w), gone)
      /\ MindsHangup(w, StillThere(w)) /\ MindsHangup(w, mute)
  BY <1>5, <1>8, OtherFieldsMind DEF Sound
<1> HIDE DEF t, gone, mute
<1>10. MindsHangup(w, t)
  BY <1>7, <1>8, <1>9, MindsTwice
<1>11. MindsHangup(s, t)
  BY <1>3, <1>4, <1>5, <1>10, MindsTwice
<1>. QED  BY <1>11 DEF t

(* Only a line disconnects, a call that there is; and no request is on its  *)
(* way to the lock then, for one thread serves all commands.                *)
Minded ==
    /\ seq.callref => HasTrunk
    /\ seq.disconnecting => seq.callref
    /\ client.pc = "adding" => ~seq.disconnecting

(* Nothing starts in this step if the client has hung up.                   *)
MindsStep == seq.disconnecting => StartsNothing(seq, seq')

(* A step that minds a hang-up and adds no request keeps both.              *)
LEMMA MindfulStep ==
    ASSUME Minded, MindsHangup(seq, seq'),
           client'.pc = "adding" => client.pc = "adding"
    PROVE  Minded' /\ MindsStep
  BY DEF Minded, MindsStep, MindsHangup, NoNewCall, IsEnding

(* A thread that carries on after a fault starts nothing.                   *)
LEMMA CarriesOnMinds ==
    ASSUME IInv, NEW t, MindsHangup(seq, t)
    PROVE  MindsHangup(seq, CarriesOn(t))
  BY OtherFieldsMind DEF CarriesOn, IInv, Sound

(* Whatever a thread does inside of completed().                            *)
LEMMA InsideMinds ==
    ASSUME IInv, NEW t \in Threads, Inside(t)
    PROVE  MindsHangup(seq, seq') /\ UNCHANGED client
<1> DEFINE r == thread[t]
<1>1. Sound(seq) /\ seq \in SequencerType /\ ThreadWell(t, r)
      /\ MindsHangup(seq, seq)
  BY MindsNothing DEF IInv, Sound
<1>2. UNCHANGED client
  BY DEF Inside, Completes, AnswersMLCA, Looks, Decides, HangsUp, ClosesAtLast,
         Leaves, Checks
<1>3. \E u : seq' = CarriesOn(u) /\ MindsHangup(seq, u)
  <2>1. ASSUME NEW landed \in Landings, Completes(t, landed)
        PROVE  \E u : seq' = CarriesOn(u) /\ MindsHangup(seq, u)
    <3>1. /\ r.molecule \in Ids /\ r.status \in Statuses
          /\ landed \in [Ids -> Nat]
      BY <1>1, <2>1, LandingsType DEF Completes, ThreadWell, ThreadType
    <3>2. MindsHangup(seq, CompletedLocked(seq, r.molecule, r.status, landed))
      BY <1>1, <3>1, CompletedLockedMinds
    <3>. QED  BY <2>1, <3>2 DEF Completes
  <2>2. CASE AnswersMLCA(t)
    BY <1>1, <2>2, OtherFieldsMind DEF AnswersMLCA
  <2>3. CASE Looks(t) \/ Decides(t)
    BY <1>1, <2>3 DEF Looks, Decides
  <2>4. CASE HangsUp(t)
    BY <1>1, <2>4, OtherFieldsMind DEF HangsUp
  <2>5. CASE ClosesAtLast(t)
    <3> DEFINE u == Release(seq)
    <3>1. Sound(u) /\ (seq.closing => MindsHangup(seq, u))
      BY <1>1, ReleaseSound, ReleaseMinds
    <3>2. MindsHangup(u, [u EXCEPT !.deleted = TRUE])
      BY <3>1, OtherFieldsMind DEF Sound
    <3>3. seq.closing => MindsHangup(seq, [u EXCEPT !.deleted = TRUE])
      BY <3>1, <3>2, MindsTwice
    <3>. QED  BY <1>1, <2>5, <3>3 DEF ClosesAtLast
  <2>6. CASE Leaves(t)
    <3>1. MindsHangup(seq, [seq EXCEPT !.inCompleted = @ - 1])
      BY <1>1, OtherFieldsMind
    <3>. QED  BY <2>6, <3>1 DEF Leaves
  <2>7. CASE Checks(t)
    <3>1. MindsHangup(seq, [seq EXCEPT !.completions = Tail(@)])
      BY <1>1, OtherFieldsMind
    <3>. QED  BY <1>1, <2>7, <3>1 DEF Checks
  <2>. QED  BY <2>1, <2>2, <2>3, <2>4, <2>5, <2>6, <2>7 DEF Inside
<1>. QED  BY <1>2, <1>3, CarriesOnMinds

(* Counting a thread into completed().                                      *)
LEMMA EntersMinds ==
    ASSUME NEW s, Sound(s), NEW m \in Ids, NEW status \in Statuses
    PROVE  MindsHangup(s, Enters(s, m, status))
<1> DEFINE n == s.inCompleted + 1
           u == [s EXCEPT !.inCompleted = n]
<1>1. n \in Int
  BY DEF Sound, SequencerType
<1> HIDE DEF n
<1>2. Sound(u) /\ MindsHangup(s, u)
  BY <1>1, SetInCompletedSound, OtherFieldsMind DEF Sound
<1>3. Enters(s, m, status) \in {AddCompleted(u, m, status), u}
  BY DEF Enters, n
<1> HIDE DEF u
<1>4. MindsHangup(u, AddCompleted(u, m, status))
  BY <1>2, OtherFieldsMind DEF Sound
<1>. QED  BY <1>2, <1>3, <1>4, MindsTwice

(* MLCD, step by step.                                                      *)
LEMMA MLCDMinds ==
    ASSUME IInv,
           \/ \E m \in Ids : MLCD(m)
           \/ MLCDTests \/ MLCDSets \/ MLCDStops \/ MLCDRemoves \/ MLCDReplies
    PROVE  MindsHangup(seq, seq') /\ UNCHANGED client
<1>1. Sound(seq) /\ seq \in SequencerType /\ MindsHangup(seq, seq)
      /\ MindsHangup(seq, Fault(seq))
  BY MindsNothing, OtherFieldsMind DEF IInv, Sound
<1>2. UNCHANGED client
  BY DEF MLCD, MLCDTests, MLCDSets, MLCDStops, MLCDRemoves, MLCDReplies, Discards
<1>3. ASSUME NEW place \in Places \ {"idle"}, Discards(place)
      PROVE  Found \in Ids
  BY <1>3, DiscardsWell
<1>4. ASSUME NEW place \in Places \ {"idle"}, Discards(place),
             NEW next, Stops(Found, next)
      PROVE  MindsHangup(seq, seq')
  <2> DEFINE m == Found
             r == seq.molecule[m]
             q == [r EXCEPT !.stopped = TRUE, !.status = "stopped",
                            !.sample = "stopping", !.sstatus = "stopped"]
             stopped == SetMolecule(seq, m, q)
  <2>1. m \in Ids /\ r \in MT /\ NoLanding \in [Ids -> Nat]
        /\ "stopped" \in Statuses
    BY <1>1, <1>3, <1>4, Fields DEF NoLanding, Statuses
  <2>2. q \in MT /\ SamePlace(r, q) /\ q.active = r.active
    BY <2>1 DEF MT, MoleculeType, SamePlace, SampleStates, Statuses
  <2>3. /\ seq' \in {Fault(seq), Enters(stopped, m, "stopped"),
                     MoleculeStop(seq, m, "stopped", NoLanding)}
    BY <1>4 DEF Stops
  <2> HIDE DEF q, m
  <2>4. Sound(stopped) /\ MindsHangup(seq, stopped)
    BY <1>1, <2>1, <2>2, SetMoleculeSound, SetMoleculeMinds
  <2> HIDE DEF stopped
  <2>5. /\ MindsHangup(stopped, Enters(stopped, m, "stopped"))
        /\ MindsHangup(seq, MoleculeStop(seq, m, "stopped", NoLanding))
    BY <1>1, <2>1, <2>4, EntersMinds, MoleculeStopMinds
  <2>. QED  BY <1>1, <2>3, <2>4, <2>5, MindsTwice
<1>5. MindsHangup(seq, seq')
  <2>1. CASE \E m \in Ids : MLCD(m)
    BY <1>1, <2>1 DEF MLCD
  <2>2. CASE MLCDTests
    BY <1>1, <2>2 DEF MLCDTests
  <2>3. CASE MLCDSets
    <3>1. /\ Found \in Ids
          /\ seq' \in {SetMolecule(seq, Found,
                          [seq.molecule[Found] EXCEPT !.mode = {"discard"}]),
                       Fault(seq)}
      BY <1>3, <2>3 DEF MLCDSets, Places
    <3>2. NoLanding \in [Ids -> Nat]
      BY DEF NoLanding
    <3>. QED  BY <1>1, <3>1, <3>2, DiscardActiveMinds
  <2>4. CASE MLCDStops
    BY <1>4, <2>4 DEF MLCDStops, Places
  <2>5. CASE MLCDRemoves
    <3>1. /\ Discards("removing") /\ "removing" \in Places \ {"idle"}
          /\ \/ Stops(Found, "replying")
             \/ Holds(Found) /\ seq' = Delete(seq, Found)
      BY <2>5 DEF MLCDRemoves, Places
    <3>2. Holds(Found) => MindsHangup(seq, Delete(seq, Found))
      BY <1>1, <1>3, <3>1, DeleteMinds DEF Holds
    <3>. QED  BY <1>4, <3>1, <3>2
  <2>6. CASE MLCDReplies
    BY <1>1, <2>6, CarriesOnMinds, OtherFieldsMind DEF MLCDReplies
  <2>. QED  BY <2>1, <2>2, <2>3, <2>4, <2>5, <2>6
<1>. QED  BY <1>2, <1>5

(* A molecule is requested or dropped.                                      *)
LEMMA MLCAMinds ==
    ASSUME IInv, Minded, NEW m \in Ids,
           \/ \E o \in Offers : MLCA(m, o)
           \/ MLCAFails(m)
           \/ \E landed \in Landings : MLCAAdds(m, landed)
    PROVE  Minded' /\ MindsStep
<1>1. Sound(seq) /\ seq \in SequencerType
  BY DEF IInv, Sound
<1>2. ASSUME NEW o \in Offers, MLCA(m, o)
      PROVE  Minded' /\ MindsStep
  <2> DEFINE r == NewMolecule(o.channel, o.priority, o.mode, o.atoms, NoId)
             g == [r EXCEPT !.phase = "gone"]
             refused == SetMolecule(seq, m, g)
  <2>1. g \in MT /\ g.phase = "gone" /\ ~g.active
    <3>1. r \in MT /\ g \in MT /\ g.phase = "gone" /\ ~r.active
      BY NewMoleculeType DEF NewMolecule
    <3> HIDE DEF r
    <3>. QED  BY <3>1 DEF MT, MoleculeType
  <2>2. \/ Refuses(seq) /\ seq' = SendMLCA(refused, m) /\ UNCHANGED client
        \/ ~Refuses(seq) /\ UNCHANGED seq
    BY <1>2 DEF MLCA
  <2> HIDE DEF g
  <2>3. MindsHangup(seq, refused) /\ refused \in SequencerType
    BY <1>1, <2>1, SetMoleculeMinds, SetMoleculeProperties
  <2> HIDE DEF refused
  <2>4. MindsHangup(seq, SendMLCA(refused, m))
    BY <2>3, OtherFieldsMind, MindsTwice
  <2>5. CASE Refuses(seq)
    BY <2>2, <2>4, <2>5, MindfulStep
  <2>6. CASE ~Refuses(seq)
    BY <2>2, <2>6 DEF Refuses, Minded, MindsStep
  <2>. QED  BY <2>5, <2>6
<1>3. ASSUME client.pc = "adding", NEW t, NoNewCall(seq, t), seq' = CarriesOn(t),
             client' = NoRequest
      PROVE  Minded' /\ MindsStep
  <2>1. NoNewCall(seq, seq')
    BY <1>1, <1>3, OtherFieldsMind DEF CarriesOn, MindsHangup
  <2>. QED  BY <1>3, <2>1, NoRequestType DEF Minded, MindsStep, NoNewCall
<1>4. CASE MLCAFails(m)
  <2> DEFINE g == [client.request EXCEPT !.phase = "gone"]
             u == SetMolecule(seq, m, g)
  <2>1. client.request \in MT
    BY DEF IInv, ClientType, MT
  <2>2. g \in MT
    BY <2>1 DEF MT, MoleculeType, Phases
  <2> HIDE DEF g
  <2>3. SameCall(seq, u) /\ u \in SequencerType
    BY <1>1, <2>2, SetMoleculeProperties DEF SameCall, SetMolecule, SequencerType
  <2>4. seq' = CarriesOn(SendMLCA(u, m)) /\ client' = NoRequest
        /\ client.pc = "adding"
    BY <1>4 DEF MLCAFails, g
  <2> HIDE DEF u
  <2>5. NoNewCall(seq, SendMLCA(u, m))
    BY <2>3, OtherFieldsMind DEF SameCall, MindsHangup, NoNewCall
  <2>. QED  BY <1>3, <2>4, <2>5
<1>5. ASSUME NEW landed \in Landings, MLCAAdds(m, landed)
      PROVE  Minded' /\ MindsStep
  <2> DEFINE r == client.request
             g == [r EXCEPT !.phase = "gone"]
             t == IF seq.media
                  THEN CheckCompleted(ActivityAdd(seq, m, r, landed), landed)
                  ELSE SetMolecule(seq, m, g)
  <2>1. /\ r \in MT /\ r.phase = "queued" /\ landed \in [Ids -> Nat]
        /\ seq.molecule[m].phase = "new"
    BY <1>5, LandingsType DEF MLCAAdds, IInv, ClientType, MT
  <2>2. NoNewCall(seq, CheckCompleted(ActivityAdd(seq, m, r, landed), landed))
    BY <1>1, <2>1, AddsNoCall
  <2>3. SameCall(seq, SetMolecule(seq, m, g))
    <3> HIDE DEF g
    <3>. QED  BY <1>1 DEF SameCall, SetMolecule, SequencerType
  <2>4. NoNewCall(seq, t)
    BY <2>2, <2>3 DEF SameCall, NoNewCall
  <2>5. seq' = CarriesOn(t) /\ client' = NoRequest /\ client.pc = "adding"
    BY <1>5 DEF MLCAAdds
  <2> HIDE DEF t
  <2>. QED  BY <1>3, <2>4, <2>5
<1>. QED  BY <1>2, <1>4, <1>5

(* MLDP and its turns.                                                      *)
LEMMA MLDPMinds ==
    ASSUME IInv, NEW landed \in Landings, MLDPVisit(landed)
    PROVE  MindsHangup(seq, seq') /\ UNCHANGED client
<1> DEFINE m == Head(sweep.todo)
           r == seq.molecule[m]
           t == IF r.phase \notin {"queued", "detached"} THEN Fault(seq)
                ELSE IF r.priority \notin sweep.from..sweep.to THEN seq
                ELSE IF r.active /\ sweep.immediately
                     THEN DiscardActive(seq, m, landed)
                     ELSE ActivityRemove(seq, m, landed)
<1>1. landed \in [Ids -> Nat] /\ Sound(seq) /\ seq \in SequencerType
  BY LandingsType DEF IInv, Sound
<1>2. m \in Ids
  BY HeadTailProperties DEF MLDPVisit, IInv, SweepType
<1>3. seq' = StillThere(t) /\ UNCHANGED client
  BY DEF MLDPVisit
<1> HIDE DEF m
<1>4. /\ MindsHangup(seq, Fault(seq)) /\ Sound(Fault(seq))
      /\ MindsHangup(seq, seq)
      /\ MindsHangup(seq, DiscardActive(seq, m, landed))
      /\ Sound(DiscardActive(seq, m, landed))
  BY <1>1, <1>2, OtherFieldsMind, FaultSound, MindsNothing, DiscardActiveMinds,
     DiscardActiveSound
<1>5. r.phase \in {"queued", "detached"}
         => /\ MindsHangup(seq, ActivityRemove(seq, m, landed))
            /\ Sound(ActivityRemove(seq, m, landed))
  BY <1>1, <1>2, MoleculeStopMinds, DeleteMinds, ActivityRemoveSound
     DEF ActivityRemove, Statuses
<1>6. MindsHangup(seq, t) /\ Sound(t)
  BY <1>1, <1>4, <1>5
<1> HIDE DEF t
<1>7. MindsHangup(t, StillThere(t))
  BY <1>6, OtherFieldsMind DEF Sound
<1>. QED  BY <1>3, <1>6, <1>7, MindsTwice

(* The other commands.                                                      *)
LEMMA CommandsMind ==
    ASSUME IInv, Minded,
           \/ \E landed \in Landings : DISC(landed) \/ BGRC(landed) \/ LostCall(landed)
           \/ LostConnection \/ LosesCall \/ CNFC
    PROVE  Minded' /\ MindsStep
<1>1. /\ \A landed \in Landings : landed \in [Ids -> Nat]
      /\ Sound(seq) /\ seq \in SequencerType /\ MindsHangup(seq, seq)
      /\ client \in ClientType
  BY LandingsType, MindsNothing DEF IInv, Sound
<1>2. ASSUME NEW landed \in Landings, DISC(landed)
      PROVE  Minded' /\ MindsStep
  <2>1. /\ ~seq.disconnecting /\ HasTrunk /\ seq' = Disconnect(seq, landed)
        /\ UNCHANGED client /\ client.pc = "idle"
    BY <1>2 DEF DISC, ClientReady
  <2>. QED  BY <1>1, <2>1, DisconnectMinds DEF Minded, MindsStep
<1>3. ASSUME NEW landed \in Landings, BGRC(landed)
      PROVE  Minded' /\ MindsStep
  <2>1. seq' = Close(seq, TRUE, landed) /\ UNCHANGED client
    BY <1>3 DEF BGRC
  <2>2. MindsHangup(seq, seq')
    BY <1>1, <2>1, CloseMinds
  <2>. QED  BY <2>1, <2>2, MindfulStep
<1>4. ASSUME NEW landed \in Landings, LostCall(landed)
      PROVE  Minded' /\ MindsStep
  <2>0. client' = [client EXCEPT !.pc = "idle"]
    BY <1>4 DEF LostCall
  <2>1. client'.pc = "idle"
    BY <1>1, <2>0 DEF ClientType
  <2>2. CASE client.pc = "disconnecting"
    <3> DEFINE t == Disconnect(seq, landed)
    <3>1. seq' = CarriesOn(t)
      BY <1>4, <2>2 DEF LostCall
    <3>2. /\ t.callref => seq.callref
          /\ t.disconnecting => t.callref
          /\ HasTrunk /\ seq.callref => StartsNothing(seq, t)
      BY <1>1, DisconnectMinds
    <3> HIDE DEF t
    <3>3. CASE seq' = t
      BY <2>1, <3>2, <3>3 DEF Minded, MindsStep
    <3>4. CASE seq' = Fault(seq)
      BY <1>1, <2>1, <3>4, OtherFieldsMind, MindfulStep
    <3>. QED  BY <3>1, <3>3, <3>4 DEF CarriesOn
  <2>3. CASE client.pc # "disconnecting"
    <3> DEFINE t == Close(seq, FALSE, landed)
    <3>1. seq' = CarriesOn(t)
      BY <1>4, <2>3 DEF LostCall
    <3>2. MindsHangup(seq, t)
      BY <1>1, CloseMinds
    <3> HIDE DEF t
    <3>. QED  BY <2>1, <3>1, <3>2, CarriesOnMinds, MindfulStep
  <2>. QED  BY <2>2, <2>3
<1>5. CASE LostConnection
  <2>1. /\ seq' = [seq EXCEPT !.interface = FALSE]
        /\ client' = [client EXCEPT !.pc = "losing"]
    BY <1>5 DEF LostConnection
  <2>2. client'.pc = "losing"
    BY <1>1, <2>1 DEF ClientType
  <2>3. MindsHangup(seq, seq')
    BY <1>1, <2>1, OtherFieldsMind
  <2>. QED  BY <2>2, <2>3, MindfulStep
<1>6. CASE LosesCall
  <2> DEFINE p == IF seq.callref THEN "disconnecting"
                  ELSE IF ~HasTrunk THEN "closing" ELSE "idle"
  <2>1. seq' = CarriesOn(seq) /\ client' = [client EXCEPT !.pc = p]
    BY <1>6 DEF LosesCall
  <2>2. p # "adding"
    OBVIOUS
  <2> HIDE DEF p
  <2>3. client'.pc # "adding"
    BY <1>1, <2>1, <2>2 DEF ClientType
  <2>. QED  BY <1>1, <2>1, <2>3, CarriesOnMinds, MindfulStep
<1>7. CASE CNFC
  <2>1. seq' = [seq EXCEPT !.conference = FALSE] /\ UNCHANGED client
    BY <1>7 DEF CNFC
  <2>2. MindsHangup(seq, seq')
    BY <1>1, <2>1, OtherFieldsMind
  <2>. QED  BY <2>1, <2>2, MindfulStep
<1>. QED  BY <1>2, <1>3, <1>4, <1>5, <1>6, <1>7

(* Events.                                                                  *)
LEMMA EventsMind ==
    ASSUME IInv,
           \/ \E m \in Ids : MediaEvent(m) \/ TimerExpires(m) \/ OrphanExpires(m)
           \/ \E landed \in Landings : Touchtone(landed) \/ DisconnectRequest(landed)
           \/ Forgets
    PROVE  MindsHangup(seq, seq') /\ UNCHANGED client
<1>1. /\ \A landed \in Landings : landed \in [Ids -> Nat]
      /\ Sound(seq) /\ seq \in SequencerType /\ MindsHangup(seq, seq)
  BY LandingsType, MindsNothing DEF IInv, Sound
<1>2. \A m \in Ids : seq.molecule[m] \in MT
  BY <1>1, Fields
<1>3. ASSUME NEW m \in Ids, MediaEvent(m)
      PROVE  MindsHangup(seq, seq') /\ UNCHANGED client
  <2> DEFINE r == seq.molecule[m]
             q == [r EXCEPT !.sample = "idle"]
             u == SetMolecule(seq, m, q)
  <2>1. q \in MT /\ SamePlace(r, q) /\ q.active = r.active /\ r.sstatus \in Statuses
    <3>1. r \in MT
      BY <1>2
    <3> HIDE DEF r
    <3>. QED  BY <3>1, RecordFields DEF MT, MoleculeType, SamePlace, SampleStates
  <2>2. seq' = Enters(u, m, r.sstatus) /\ UNCHANGED client
    BY <1>3 DEF MediaEvent
  <2> HIDE DEF q
  <2>3. Sound(u) /\ MindsHangup(seq, u)
    BY <1>1, <2>1, SetMoleculeSound, SetMoleculeMinds
  <2> HIDE DEF u
  <2>. QED  BY <2>1, <2>2, <2>3, EntersMinds, MindsTwice
<1>4. ASSUME NEW m \in Ids, TimerExpires(m) \/ OrphanExpires(m)
      PROVE  MindsHangup(seq, seq') /\ UNCHANGED client
  <2> DEFINE r == seq.molecule[m]
             n == r.orphans - 1
             f == [r EXCEPT !.sample = "fired"]
             o == [r EXCEPT !.orphans = n]
  <2>1. /\ f \in MT /\ f.active = r.active
        /\ r.orphans > 0 => o \in MT /\ o.active = r.active
    <3>1. r \in MT
      BY <1>2
    <3>2. r.orphans > 0 => n \in Nat
      BY <3>1 DEF MT, MoleculeType
    <3> HIDE DEF r, n
    <3>. QED  BY <3>1, <3>2 DEF MT, MoleculeType, SampleStates
  <2>2. /\ \/ seq' = SetMolecule(seq, m, f)
           \/ r.orphans > 0 /\ seq' = SetMolecule(seq, m, o)
        /\ UNCHANGED client
    BY <1>4 DEF TimerExpires, OrphanExpires
  <2> HIDE DEF f, o
  <2>. QED  BY <1>1, <2>1, <2>2, SetMoleculeMinds
<1>5. ASSUME NEW landed \in Landings, Touchtone(landed)
      PROVE  MindsHangup(seq, seq') /\ UNCHANGED client
  BY <1>1, <1>5, LoopsMind DEF Touchtone, Statuses
<1>6. ASSUME NEW landed \in Landings, DisconnectRequest(landed)
      PROVE  MindsHangup(seq, seq') /\ UNCHANGED client
  <2> DEFINE v == AbortAll(seq, "stopped_disconnect", landed)
             w == CheckCompleted(v, landed)
             a == w.media /\ ~ChannelsIdle(w)
             b == w.sentRdis \/ (w.callref /\ ~w.disconnecting)
  <2>1. seq' = [w EXCEPT !.media = a, !.sentRdis = b] /\ UNCHANGED client
    BY <1>6 DEF DisconnectRequest
  <2>2. Sound(v) /\ MindsHangup(seq, v)
    BY <1>1, AbortAllSound, LoopsMind DEF Statuses
  <2> HIDE DEF v
  <2>3. Sound(w) /\ MindsHangup(v, w)
    BY <1>1, <2>2, CheckCompletedSound, CheckCompletedMinds
  <2> HIDE DEF w, a, b
  <2>4. MindsHangup(w, [w EXCEPT !.media = a, !.sentRdis = b])
    BY <2>3, OtherFieldsMind DEF Sound
  <2>. QED  BY <2>1, <2>2, <2>3, <2>4, MindsTwice
<1>7. CASE Forgets
  <2> DEFINE m == thread["timer"].own
             r == seq.molecule[m]
             x == IF r.sample \in {"active", "fired"} THEN "idle" ELSE r.sample
             n == IF r.sample = "active" THEN r.orphans + 1 ELSE r.orphans
             q == [r EXCEPT !.sample = x, !.orphans = n]
             u == Invalidate(seq, m, thread["timer"].atom)
  <2>1. /\ m \in Ids /\ seq' = CarriesOn(u) /\ UNCHANGED client
    BY <1>7 DEF Forgets, IInv, Threads, ThreadWell
  <2>2. r \in MT
    BY <1>2, <2>1
  <2>3. x \in SampleStates /\ n \in Nat
    BY <2>2 DEF MT, MoleculeType, SampleStates
  <2>4. u \in {SetMolecule(seq, m, q), seq, Fault(seq)}
    <3>1. q = [r EXCEPT !.sample = IF @ \in {"active", "fired"} THEN "idle" ELSE @,
                        !.orphans = IF r.sample = "active" THEN @ + 1 ELSE @]
      BY <2>2 DEF MT, MoleculeType
    <3>. QED  BY <3>1 DEF Invalidate
  <2> HIDE DEF x, n
  <2>5. q \in MT /\ q.active = r.active
    BY <2>2, <2>3 DEF MT, MoleculeType
  <2> HIDE DEF q, u, m
  <2>6. MindsHangup(seq, SetMolecule(seq, m, q)) /\ MindsHangup(seq, Fault(seq))
    BY <1>1, <2>1, <2>5, SetMoleculeMinds, OtherFieldsMind
  <2>7. MindsHangup(seq, u)
    BY <1>1, <2>4, <2>6
  <2>. QED  BY <2>1, <2>7, CarriesOnMinds
<1>. QED  BY <1>3, <1>4, <1>5, <1>6, <1>7

(* Every step of every thread minds a hang-up.                              *)
LEMMA MindedStep ==
    ASSUME IInv, Minded, [Next]_vars
    PROVE  Minded' /\ MindsStep
<1>0. /\ "client" \in Threads /\ "media" \in Threads /\ "timer" \in Threads
      /\ Sound(seq)
  BY DEF Threads, IInv
<1>1. CASE Client
  <2>1. CASE \E m \in Ids : \/ \E o \in Offers : MLCA(m, o)
                            \/ MLCAFails(m)
                            \/ \E landed \in Landings : MLCAAdds(m, landed)
    BY <2>1, MLCAMinds
  <2>2. CASE \/ \E m \in Ids : MLCD(m)
             \/ MLCDTests \/ MLCDSets \/ MLCDStops \/ MLCDRemoves \/ MLCDReplies
    BY <2>2, MLCDMinds, MindfulStep
  <2>3. CASE Inside("client")
    BY <1>0, <2>3, InsideMinds, MindfulStep
  <2>4. CASE \E channels \in {{0}, {1}, Channels}, from, to \in Priorities,
                immediately \in BOOLEAN : MLDP(channels, from, to, immediately)
    BY <2>4, MindsNothing, MindfulStep DEF MLDP
  <2>5. CASE \/ \E landed \in Landings :
                   DISC(landed) \/ BGRC(landed) \/ LostCall(landed)
             \/ LostConnection \/ LosesCall \/ CNFC
    BY <2>5, CommandsMind
  <2>. QED  BY <1>1, <2>1, <2>2, <2>3, <2>4, <2>5 DEF Client
<1>2. CASE Sweep
  BY <1>2, MLDPMinds, MindfulStep DEF Sweep
<1>3. CASE MediaThread
  BY <1>0, <1>3, EventsMind, InsideMinds, MindfulStep DEF MediaThread
<1>4. CASE Arrives("touchtone") /\ \E landed \in Landings : Touchtone(landed)
  BY <1>4, EventsMind, MindfulStep
<1>5. CASE TimerThread
  BY <1>0, <1>5, EventsMind, InsideMinds, MindfulStep DEF TimerThread
<1>6. CASE TrunkThread
  <2>1. CASE \E landed \in Landings : DisconnectRequest(landed)
    BY <2>1, EventsMind, MindfulStep
  <2>2. CASE DisconnectDone
    BY <1>0, <2>2, ReleaseMinds DEF DisconnectDone, Minded, MindsStep
  <2>3. CASE OnIncoming
    <3>1. /\ HasTrunk /\ ~seq.callref /\ UNCHANGED client
          /\ seq'.disconnecting = seq.disconnecting
      BY <1>0, <2>3 DEF OnIncoming, Sound, SequencerType
    <3>. QED  BY <3>1 DEF Minded, MindsStep
  <2>. QED  BY <1>6, <2>1, <2>2, <2>3 DEF TrunkThread
<1>7. CASE UNCHANGED vars
  BY <1>7, MindsNothing, MindfulStep DEF vars
<1>. QED  BY <1>1, <1>2, <1>3, <1>4, <1>5, <1>6, <1>7 DEF Next

(* DISC, or a lost connection, is waiting for the channels: completed()     *)
(* starts nothing on them any more, MLCA and MLDP neither, whatever plays   *)
(* and whatever else arrives meanwhile, for all offers and stimuli.         *)
THEOREM NoLateStart == Spec => NothingStartsLate
<1>1. Init => Minded
  BY NoRequestType DEF Init, Minded
<1>2. IInv /\ Minded /\ [Next]_vars => Minded'
  BY MindedStep
<1>3. Spec => [](IInv /\ Minded)
  BY <1>1, <1>2, Invariance, PTL DEF Spec
<1>4. IInv /\ Minded /\ [Next]_vars
         => [seq.disconnecting =>
                \A m \in Ids : seq'.molecule[m].active
                                  => seq.molecule[m].active]_vars
  BY MindedStep DEF MindsStep, StartsNothing
<1>. QED  BY <1>3, <1>4, PTL DEF Spec, NothingStartsLate
=============================================================================
