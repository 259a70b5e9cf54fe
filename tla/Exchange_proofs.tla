----------------------------- MODULE Exchange_proofs -----------------------------
(****************************************************************************)
(* Why the server uses no connection that it has deleted, and why no LSTN   *)
(* is lost, for any number of clients, lines, commands and calls.           *)
(****************************************************************************)
EXTENDS Exchange, Lists_proofs, FiniteSetTheorems

----------------------------------------------------------------------------
(*                       The inductive invariant                            *)

(* Every listener is what a LSTN made of it.  Their numbers ascend in each  *)
(* queue, because LSTN appends the next number and the others only remove.  *)
Tidy(s, l) ==
    /\ \A i \in DOMAIN s :
          s[i].id \in DOMAIN l /\ s[i].client = l[s[i].id] /\ i <= s[i].id
    /\ \A i, j \in DOMAIN s : i < j => s[i].id < s[j].id

ItemsListed ==
    /\ \A q \in Queues : Tidy(queue[q], listens)
    /\ worker.pc = "offer" =>
          worker.item.id \in DOMAIN listens /\ worker.item.client = listens[worker.item.id]
    /\ worker.pc # "offer" => worker.item = NoItem
    /\ served \subseteq DOMAIN listens
    /\ worker.seen \subseteq DOMAIN listens

(* No listener is in two places.                                            *)
Apart ==
    /\ Queued("trunk") \cap Queued("global") = {}
    /\ \A q \in Queues : Queued(q) \cap served = {}
    /\ \A q \in Queues : worker.item.id \notin Queued(q)
    /\ worker.item.id \notin served

(* The listener of a connected client is in one, ...                        *)
Somewhere ==
    \A id \in DOMAIN listens : conn[listens[id]].state = "open" =>
        \/ id \in Queued("trunk") \cup Queued("global") \cup served
        \/ id = worker.item.id

Tidying(c) ==
    iface.pc \in {"queues", "telling", "hanging", "deleting"} /\ iface.client = c

(* ... and lost_connection() has been to the queues before it goes to the   *)
(* calls, and to both before the connection is deleted.                     *)
Cleaned ==
    \A c \in Clients :
        /\ Tidying(c) => \A id \in Queued("global") : listens[id] # c
        /\ (Iterates(c) \/ conn[c].state = "gone") =>
               \A q \in Queues : \A id \in Queued(q) : listens[id] # c

(* What onIncoming() has looked at has no old listener left.                *)
Searched ==
    /\ worker.pc \in {"global", "reject"} => worker.seen \cap Queued("trunk") = {}
    /\ worker.pc = "reject" => worker.seen \cap Queued("global") = {}

QueuesWell == ItemsListed /\ Apart /\ Somewhere /\ Cleaned /\ Searched

(* Where the threads are.                                                   *)
ThreadsWell ==
    /\ worker.pc # "idle" => worker.line \in Line /\ line[worker.line].phase = "ringing"
    /\ \A l \in Line : line[l].phase = "dialing" => line[l].dialer \in Clients
    /\ iface.pc # "idle" => iface.client \in Clients
    /\ \A c \in Clients : conn[c].state = "lost" <=> Tidying(c)
    /\ iface.pc \in {"connecting", "found"} => conn[iface.client].state = "open"
    /\ iface.pc \in {"found", "telling", "hanging"} => iface.line \in Line

(* The lines whose call is the client's, and the calls of the client that   *)
(* lost_connection() has not come to yet.                                   *)
IsCallOf(l, c) ==
    line[l].client = c /\ (line[l].phase \in {"up", "hungup"} \/ line[l].asked)

Serves(c) == {l \in Line : IsCallOf(l, c)}

Known(c) ==
    IF conn[c].state = "open" \/ (iface.pc = "queues" /\ iface.client = c)
    THEN conn[c].calls
    ELSE IF iface.pc = "telling" /\ iface.client = c
    THEN {l \in conn[c].calls : l >= iface.line}
    ELSE IF iface.pc = "hanging" /\ iface.client = c
    THEN {l \in conn[c].calls : l > iface.line}
    ELSE {}

(* As long as nothing went wrong they are the same, and no call is on its   *)
(* way to a client that is gone.                                            *)
CallsFollow ==
    /\ \A c \in Clients : Serves(c) = Known(c)
    /\ \A c \in Clients : conn[c].state = "gone" => conn[c].calls = {}
    /\ iface.pc = "telling" => iface.line \in conn[iface.client].calls
    /\ worker.pc = "offer" => conn[worker.item.client].state # "gone"
    /\ \A l \in Line :
          line[l].phase = "dialing" => conn[line[l].dialer].state # "gone"

(* Nor is anybody else about to tell such a client something.               *)
SendersWell ==
    \A t \in Senders, l \in Line : sending[t] = l =>
        line[l].client \in Clients /\ conn[line[l].client].state # "gone"

IInv ==
    /\ Sound
    /\ QueuesWell
    /\ ThreadsWell
    /\ troubles = {} => CallsFollow /\ SendersWell

----------------------------------------------------------------------------
(*                                  Types                                   *)

(* Removing listeners keeps the queue tidy, and says which are left.        *)
Ids(s) == {s[i].id : i \in DOMAIN s}

LEMMA WithoutIsTidy ==
    ASSUME NEW s \in Seq(Item), NEW c, NEW l, Tidy(s, l)
    PROVE  LET t == Only(s, Others(c))
           IN /\ t \in Seq(Item)
              /\ Tidy(t, l)
              /\ Ids(t) = {id \in Ids(s) : l[id] # c}
<1> DEFINE S == Others(c)
           t == Only(s, S)
<1>1. t \in Seq(Item) /\ \E f : Selects(t, s, Len(s), S, f)
  BY OnlySelects
<1>2. PICK f : Selects(t, s, Len(s), S, f)
  BY <1>1
<1>3. \A x \in Item : x \in S <=> x.client # c
  BY DEF Others
<1> HIDE DEF t, S
<1>4. DOMAIN s = 1..Len(s) /\ DOMAIN t = 1..Len(t) /\ Len(s) \in Nat /\ Len(t) \in Nat
  BY <1>1
<1>5. \A k \in DOMAIN t : /\ k \in Nat /\ f[k] \in DOMAIN s /\ k <= f[k] /\ f[k] \in Nat
                          /\ t[k] = s[f[k]] /\ s[f[k]] \in S /\ s[f[k]] \in Item
  BY <1>2, <1>4 DEF Selects
<1>6. \A k, m \in DOMAIN t : k < m => f[k] < f[m]
  BY <1>2, <1>4 DEF Selects
<1>7. \A j \in DOMAIN s : s[j] \in S => \E k \in DOMAIN t : f[k] = j
  BY <1>2, <1>4 DEF Selects
<1>8. Tidy(t, l)
  <2>1. ASSUME NEW i \in DOMAIN t
        PROVE  t[i].id \in DOMAIN l /\ t[i].client = l[t[i].id] /\ i <= t[i].id
    <3>1. i <= f[i] /\ f[i] <= s[f[i]].id /\ s[f[i]].id \in Nat
      BY <1>5 DEF Tidy, Item
    <3>. QED  BY <3>1, <1>5 DEF Tidy
  <2>2. ASSUME NEW i \in DOMAIN t, NEW j \in DOMAIN t, i < j PROVE t[i].id < t[j].id
    BY <2>2, <1>5, <1>6 DEF Tidy
  <2>. QED  BY <2>1, <2>2 DEF Tidy
<1>9. Ids(t) = {id \in Ids(s) : l[id] # c}
  <2>1. ASSUME NEW id \in Ids(t) PROVE id \in Ids(s) /\ l[id] # c
    <3>1. PICK i \in DOMAIN t : id = t[i].id
      BY DEF Ids
    <3>2. f[i] \in DOMAIN s /\ id = s[f[i]].id /\ s[f[i]].client # c
      BY <3>1, <1>5, <1>3
    <3>. QED  BY <3>2 DEF Ids, Tidy
  <2>2. ASSUME NEW id \in Ids(s), l[id] # c PROVE id \in Ids(t)
    <3>1. PICK j \in DOMAIN s : id = s[j].id
      BY DEF Ids
    <3>2. s[j] \in Item /\ s[j].client # c
      BY <3>1, <2>2 DEF Tidy
    <3>3. PICK k \in DOMAIN t : f[k] = j
      BY <3>2, <1>3, <1>7
    <3>. QED  BY <3>1, <3>3, <1>5 DEF Ids
  <2>. QED  BY <2>1, <2>2
<1>. QED  BY <1>1, <1>8, <1>9 DEF t, S

(* ClientQueue::dequeue takes the oldest.                                   *)
LEMMA TailIsTidy ==
    ASSUME NEW s \in Seq(Item), s # << >>, NEW l, Tidy(s, l)
    PROVE  /\ Tail(s) \in Seq(Item) /\ Tidy(Tail(s), l)
           /\ Head(s) \in Item /\ Head(s).id \in Ids(s)
           /\ Head(s).id \in DOMAIN l /\ Head(s).client = l[Head(s).id]
           /\ Ids(Tail(s)) = Ids(s) \ {Head(s).id}
<1> DEFINE t == Tail(s)
<1>1. /\ Len(s) \in Nat \ {0} /\ DOMAIN s = 1..Len(s) /\ 1 \in DOMAIN s
      /\ Head(s) = s[1] /\ \A i \in DOMAIN s : s[i] \in Item
  OBVIOUS
<1>2. /\ t \in Seq(Item) /\ Len(t) = Len(s) - 1 /\ DOMAIN t = 1..Len(t)
      /\ \A i \in DOMAIN t : t[i] = s[i + 1]
  OBVIOUS
<1> HIDE DEF t
<1>3. \A i \in DOMAIN t : i + 1 \in DOMAIN s /\ i \in Nat
  BY <1>1, <1>2
<1>4. Tidy(t, l)
  <2>1. ASSUME NEW i \in DOMAIN t
        PROVE  t[i].id \in DOMAIN l /\ t[i].client = l[t[i].id] /\ i <= t[i].id
    <3>1. i + 1 <= s[i + 1].id /\ s[i + 1].id \in Nat
      BY <1>1, <1>3 DEF Tidy, Item
    <3>. QED  BY <3>1, <1>2, <1>3 DEF Tidy
  <2>2. ASSUME NEW i \in DOMAIN t, NEW j \in DOMAIN t, i < j PROVE t[i].id < t[j].id
    <3>1. i + 1 < j + 1
      BY <1>3, <2>2
    <3>. QED  BY <3>1, <1>2, <1>3 DEF Tidy
  <2>. QED  BY <2>1, <2>2 DEF Tidy
<1>5. Ids(t) = Ids(s) \ {s[1].id}
  <2>1. ASSUME NEW i \in DOMAIN t PROVE t[i].id \in Ids(s) \ {s[1].id}
    <3>1. 1 < i + 1 /\ s[1].id < s[i + 1].id /\ s[1].id \in Nat
      BY <1>1, <1>2, <1>3 DEF Tidy, Item
    <3>. QED  BY <3>1, <1>2, <1>3 DEF Ids
  <2>2. ASSUME NEW j \in DOMAIN s, j # 1 PROVE s[j].id \in Ids(t)
    <3>1. j - 1 \in DOMAIN t /\ (j - 1) + 1 = j
      BY <2>2, <1>1, <1>2
    <3>. QED  BY <3>1, <1>2 DEF Ids
  <2>. QED  BY <2>1, <2>2 DEF Ids
<1>. QED  BY <1>1, <1>2, <1>4, <1>5 DEF t, Tidy, Ids

(* LSTN appends the next number.                                            *)
LEMMA AppendIsTidy ==
    ASSUME NEW s \in Seq(Item), NEW l \in Seq(Clients), Tidy(s, l), NEW c \in Clients,
           Len(l) < MaxListens
    PROVE  LET x == [id |-> Len(l) + 1, client |-> c]
               t == Append(s, x)
           IN /\ x \in Item /\ t \in Seq(Item)
              /\ Tidy(t, Append(l, c))
              /\ Ids(t) = Ids(s) \cup {Len(l) + 1}
<1> DEFINE n == Len(l) + 1
           x == [id |-> n, client |-> c]
           t == Append(s, x)
           m == Append(l, c)
<1>1. x \in Item /\ t \in Seq(Item) /\ n \in Nat /\ x.id = n /\ x.client = c
  BY ExchangeAssumption DEF Item
<1>2. /\ m[n] = c /\ n \in DOMAIN m
      /\ \A i \in DOMAIN l : i \in DOMAIN m /\ m[i] = l[i] /\ i < n /\ i \in Nat
  OBVIOUS
<1>3. /\ Len(s) \in Nat /\ DOMAIN s = 1..Len(s)
      /\ DOMAIN t = 1..(Len(s) + 1) /\ t[Len(s) + 1] = x
      /\ \A i \in DOMAIN s : t[i] = s[i] /\ s[i] \in Item
  BY <1>1
<1> HIDE DEF n, x, t, m
<1>4. \A i \in DOMAIN t : i \in DOMAIN s \/ i = Len(s) + 1
  BY <1>3
<1>5. \A i \in DOMAIN s : s[i].id \in DOMAIN l /\ s[i].id \in Nat /\ s[i].id < n
  BY <1>2 DEF Tidy
<1>6. Len(s) + 1 <= n
  <2>1. CASE Len(s) = 0
    BY <2>1 DEF n
  <2>2. CASE Len(s) # 0
    <3>1. Len(s) \in DOMAIN s
      BY <2>2, <1>3
    <3>2. Len(s) <= s[Len(s)].id /\ s[Len(s)].id < n /\ s[Len(s)].id \in Nat
      BY <3>1, <1>5 DEF Tidy
    <3>. QED  BY <3>2, <1>1, <1>3
  <2>. QED  BY <2>1, <2>2
<1>7. Tidy(t, m)
  <2>1. ASSUME NEW i \in DOMAIN t
        PROVE  t[i].id \in DOMAIN m /\ t[i].client = m[t[i].id] /\ i <= t[i].id
    <3>1. CASE i \in DOMAIN s
      BY <3>1, <1>2, <1>3 DEF Tidy
    <3>2. CASE i = Len(s) + 1
      BY <3>2, <1>1, <1>2, <1>3, <1>6
    <3>. QED  BY <3>1, <3>2, <1>4
  <2>2. ASSUME NEW i \in DOMAIN t, NEW j \in DOMAIN t, i < j PROVE t[i].id < t[j].id
    <3>1. i \in DOMAIN s
      BY <2>2, <1>3
    <3>2. CASE j \in DOMAIN s
      BY <2>2, <3>1, <3>2, <1>3 DEF Tidy
    <3>3. CASE j = Len(s) + 1
      BY <3>1, <3>3, <1>1, <1>3, <1>5
    <3>. QED  BY <3>2, <3>3, <1>4
  <2>. QED  BY <2>1, <2>2 DEF Tidy
<1>8. Ids(t) = Ids(s) \cup {n}
  <2>1. ASSUME NEW i \in DOMAIN t PROVE t[i].id \in Ids(s) \cup {n}
    BY <1>1, <1>3, <1>4 DEF Ids
  <2>2. n \in Ids(t)
    <3>1. Len(s) + 1 \in DOMAIN t
      BY <1>3
    <3>. QED  BY <3>1, <1>1, <1>3 DEF Ids
  <2>3. ASSUME NEW i \in DOMAIN s PROVE s[i].id \in Ids(t)
    <3>1. i \in DOMAIN t
      BY <1>3
    <3>. QED  BY <3>1, <1>3 DEF Ids
  <2>. QED  BY <2>1, <2>2, <2>3 DEF Ids
<1>. QED  BY <1>1, <1>7, <1>8 DEF n, x, t, m

(* What the parts of the state are, and what the actions make of them.      *)
LEMMA LineUpdates ==
    ASSUME NEW r \in LineType, NEW c \in ClientOrNone
    PROVE  /\ [FreeLine EXCEPT !.phase = "up", !.client = c] \in LineType
           /\ [FreeLine EXCEPT !.client = c] \in LineType
           /\ [r EXCEPT !.phase = "dialing", !.dialer = c] \in LineType
           /\ [r EXCEPT !.phase = "ending", !.asked = TRUE] \in LineType
           /\ [r EXCEPT !.client = NoClient] \in LineType
           /\ [r EXCEPT !.phase = IF @ \in {"up", "hungup"} THEN "ending" ELSE @]
                  \in LineType
<1>1. FreeLine \in LineType
  BY DEF FreeLine, LineType, ClientOrNone
<1>. QED  BY <1>1 DEF LineType, ClientOrNone

LEMMA GivesTypes ==
    ASSUME TypeOK, NEW l \in Line, NEW c \in Clients, Gives(l, c)
    PROVE  /\ line' \in [Line -> LineType]
           /\ \A k \in Line : line'[k].asked => line'[k].phase = "ending"
           /\ conn' \in [Clients -> ConnType] /\ fault' \in BOOLEAN
           /\ troubles' \subseteq Troubles
<1> DEFINE r == [FreeLine EXCEPT !.phase = "up", !.client = c]
<1>1. r \in LineType /\ r.asked = FALSE
  <2>1. c \in ClientOrNone
    BY DEF ClientOrNone
  <2>2. r \in LineType
    BY <2>1, LineUpdates, line[l] \in LineType DEF TypeOK
  <2>. QED  BY <2>2 DEF FreeLine
<1> HIDE DEF r
<1>2. line' = [line EXCEPT ![l] = r] /\ line \in [Line -> LineType]
  BY DEF Gives, TypeOK, r
<1>3. line' \in [Line -> LineType]
  BY <1>1, <1>2
<1>4. ASSUME NEW k \in Line, line'[k].asked PROVE line'[k].phase = "ending"
  BY <1>1, <1>2, <1>4 DEF TypeOK
<1>5. conn' \in [Clients -> ConnType]
  <2>1. conn[c] \in ConnType /\ conn' = [conn EXCEPT ![c].calls = @ \cup {l}]
    BY DEF TypeOK, Gives
  <2>2. [conn[c] EXCEPT !.calls = @ \cup {l}] \in ConnType
    BY <2>1 DEF ConnType
  <2>. QED  BY <2>1, <2>2 DEF TypeOK
<1>. QED  BY <1>3, <1>4, <1>5 DEF Gives, IsGone, Trouble, TypeOK

LEMMA NextCallTypes ==
    ASSUME TypeOK, iface.client \in Clients, NEW l \in 0..(Lines + 1)
    PROVE  LET calls == {k \in conn[iface.client].calls : k > l}
           IN \/ /\ calls = {}
                 /\ NextCall(l) = [pc |-> "deleting", client |-> iface.client, line |-> 0]
              \/ /\ Min(calls) \in calls /\ Min(calls) \in Line
                 /\ \A k \in calls : Min(calls) <= k
                 /\ NextCall(l) = [pc |-> "telling", client |-> iface.client,
                                   line |-> Min(calls)]
<1> DEFINE calls == {k \in conn[iface.client].calls : k > l}
<1>1. calls \subseteq Line /\ Line \subseteq Nat
  BY DEF TypeOK, ConnType, Line
<1>2. iface \in IfaceType
  BY DEF TypeOK
<1>3. calls # {} => Min(calls) \in calls /\ \A k \in calls : Min(calls) <= k
  <2> HIDE DEF calls
  <2>. QED  BY <1>1, MinIsLeast
<1>4. NextCall(l) = IF calls = {} THEN [iface EXCEPT !.pc = "deleting", !.line = 0]
                    ELSE [iface EXCEPT !.pc = "telling", !.line = Min(calls)]
  BY DEF NextCall
<1> HIDE DEF calls
<1>5. CASE calls = {}
  <2>1. NextCall(l) = [pc |-> "deleting", client |-> iface.client, line |-> 0]
    BY <1>2, <1>4, <1>5 DEF IfaceType
  <2>. QED  BY <1>5, <2>1 DEF calls
<1>6. CASE calls # {}
  <2>1. NextCall(l) = [pc |-> "telling", client |-> iface.client, line |-> Min(calls)]
    BY <1>2, <1>4, <1>6 DEF IfaceType
  <2>. QED  BY <1>1, <1>3, <1>6, <2>1 DEF calls
<1>. QED  BY <1>5, <1>6

LEMMA TypesKept ==
    ASSUME TypeOK, ItemsListed, ThreadsWell, [Next]_vars
    PROVE  TypeOK'
<1> USE DEF TypeOK, TrunkThreadIsFree
<1>0. Line \subseteq Nat /\ Line \subseteq 0..(Lines + 1) /\ Lines \in Nat
  BY ExchangeAssumption DEF Line
<1>1. IdleWorker \in WorkerType /\ IdleIface \in IfaceType /\ NoItem \notin Item
  BY <1>0, ExchangeAssumption
     DEF IdleWorker, WorkerType, IdleIface, IfaceType, ClientOrNone, NoItem, Item
<1>2. ASSUME NEW l \in Line, Rings(l) PROVE TypeOK'
  <2>1. counts' \in [dials : 0..MaxDials, calls : 0..MaxCalls, sends : 0..MaxSends]
    <3>1. MaxCalls \in Nat /\ counts.calls \in 0..MaxCalls /\ counts.calls < MaxCalls
      BY <1>2, ExchangeAssumption DEF Rings
    <3>2. counts.calls + 1 \in 0..MaxCalls
      BY <3>1
    <3>3. counts' = [counts EXCEPT !.calls = counts.calls + 1]
      BY <1>2 DEF Rings
    <3>. QED  BY <3>2, <3>3
  <2>2. /\ line' \in [Line -> LineType]
        /\ \A k \in Line : line'[k].asked => line'[k].phase = "ending"
    BY <1>2 DEF Rings, LineType
  <2>. QED  BY <1>2, <2>1, <2>2 DEF Rings, Calm
<1>3. ASSUME NEW l \in Line, ConnectRequest(l) PROVE TypeOK'
  <2>1. Queued("trunk") \cup Queued("global") \subseteq 1..MaxListens
    <3>1. ASSUME NEW q \in Queues, NEW i \in DOMAIN queue[q]
          PROVE  queue[q][i].id \in 1..MaxListens
      <4>1. queue[q] \in Seq(Item)
        OBVIOUS
      <4>2. queue[q][i] \in Item
        BY <4>1
      <4>. QED  BY <4>2 DEF Item
    <3>. QED  BY <3>1 DEF Queued, Queues
  <2>. QED  BY <1>3, <2>1 DEF ConnectRequest, WorkerType, Calm
<1>4. ASSUME NEW q \in Queues, NEW otherwise \in {"global", "reject"},
             Dequeue(q, otherwise)
      PROVE  queue' \in [Queues -> Seq(Item)] /\ worker' \in WorkerType
  <2>1. CASE queue[q] = << >>
    BY <1>4, <2>1 DEF Dequeue, WorkerType
  <2>2. CASE queue[q] # << >>
    <3>1. Tail(queue[q]) \in Seq(Item) /\ Head(queue[q]) \in Item
      BY <2>2
    <3>. QED  BY <1>4, <2>2, <3>1 DEF Dequeue, WorkerType
  <2>. QED  BY <2>1, <2>2
<1>5. CASE DequeuesTrunk
  BY <1>4, <1>5 DEF DequeuesTrunk, AfterTrunk, Queues, Calm
<1>6. CASE DequeuesGlobal
  BY <1>4, <1>6 DEF DequeuesGlobal, Queues, Calm
<1>7. CASE Offers
  <2>1. worker.line \in Line /\ worker.item \in Item
    BY <1>7, <1>1 DEF Offers, ThreadsWell, ItemsListed, WorkerType, NoItem
  <2>2. worker.item.client \in Clients /\ worker.item.id \in 1..MaxListens
    BY <2>1 DEF Item
  <2>3. Gives(worker.line, worker.item.client)
    BY <1>7 DEF Offers
  <2>. QED  BY <1>1, <1>7, <2>1, <2>2, <2>3, GivesTypes DEF Offers
<1>8. CASE Rejects
  BY ZenonT(30), <1>1, <1>8 DEF Rejects, LineType, Calm
<1>9. ASSUME NEW l \in Line, ConnectDone(l) PROVE TypeOK'
  <2>0. sending' \in [Senders -> Line \cup {0}]
    BY <1>9 DEF ConnectDone, Senders
  <2>1. line[l].dialer \in Clients
    BY <1>9 DEF ConnectDone, ThreadsWell
  <2>2. CASE Gives(l, line[l].dialer)
    <3>1. /\ line' \in [Line -> LineType]
          /\ \A k \in Line : line'[k].asked => line'[k].phase = "ending"
          /\ conn' \in [Clients -> ConnType] /\ fault' \in BOOLEAN
          /\ troubles' \subseteq Troubles
      BY <2>1, <2>2, GivesTypes
    <3>. QED  BY <1>9, <2>0, <3>1 DEF ConnectDone
  <2>3. CASE ~Gives(l, line[l].dialer)
    <3> DEFINE r == [FreeLine EXCEPT !.client = line[l].dialer]
    <3>1. line[l].dialer \in ClientOrNone
      BY <2>1 DEF ClientOrNone
    <3>2. r \in LineType /\ r.asked = FALSE
      BY <3>1, LineUpdates DEF FreeLine
    <3> HIDE DEF r
    <3>3. /\ line' = [line EXCEPT ![l] = r] /\ fault' \in BOOLEAN
          /\ UNCHANGED <<queue, conn, worker, iface, counts, listens, served, troubles>>
      BY <1>9, <2>3 DEF ConnectDone, IsGone, r
    <3>. QED  BY <2>0, <3>2, <3>3
  <2>. QED  BY <2>2, <2>3
<1>10. ASSUME NEW l \in Line
       PROVE  Released(l) \in LineType /\ Released(l).asked = FALSE
  BY DEF Released, LineType, ClientOrNone
<1>11. ASSUME NEW l \in Line, DisconnectRequest(l) PROVE TypeOK'
  BY <1>11 DEF DisconnectRequest, LineType, IsGone
<1>12. ASSUME NEW l \in Line, Drops(l) PROVE TypeOK'
  BY <1>10, <1>12 DEF Drops, Trouble, IsGone
<1>13. ASSUME NEW l \in Line, DisconnectDone(l) PROVE TypeOK'
  <2>1. conn' \in [Clients -> ConnType]
    <3> DEFINE c == line[l].client
    <3>1. CASE c # NoClient /\ line[l].asked
      <4>1. c \in Clients /\ conn' = [conn EXCEPT ![c].calls = CallsAfter(c, l)]
        BY <1>13, <3>1 DEF DisconnectDone, LineType, ClientOrNone
      <4>2. CallsAfter(c, l) \in SUBSET Line
        BY <4>1 DEF CallsAfter, ConnType
      <4>. QED  BY <4>1, <4>2 DEF ConnType
    <3>2. CASE ~(c # NoClient /\ line[l].asked)
      BY <1>13, <3>2 DEF DisconnectDone
    <3>. QED  BY <3>1, <3>2
  <2>2. fault' \in BOOLEAN /\ troubles' \subseteq Troubles
    BY <1>13 DEF DisconnectDone, IsGone, Iterates, Trouble, Calm
  <2>. QED  BY <1>10, <1>13, <2>1, <2>2 DEF DisconnectDone
<1>14. ASSUME NEW c \in Clients, NEW q \in Queues, LSTN(c, q) PROVE TypeOK'
  <2>1. /\ listens' \in Seq(Clients) /\ Len(listens') = Len(listens) + 1
        /\ Len(listens) < MaxListens /\ Len(listens) \in Nat
    BY <1>14 DEF LSTN
  <2>2. [id |-> Len(listens'), client |-> c] \in Item
    BY <2>1, ExchangeAssumption DEF Item
  <2>3. queue' \in [Queues -> Seq(Item)]
    BY <1>14, <2>2 DEF LSTN, Enqueue
  <2>. QED  BY <1>14, <2>1, <2>3, ExchangeAssumption DEF LSTN, Calm
<1>15. ASSUME NEW c \in Clients, CONN(c) PROVE TypeOK'
  <2>1. iface' = [pc |-> "connecting", client |-> c, line |-> 1]
    BY <1>15 DEF CONN, IdleIface
  <2>2. iface' \in IfaceType
    BY <1>0, <2>1 DEF IfaceType, ClientOrNone
  <2>3. counts' \in [dials : 0..MaxDials, calls : 0..MaxCalls, sends : 0..MaxSends]
    BY <1>15, ExchangeAssumption DEF CONN
  <2>. QED  BY <1>15, <2>2, <2>3 DEF CONN, Calm
<1>16. CASE Connects
  <2> DEFINE l == iface.line
  <2>1. l \in Line /\ iface.client \in Clients /\ l + 1 \in 0..(Lines + 1)
    BY <1>0, <1>16 DEF Connects, ThreadsWell, Line
  <2>2. CASE line[l].phase = "free"
    <3>1. line' = [line EXCEPT ![l].phase = "dialing", ![l].dialer = iface.client]
      BY <1>16, <2>2 DEF Connects
    <3>2. [line[l] EXCEPT !.phase = "dialing", !.dialer = iface.client] \in LineType
      BY <2>1, LineUpdates DEF ClientOrNone
    <3>3. line[l].asked = FALSE
      BY <2>1, <2>2 DEF LineType
    <3>4. line' \in [Line -> LineType]
      BY <2>1, <3>1, <3>2
    <3>5. \A k \in Line : line'[k].asked => line'[k].phase = "ending"
      BY <2>1, <3>1, <3>3
    <3>. QED  BY <1>1, <1>16, <2>2, <3>4, <3>5 DEF Connects, Calm
  <2>3. CASE line[l].phase # "free"
    <3>1. iface' = [iface EXCEPT !.line = @ + 1] /\ UNCHANGED line
      BY <1>16, <2>3 DEF Connects
    <3>2. iface' \in IfaceType
      BY <2>1, <3>1 DEF IfaceType
    <3>. QED  BY <1>16, <3>1, <3>2 DEF Connects, Calm
  <2>. QED  BY <2>2, <2>3
<1>17. CASE NoResource
  BY <1>1, <1>17 DEF NoResource, Calm
<1>18. CASE Deadlocks
  BY <1>18 DEF Deadlocks, Trouble
<1>19. ASSUME NEW c \in Clients, NEW l \in Line, Find(c, l) PROVE TypeOK'
  <2>1. iface' = [pc |-> "found", client |-> c, line |-> l]
    BY <1>19 DEF Find, IdleIface
  <2>2. iface' \in IfaceType
    BY <1>0, <2>1 DEF IfaceType, ClientOrNone
  <2>. QED  BY <1>19, <2>2 DEF Find, Calm
<1>20. CASE DISC
  <2>1. iface.line \in Line
    BY <1>20 DEF DISC, ThreadsWell
  <2>2. /\ line' \in [Line -> LineType]
        /\ \A k \in Line : line'[k].asked => line'[k].phase = "ending"
    <3> DEFINE r == [line[iface.line] EXCEPT !.phase = "ending", !.asked = TRUE]
    <3>1. r \in LineType /\ r.phase = "ending"
      <4>1. line[iface.line] \in LineType /\ NoClient \in ClientOrNone
        BY <2>1 DEF ClientOrNone
      <4>2. r \in LineType
        BY <4>1, LineUpdates
      <4>. QED  BY <4>1, <4>2 DEF LineType
    <3>2. line' = [line EXCEPT ![iface.line] = r] \/ line' = line
      BY <1>20, <2>1 DEF DISC
    <3> HIDE DEF r
    <3>. QED  BY ZenonT(60), <2>1, <3>1, <3>2
  <2>3. fault' \in BOOLEAN /\ troubles' \subseteq Troubles
    BY <1>20 DEF DISC, Calm, Trouble
  <2>. QED  BY <1>1, <1>20, <2>2, <2>3 DEF DISC
<1>21. ASSUME NEW c \in Clients, NEW q \in Queues
       PROVE  Without(c, q) \in Seq(Item)
  BY OnlySelects DEF Without
<1>22. ASSUME NEW c \in Clients, Lose(c) PROVE TypeOK'
  <2>1. iface' = [pc |-> "queues", client |-> c, line |-> 0]
    BY <1>22 DEF Lose, IdleIface
  <2>2. iface' \in IfaceType
    BY <1>0, <2>1 DEF IfaceType, ClientOrNone
  <2>3. conn' \in [Clients -> ConnType]
    BY <1>22 DEF Lose, ConnType
  <2>4. queue' \in [Queues -> Seq(Item)]
    BY <1>21, <1>22 DEF Lose, Queues
  <2>. QED  BY <1>22, <2>2, <2>3, <2>4 DEF Lose, Calm
<1>23. ASSUME NEW l \in 0..(Lines + 1), iface.client \in Clients
       PROVE  NextCall(l) \in IfaceType
  <2> DEFINE calls == {k \in conn[iface.client].calls : k > l}
  <2>1. CASE NextCall(l) = [pc |-> "deleting", client |-> iface.client, line |-> 0]
    BY <1>0, <1>23, <2>1 DEF IfaceType, ClientOrNone
  <2>2. CASE /\ NextCall(l) = [pc |-> "telling", client |-> iface.client,
                               line |-> Min(calls)]
             /\ Min(calls) \in Line
    <3> DEFINE m == Min(calls)
    <3>1. m \in 0..(Lines + 1)
      BY <1>0, <2>2
    <3>2. NextCall(l) = [pc |-> "telling", client |-> iface.client, line |-> m]
      BY <2>2
    <3> HIDE DEF m, TypeOK
    <3>. QED  BY <1>23, <3>1, <3>2 DEF IfaceType, ClientOrNone
  <2>. HIDE DEF TypeOK
  <2>. QED  BY <1>23, <2>1, <2>2, NextCallTypes
<1>24. CASE RemoveClient
  <2>1. iface.client \in Clients /\ 0 \in 0..(Lines + 1)
    BY <1>0, <1>24 DEF RemoveClient, ThreadsWell
  <2>2. queue' \in [Queues -> Seq(Item)]
    BY <1>21, <1>24, <2>1 DEF RemoveClient, LeavesTrunks, Queues
  <2>. QED  BY <1>23, <1>24, <2>1, <2>2 DEF RemoveClient, Calm
<1>25. CASE TellsCall
  <2>1. iface.line \in Line /\ line[iface.line] \in LineType
    BY <1>25 DEF TellsCall, ThreadsWell
  <2>2. line' = [line EXCEPT ![iface.line] = [@ EXCEPT !.client = NoClient]]
    BY <1>25 DEF TellsCall
  <2>3. /\ line' \in [Line -> LineType]
        /\ \A k \in Line : line'[k].asked => line'[k].phase = "ending"
    <3>1. [line[iface.line] EXCEPT !.client = NoClient] \in LineType
      BY <2>1, LineUpdates DEF ClientOrNone
    <3>2. /\ [line[iface.line] EXCEPT !.client = NoClient].asked = line[iface.line].asked
          /\ [line[iface.line] EXCEPT !.client = NoClient].phase = line[iface.line].phase
      BY <2>1 DEF LineType
    <3>. QED  BY <2>1, <2>2, <3>1, <3>2
  <2>4. iface' \in IfaceType /\ troubles' \subseteq Troubles
    BY <1>25 DEF TellsCall, IfaceType, Trouble
  <2>. QED  BY <1>25, <2>3, <2>4 DEF TellsCall
<1>26. CASE Deletes
  BY <1>1, <1>26 DEF Deletes, ConnType
<1>28. CASE HangsUp
  <2>1. iface.client \in Clients /\ iface.line \in Line /\ line[iface.line] \in LineType
    BY <1>28 DEF HangsUp, ThreadsWell
  <2>2. /\ line' \in [Line -> LineType]
        /\ \A k \in Line : line'[k].asked => line'[k].phase = "ending"
    <3>1. HungUp(iface.line) \in LineType
      BY <2>1, LineUpdates DEF HungUp, ClientOrNone
    <3>2. HungUp(iface.line).asked => HungUp(iface.line).phase = "ending"
      BY <2>1 DEF HungUp, LineType
    <3>3. line' = [line EXCEPT ![iface.line] = HungUp(iface.line)]
      BY <1>28 DEF HangsUp
    <3>. QED  BY <2>1, <3>1, <3>2, <3>3
  <2>3. iface' \in IfaceType /\ troubles' \subseteq Troubles
    BY <1>0, <1>23, <1>28, <2>1 DEF HangsUp, Trouble
  <2>. QED  BY <1>28, <2>2, <2>3 DEF HangsUp
<1>29. ASSUME NEW t \in Senders, NEW l \in Line, Tests(t, l) PROVE TypeOK'
  <2>1. counts' \in [dials : 0..MaxDials, calls : 0..MaxCalls, sends : 0..MaxSends]
    BY SMTT(30), <1>29, ExchangeAssumption DEF Tests
  <2>. QED  BY <1>29, <2>1 DEF Tests, Calm
<1>30. ASSUME NEW t \in Senders, Sends(t) PROVE TypeOK'
  BY <1>30 DEF Sends, IsGone
<1>27. CASE UNCHANGED vars
  BY <1>27 DEF vars
<1>. HIDE DEF TypeOK
<1>. QED
  BY <1>2, <1>3, <1>5, <1>6, <1>7, <1>8, <1>9, <1>11, <1>12, <1>13, <1>14, <1>15, <1>16,
     <1>17, <1>18, <1>19, <1>20, <1>22, <1>24, <1>25, <1>26, <1>27, <1>28, <1>29, <1>30
     DEF Next, TrunkThread, MediaThread, InterfaceThread, Environment, Senders

----------------------------------------------------------------------------
(*                             Where the threads are                        *)

LEMMA GivesEffect ==
    ASSUME TypeOK, NEW l \in Line, NEW c \in Clients, Gives(l, c)
    PROVE  /\ line'[l].phase = "up" /\ line'[l].client = c /\ line'[l].asked = FALSE
           /\ \A k \in Line : k # l => line'[k] = line[k]
           /\ \A d \in Clients : conn'[d].state = conn[d].state
           /\ conn'[c].calls = conn[c].calls \cup {l}
           /\ \A d \in Clients : d # c => conn'[d] = conn[d]
<1>1. line \in [Line -> LineType] /\ conn \in [Clients -> ConnType]
  BY DEF TypeOK
<1>2. /\ line' = [line EXCEPT ![l] = [FreeLine EXCEPT !.phase = "up", !.client = c]]
      /\ conn' = [conn EXCEPT ![c].calls = @ \cup {l}]
  BY DEF Gives
<1>. QED  BY <1>1, <1>2 DEF FreeLine, ConnType

LEMMA ThreadsKept ==
    ASSUME TypeOK, ItemsListed, ThreadsWell, [Next]_vars
    PROVE  ThreadsWell'
<1> USE DEF TrunkThreadIsFree
<1>0. /\ line \in [Line -> LineType] /\ conn \in [Clients -> ConnType]
      /\ Line \subseteq Nat /\ iface \in IfaceType /\ worker \in WorkerType
  BY DEF TypeOK, Line
<1>1. ASSUME NEW l \in Line, Rings(l) PROVE ThreadsWell'
  BY <1>0, <1>1 DEF Rings, ThreadsWell, Tidying
<1>2. ASSUME NEW l \in Line, ConnectRequest(l) PROVE ThreadsWell'
  BY <1>0, <1>2 DEF ConnectRequest, ThreadsWell, Tidying
<1>3. ASSUME NEW q \in Queues, NEW otherwise \in {"global", "reject"},
             Dequeue(q, otherwise), worker.pc # "idle",
             UNCHANGED <<line, conn, iface>>
      PROVE  ThreadsWell'
  BY <1>0, <1>3 DEF Dequeue, ThreadsWell, Tidying, WorkerType
<1>4. CASE DequeuesTrunk
  BY <1>3, <1>4 DEF DequeuesTrunk, AfterTrunk, Queues
<1>5. CASE DequeuesGlobal
  BY <1>3, <1>5 DEF DequeuesGlobal, Queues
<1>6. CASE Offers
  <2>1. worker.line \in Line /\ worker.item.client \in Clients
    <3>1. worker.item # NoItem
      BY <1>6, ExchangeAssumption DEF Offers, ItemsListed, NoItem, TypeOK
    <3>. QED  BY <1>0, <1>6, <3>1 DEF Offers, ThreadsWell, WorkerType, Item
  <2>2. Gives(worker.line, worker.item.client)
    BY <1>6 DEF Offers
  <2>3. \A k \in Line : line'[k].phase = "dialing" => line'[k] = line[k]
    BY <2>1, <2>2, GivesEffect
  <2>4. \A d \in Clients : conn'[d].state = conn[d].state
    BY <2>1, <2>2, GivesEffect
  <2>. QED  BY <1>6, <2>1, <2>3, <2>4 DEF Offers, ThreadsWell, Tidying, IdleWorker
<1>7. CASE Rejects
  BY <1>0, <1>7 DEF Rejects, ThreadsWell, Tidying, IdleWorker
<1>8. ASSUME NEW l \in Line, ConnectDone(l) PROVE ThreadsWell'
  <2>1. line[l].dialer \in Clients /\ worker.pc = "idle"
    BY <1>8 DEF ConnectDone, ThreadsWell
  <2>2. /\ \A k \in Line : line'[k].phase = "dialing" => line'[k] = line[k]
        /\ \A d \in Clients : conn'[d].state = conn[d].state
    <3>1. CASE Gives(l, line[l].dialer)
      BY <2>1, <3>1, GivesEffect
    <3>2. CASE ~Gives(l, line[l].dialer)
      BY <1>0, <1>8, <3>2 DEF ConnectDone, FreeLine
    <3>. QED  BY <3>1, <3>2
  <2>. QED  BY <1>8, <2>1, <2>2 DEF ConnectDone, ThreadsWell, Tidying
<1>9. ASSUME NEW l \in Line, DisconnectRequest(l) PROVE ThreadsWell'
  BY <1>0, <1>9 DEF DisconnectRequest, ThreadsWell, Tidying
<1>10. ASSUME NEW l \in Line, Drops(l) PROVE ThreadsWell'
  BY <1>0, <1>10 DEF Drops, Released, ThreadsWell, Tidying
<1>11. ASSUME NEW l \in Line, DisconnectDone(l) PROVE ThreadsWell'
  <2>1. \A k \in Line : line'[k].phase = "dialing" => line'[k] = line[k]
    BY <1>0, <1>11 DEF DisconnectDone, Released
  <2>2. \A d \in Clients : conn'[d].state = conn[d].state
    BY <1>0, <1>11 DEF DisconnectDone, ConnType
  <2>. QED  BY <1>11, <2>1, <2>2 DEF DisconnectDone, ThreadsWell, Tidying
<1>12. ASSUME NEW c \in Clients, NEW q \in Queues, LSTN(c, q) PROVE ThreadsWell'
  BY <1>12 DEF LSTN, ThreadsWell, Tidying
<1>13. ASSUME NEW c \in Clients, CONN(c) PROVE ThreadsWell'
  BY <1>13 DEF CONN, IsIdle, IdleIface, ThreadsWell, Tidying
<1>14. CASE Connects
  <2> DEFINE l == iface.line
  <2>1. l \in Line /\ iface.client \in Clients /\ iface.pc = "connecting" /\ ~LineIsLocked(l)
    BY <1>14 DEF Connects, ThreadsWell
  <2>2. CASE line[l].phase = "free"
    <3>1. line' = [line EXCEPT ![l].phase = "dialing", ![l].dialer = iface.client]
      BY <1>14, <2>2 DEF Connects
    <3>2. /\ line'[l].dialer = iface.client /\ l # worker.line
          /\ \A k \in Line : k # l => line'[k] = line[k]
      BY <1>0, <2>1, <3>1 DEF LineIsLocked, LineType
    <3>3. iface'.pc = "idle" /\ UNCHANGED <<conn, worker>>
      BY <1>14, <2>2 DEF Connects, IdleIface
    <3>. QED  BY <2>1, <3>2, <3>3 DEF ThreadsWell, Tidying
  <2>3. CASE line[l].phase # "free"
    BY <1>0, <1>14, <2>1, <2>3 DEF Connects, ThreadsWell, Tidying, IfaceType
  <2>. QED  BY <2>2, <2>3
<1>15. CASE NoResource
  BY <1>15 DEF NoResource, IdleIface, ThreadsWell, Tidying
<1>16. CASE Deadlocks
  BY <1>16 DEF Deadlocks, ThreadsWell, Tidying
<1>17. ASSUME NEW c \in Clients, NEW l \in Line, Find(c, l) PROVE ThreadsWell'
  BY <1>17 DEF Find, IsIdle, IdleIface, ThreadsWell, Tidying
<1>18. CASE DISC
  <2>1. iface.line \in Line /\ iface.pc = "found"
    BY <1>18 DEF DISC, ThreadsWell
  <2>2. \A k \in Line : \/ line'[k] = line[k]
                        \/ line'[k].phase = "ending" /\ k = iface.line /\ worker.line # k
    BY <1>0, <1>18, <2>1 DEF DISC, LineIsLocked, LineType
  <2>. QED  BY <1>18, <2>1, <2>2 DEF DISC, IdleIface, ThreadsWell, Tidying
<1>19. ASSUME NEW c \in Clients, Lose(c) PROVE ThreadsWell'
  <2>1. iface'.pc = "queues" /\ iface'.client = c
    BY <1>19 DEF Lose, IdleIface
  <2>2. /\ conn'[c].state = "lost"
        /\ \A d \in Clients : d # c => conn'[d].state = conn[d].state
    BY <1>0, <1>19 DEF Lose, ConnType
  <2>3. \A d \in Clients : conn[d].state # "lost"
    BY <1>19 DEF Lose, IsIdle, ThreadsWell, Tidying
  <2>4. \A d \in Clients : conn'[d].state = "lost" <=> Tidying(d)'
    BY <2>1, <2>2, <2>3 DEF Tidying
  <2>5. UNCHANGED <<line, worker>> /\ c \in Clients
    BY <1>19 DEF Lose
  <2>. QED  BY <2>1, <2>4, <2>5 DEF ThreadsWell
<1>20. ASSUME NEW l \in 0..(Lines + 1), iface.client \in Clients, iface' = NextCall(l)
       PROVE  /\ iface'.pc \in {"telling", "deleting"} /\ iface'.client = iface.client
              /\ iface'.pc = "telling" => iface'.line \in Line
  <2> DEFINE calls == {k \in conn[iface.client].calls : k > l}
             m == Min(calls)
  <2>1. \/ iface' = [pc |-> "deleting", client |-> iface.client, line |-> 0]
        \/ m \in Line /\ iface' = [pc |-> "telling", client |-> iface.client, line |-> m]
    BY <1>20, NextCallTypes
  <2> HIDE DEF m
  <2>. QED  BY <2>1
<1>21. CASE RemoveClient
  <2>1. iface.client \in Clients /\ 0 \in 0..(Lines + 1)
    BY <1>21, ExchangeAssumption DEF RemoveClient, ThreadsWell
  <2>. QED  BY <1>20, <1>21, <2>1 DEF RemoveClient, ThreadsWell, Tidying
<1>22. CASE TellsCall
  <2>1. iface.client \in Clients /\ iface.line \in Line
    BY <1>22 DEF TellsCall, ThreadsWell
  <2>2. /\ iface'.pc = "hanging" /\ iface'.client = iface.client /\ iface'.line = iface.line
        /\ UNCHANGED <<conn, worker>>
    BY <1>0, <1>22 DEF TellsCall, IfaceType
  <2>3. \A k \in Line : line'[k].phase = line[k].phase /\ line'[k].dialer = line[k].dialer
    BY <1>0, <1>22, <2>1 DEF TellsCall, LineType
  <2>. QED  BY <1>22, <2>1, <2>2, <2>3 DEF TellsCall, ThreadsWell, Tidying
<1>25. CASE HangsUp
  <2>1. iface.client \in Clients /\ iface.line \in Line /\ iface.line \in 0..(Lines + 1)
    BY <1>25, <1>0 DEF HangsUp, ThreadsWell, IfaceType
  <2>2. iface' = NextCall(iface.line)
    BY <1>25 DEF HangsUp
  <2>3. \A k \in Line : /\ line'[k].phase # "ending" => line'[k].phase = line[k].phase
                        /\ line'[k].dialer = line[k].dialer
                        /\ line[k].phase = "ringing" => line'[k] = line[k]
    <3>1. \A k \in Line : line'[k] = IF k = iface.line THEN HungUp(k) ELSE line[k]
      BY <1>0, <1>25, <2>1 DEF HangsUp
    <3>. QED  BY <1>0, <2>1, <3>1 DEF HungUp, LineType
  <2>. QED  BY <1>20, <1>25, <2>1, <2>2, <2>3 DEF HangsUp, ThreadsWell, Tidying
<1>26. ASSUME NEW t \in Senders, Sends(t) \/ \E l \in Line : Tests(t, l) PROVE ThreadsWell'
  BY <1>26 DEF Sends, Tests, ThreadsWell, Tidying
<1>23. CASE Deletes
  <2>1. /\ conn'[iface.client].state = "gone"
        /\ \A d \in Clients : d # iface.client => conn'[d].state = conn[d].state
    BY <1>0, <1>23 DEF Deletes, ThreadsWell
  <2>. QED  BY <1>23, <2>1 DEF Deletes, IdleIface, ThreadsWell, Tidying
<1>24. CASE UNCHANGED vars
  BY <1>24 DEF vars, ThreadsWell, Tidying
<1>. QED
  BY <1>1, <1>2, <1>4, <1>5, <1>6, <1>7, <1>8, <1>9, <1>10, <1>11, <1>12, <1>13, <1>14,
     <1>15, <1>16, <1>17, <1>18, <1>19, <1>21, <1>22, <1>23, <1>24, <1>25, <1>26
     DEF Next, TrunkThread, MediaThread, InterfaceThread, Environment, Senders

----------------------------------------------------------------------------
(*                                The queues                                *)

(* What most actions do not disturb.                                        *)
LEMMA QueuesSame ==
    ASSUME TypeOK, QueuesWell, UNCHANGED <<queue, listens, served>>,
           \/ worker' = worker
           \/ worker' = IdleWorker /\ worker.pc # "offer",
           \A c \in Clients :
              /\ conn'[c].state = "open" => conn[c].state = "open"
              /\ conn'[c].state = "gone" => conn[c].state = "gone" \/ Iterates(c)
              /\ Tidying(c)' => Tidying(c)
              /\ Iterates(c)' => Iterates(c)
    PROVE  QueuesWell'
<1>1. \A q \in Queues : Queued(q)' = Queued(q)
  BY DEF Queued
<1>2. \A id \in DOMAIN listens : listens[id] \in Clients
  BY DEF TypeOK
<1>3. /\ worker'.item = worker.item
      /\ worker' = worker \/ (worker'.pc = "idle" /\ worker'.seen = {} /\ worker.pc # "offer")
  BY DEF IdleWorker, QueuesWell, ItemsListed
<1>4. ItemsListed'
  <2>1. /\ \A q \in Queues : Tidy(queue'[q], listens')
        /\ served' \subseteq DOMAIN listens'
    BY DEF QueuesWell, ItemsListed
  <2>2. /\ worker'.pc = "offer" =>
              worker'.item.id \in DOMAIN listens /\ worker'.item.client = listens[worker'.item.id]
        /\ worker'.pc # "offer" => worker'.item = NoItem
        /\ worker'.seen \subseteq DOMAIN listens
    BY <1>3 DEF QueuesWell, ItemsListed
  <2>. QED  BY <2>1, <2>2 DEF ItemsListed
<1>5. Apart'
  BY <1>1, <1>3 DEF QueuesWell, Apart, Queues
<1>6. Somewhere'
  BY <1>1, <1>2, <1>3 DEF QueuesWell, Somewhere, Queues
<1>7. Cleaned'
  <2>1. ASSUME NEW c \in Clients, Tidying(c)', NEW id \in Queued("global")' PROVE listens'[id] # c
    BY <1>1, <2>1 DEF QueuesWell, Cleaned, Queues
  <2>2. ASSUME NEW c \in Clients, Iterates(c)' \/ conn'[c].state = "gone",
               NEW q \in Queues, NEW id \in Queued(q)'
        PROVE  listens'[id] # c
    BY <1>1, <2>2 DEF QueuesWell, Cleaned
  <2>. QED  BY <2>1, <2>2 DEF Cleaned
<1>8. Searched'
  BY <1>1, <1>3 DEF QueuesWell, Searched, Queues
<1>. QED  BY <1>4, <1>5, <1>6, <1>7, <1>8 DEF QueuesWell

(* ClientQueue::dequeue: the listener goes from its queue to the thread.    *)
LEMMA DequeueKeeps ==
    ASSUME TypeOK, QueuesWell, NEW q \in Queues, NEW otherwise,
           Dequeue(q, otherwise),
           \/ q = "trunk" /\ otherwise = "global" /\ worker.pc = "trunk"
           \/ q = "global" /\ otherwise = "reject" /\ worker.pc = "global",
           UNCHANGED <<conn, iface, listens, served>>
    PROVE  QueuesWell'
<1>1. /\ \A p \in Queues : Queued(p) = Ids(queue[p]) /\ Queued(p)' = Ids(queue'[p])
      /\ queue \in [Queues -> Seq(Item)] /\ worker \in WorkerType
      /\ worker.item = NoItem /\ {"trunk", "global"} = Queues
  BY DEF Queued, Ids, TypeOK, QueuesWell, ItemsListed, Queues
<1>2. \A c \in Clients : Tidying(c)' = Tidying(c) /\ Iterates(c)' = Iterates(c)
  BY DEF Tidying, Iterates
<1>3. CASE queue[q] = << >>
  <2>1. worker' = [worker EXCEPT !.pc = otherwise] /\ queue' = queue
    BY <1>3 DEF Dequeue
  <2>2. /\ worker'.pc = otherwise /\ worker'.item = worker.item /\ worker'.seen = worker.seen
        /\ otherwise # "offer" /\ \A p \in Queues : Queued(p)' = Queued(p)
    BY <1>1, <2>1 DEF WorkerType
  <2>3. Queued(q) = {}
    BY <1>1, <1>3 DEF Ids
  <2>4. ItemsListed'
    <3>1. \A p \in Queues : Tidy(queue'[p], listens')
      BY <2>1 DEF QueuesWell, ItemsListed
    <3>2. worker'.seen \subseteq DOMAIN listens /\ served' \subseteq DOMAIN listens
      BY <2>2 DEF QueuesWell, ItemsListed
    <3>. QED  BY <1>1, <2>2, <3>1, <3>2 DEF ItemsListed
  <2>5. Apart'
    BY <1>1, <2>2 DEF QueuesWell, Apart
  <2>6. Somewhere'
    BY <1>1, <2>2 DEF QueuesWell, Somewhere
  <2>7. Cleaned'
    BY <1>1, <1>2, <2>2 DEF QueuesWell, Cleaned
  <2>8. Searched'
    BY <1>1, <2>2, <2>3 DEF QueuesWell, Searched
  <2>. QED  BY <2>4, <2>5, <2>6, <2>7, <2>8 DEF QueuesWell
<1>4. CASE queue[q] # << >>
  <2> DEFINE h == Head(queue[q])
             t == Tail(queue[q])
  <2>1. /\ worker' = [worker EXCEPT !.pc = "offer", !.item = h]
        /\ queue' = [queue EXCEPT ![q] = t]
    BY <1>1, <1>4 DEF Dequeue
  <2>2. Tidy(queue[q], listens)
    BY DEF QueuesWell, ItemsListed
  <2>3. /\ t \in Seq(Item) /\ Tidy(t, listens)
        /\ h \in Item /\ h.id \in Ids(queue[q])
        /\ h.id \in DOMAIN listens /\ h.client = listens[h.id]
        /\ Ids(t) = Ids(queue[q]) \ {h.id}
    BY <1>1, <1>4, <2>2, TailIsTidy
  <2> HIDE DEF h, t
  <2>4. /\ worker'.pc = "offer" /\ worker'.item = h /\ worker'.seen = worker.seen
        /\ queue'[q] = t /\ \A p \in Queues : p # q => queue'[p] = queue[p]
    BY <1>1, <2>1 DEF WorkerType
  <2>5. /\ Queued(q)' = Queued(q) \ {h.id} /\ h.id \in Queued(q)
        /\ \A p \in Queues : p # q => Queued(p)' = Queued(p)
    BY <1>1, <2>3, <2>4
  <2>6. ItemsListed'
    <3>1. \A p \in Queues : Tidy(queue'[p], listens')
      BY <2>3, <2>4 DEF QueuesWell, ItemsListed
    <3>2. worker'.seen \subseteq DOMAIN listens /\ served' \subseteq DOMAIN listens
      BY <2>4 DEF QueuesWell, ItemsListed
    <3>. QED  BY <2>3, <2>4, <3>1, <3>2 DEF ItemsListed
  <2>7. Apart'
    <3>1. /\ h.id \notin served /\ \A p \in Queues : h.id \notin Queued(p)'
      <4>1. \A p \in Queues : p # q => h.id \notin Queued(p)
        BY <1>1, <2>5 DEF QueuesWell, Apart
      <4>. QED  BY <2>5, <4>1 DEF QueuesWell, Apart
    <3>2. \A p \in Queues : Queued(p)' \subseteq Queued(p)
      BY <2>5
    <3>. QED  BY <1>1, <2>4, <3>1, <3>2 DEF QueuesWell, Apart
  <2>8. Somewhere'
    <3>1. \A id \in DOMAIN listens : id # worker.item.id
      BY <1>1 DEF NoItem, TypeOK
    <3>. QED  BY <1>1, <2>4, <2>5, <3>1 DEF QueuesWell, Somewhere
  <2>9. Cleaned'
    <3>1. \A p \in Queues : Queued(p)' \subseteq Queued(p)
      BY <2>5
    <3>. QED  BY <1>1, <1>2, <3>1 DEF QueuesWell, Cleaned
  <2>10. Searched'
    BY <2>4 DEF Searched
  <2>. QED  BY <2>6, <2>7, <2>8, <2>9, <2>10 DEF QueuesWell
<1>. QED  BY <1>3, <1>4

LEMMA QueuesKept ==
    ASSUME TypeOK, QueuesWell, ThreadsWell, [Next]_vars
    PROVE  QueuesWell'
<1>0. /\ conn \in [Clients -> ConnType] /\ queue \in [Queues -> Seq(Item)]
      /\ worker \in WorkerType /\ {"trunk", "global"} = Queues
      /\ \A id \in DOMAIN listens : listens[id] \in Clients
      /\ \A q \in Queues : Tidy(queue[q], listens)
      /\ \A q \in Queues : Queued(q) = Ids(queue[q]) /\ Queued(q)' = Ids(queue'[q])
  BY DEF TypeOK, Queues, QueuesWell, ItemsListed, Queued, Ids
<1>a. \A q \in Queues : Queued(q) \subseteq DOMAIN listens
  <2>1. ASSUME NEW q \in Queues, NEW i \in DOMAIN queue[q]
        PROVE  queue[q][i].id \in DOMAIN listens
    BY <1>0 DEF Tidy
  <2>. QED  BY <2>1 DEF Queued
<1>1. ASSUME NEW l \in Line, ConnectRequest(l) PROVE QueuesWell'
  <2>1. /\ worker'.pc = "trunk" /\ worker'.item = worker.item /\ worker.pc # "offer"
        /\ worker'.seen = Queued("trunk") \cup Queued("global")
        /\ UNCHANGED <<queue, conn, iface, listens, served>>
    BY <1>1 DEF ConnectRequest, TrunkThreadIsFree, QueuesWell, ItemsListed
  <2>2. worker'.seen \subseteq DOMAIN listens
    BY <1>0, <1>a, <2>1
  <2>3. ItemsListed'
    <3>1. /\ \A q \in Queues : Tidy(queue'[q], listens')
          /\ served' \subseteq DOMAIN listens'
      BY <2>1 DEF QueuesWell, ItemsListed
    <3>. QED  BY <2>1, <2>2, <3>1 DEF QueuesWell, ItemsListed
  <2>4. \A q \in Queues : Queued(q)' = Queued(q)
    BY <1>0, <2>1
  <2>5. Apart' /\ Somewhere'
    BY <1>0, <2>1, <2>4 DEF QueuesWell, Apart, Somewhere
  <2>6. Cleaned'
    BY <1>0, <2>1, <2>4 DEF QueuesWell, Cleaned, Tidying, Iterates
  <2>7. Searched'
    BY <2>1 DEF Searched
  <2>. QED  BY <2>3, <2>5, <2>6, <2>7 DEF QueuesWell
<1>2. CASE DequeuesTrunk
  BY <1>0, <1>2, DequeueKeeps DEF DequeuesTrunk, AfterTrunk
<1>3. CASE DequeuesGlobal
  BY <1>0, <1>3, DequeueKeeps DEF DequeuesGlobal
<1>4. CASE Offers
  <2> DEFINE h == worker.item
  <2>1. /\ worker.line \in Line /\ h.id \in DOMAIN listens /\ h.client = listens[h.id]
        /\ h.client \in Clients
    BY <1>0, <1>4 DEF Offers, ThreadsWell, QueuesWell, ItemsListed
  <2>2. /\ Gives(worker.line, h.client)
        /\ served' = served \cup {h.id} /\ worker' = IdleWorker
        /\ UNCHANGED <<queue, iface, listens>>
    BY <1>4 DEF Offers
  <2>3. \A c \in Clients : conn'[c].state = conn[c].state
    BY <2>1, <2>2, GivesEffect
  <2>4. /\ worker'.pc = "idle" /\ worker'.item = NoItem /\ worker'.seen = {}
        /\ NoItem.id \notin DOMAIN listens /\ NoItem.id # h.id
    BY <2>1, <2>2 DEF IdleWorker, NoItem, TypeOK
  <2>5. \A q \in Queues : Queued(q)' = Queued(q) /\ Queued(q) \subseteq DOMAIN listens
    BY <1>0, <1>a, <2>2
  <2>6. ItemsListed'
    <3>1. /\ \A q \in Queues : Tidy(queue'[q], listens')
          /\ served' \subseteq DOMAIN listens'
      BY <2>1, <2>2 DEF QueuesWell, ItemsListed
    <3>. QED  BY <2>4, <3>1 DEF ItemsListed
  <2>7. Apart'
    <3>1. served \subseteq DOMAIN listens /\ h.id \notin served
      BY DEF QueuesWell, ItemsListed, Apart
    <3>. QED  BY SMTT(30), <1>0, <2>2, <2>4, <2>5, <3>1 DEF QueuesWell, Apart
  <2>8. Somewhere'
    BY <1>0, <2>2, <2>3, <2>4, <2>5 DEF QueuesWell, Somewhere
  <2>9. Cleaned'
    BY <1>0, <2>2, <2>3, <2>5 DEF QueuesWell, Cleaned, Tidying, Iterates
  <2>10. Searched'
    BY <2>4 DEF Searched
  <2>. QED  BY <2>6, <2>7, <2>8, <2>9, <2>10 DEF QueuesWell
<1>5. ASSUME NEW c \in Clients, NEW q \in Queues, LSTN(c, q) PROVE QueuesWell'
  <2> DEFINE n == Len(listens) + 1
             x == [id |-> n, client |-> c]
             t == Append(queue[q], x)
  <2>1. /\ listens' = Append(listens, c) /\ Len(listens') = n /\ iface.pc = "idle"
        /\ conn[c].state = "open" /\ Len(listens) < MaxListens /\ n \in Nat
        /\ UNCHANGED <<conn, worker, iface, served>> /\ listens \in Seq(Clients)
    BY <1>5 DEF LSTN, IsIdle, TypeOK
  <2>2. queue' = [queue EXCEPT ![q] = t]
    BY <1>5, <2>1 DEF LSTN, Enqueue
  <2>3. /\ t \in Seq(Item) /\ Tidy(t, listens') /\ Ids(t) = Ids(queue[q]) \cup {n}
    BY <1>0, <2>1, AppendIsTidy
  <2>4. /\ n \notin DOMAIN listens /\ listens'[n] = c
        /\ DOMAIN listens' = DOMAIN listens \cup {n}
        /\ \A id \in DOMAIN listens : listens'[id] = listens[id]
    BY <2>1
  <2> HIDE DEF n, t
  <2>5. /\ Queued(q)' = Queued(q) \cup {n}
        /\ \A p \in Queues : p # q => Queued(p)' = Queued(p)
        /\ \A p \in Queues : Queued(p) \subseteq DOMAIN listens /\ n \notin Queued(p)
    <3>1. queue'[q] = t /\ \A p \in Queues : p # q => queue'[p] = queue[p]
      BY <1>0, <2>2
    <3>. QED  BY <1>0, <1>a, <2>3, <2>4, <3>1
  <2>6. ItemsListed'
    <3>1. ASSUME NEW p \in Queues PROVE Tidy(queue'[p], listens')
      <4>1. CASE p = q
        BY <1>0, <2>2, <2>3, <4>1
      <4>2. CASE p # q
        <5>1. queue'[p] = queue[p] /\ Tidy(queue[p], listens)
          BY <1>0, <2>2, <4>2
        <5>. QED  BY <2>4, <5>1 DEF Tidy
      <4>. QED  BY <4>1, <4>2
    <3>2. /\ served' \subseteq DOMAIN listens' /\ worker'.seen \subseteq DOMAIN listens'
          /\ worker'.pc = "offer" => worker'.item.id \in DOMAIN listens'
                                     /\ worker'.item.client = listens'[worker'.item.id]
          /\ worker'.pc # "offer" => worker'.item = NoItem
      BY <2>1, <2>4 DEF QueuesWell, ItemsListed
    <3>. QED  BY <3>1, <3>2 DEF ItemsListed
  <2>7. worker.item.id # n /\ n \notin served /\ n \notin worker.seen
    <3>1. NoItem.id # n
      BY <2>1 DEF NoItem, n
    <3>. QED  BY <2>4, <3>1 DEF QueuesWell, ItemsListed
  <2>8. Apart'
    <3>1. /\ Queued("trunk") \cap Queued("global") = {}
          /\ \A p \in Queues : Queued(p) \cap served = {} /\ worker.item.id \notin Queued(p)
          /\ worker.item.id \notin served
      BY DEF QueuesWell, Apart
    <3>2. Queued("trunk")' \cap Queued("global")' = {}
      <4>1. CASE q = "trunk"
        BY <1>0, <2>5, <3>1, <4>1
      <4>2. CASE q = "global"
        BY <1>0, <2>5, <3>1, <4>2
      <4>. QED  BY <1>0, <4>1, <4>2
    <3>3. \A p \in Queues : Queued(p)' \cap served = {} /\ worker.item.id \notin Queued(p)'
      BY <2>5, <2>7, <3>1
    <3>. QED  BY <2>1, <3>1, <3>2, <3>3 DEF Apart
  <2>9. Somewhere'
    BY ZenonT(30), <1>0, <2>1, <2>4, <2>5 DEF QueuesWell, Somewhere
  <2>10. Cleaned'
    <3>1. ASSUME NEW d \in Clients, conn[d].state = "gone", NEW p \in Queues,
                 NEW id \in Queued(p)'
          PROVE  listens'[id] # d
      <4>1. CASE id = n
        BY <2>1, <2>4, <3>1, <4>1
      <4>2. CASE id # n
        <5>1. id \in Queued(p) /\ id \in DOMAIN listens
          BY <2>5, <4>2
        <5>. QED  BY <2>4, <3>1, <5>1 DEF QueuesWell, Cleaned
      <4>. QED  BY <4>1, <4>2
    <3>. QED  BY <2>1, <3>1 DEF Cleaned, Tidying, Iterates
  <2>11. Searched'
    <3>1. \A p \in Queues : worker.seen \cap Queued(p)' = worker.seen \cap Queued(p)
      BY <2>5, <2>7
    <3>. QED  BY <1>0, <2>1, <3>1 DEF QueuesWell, Searched
  <2>. QED  BY <2>6, <2>8, <2>9, <2>10, <2>11 DEF QueuesWell
<1>6. ASSUME NEW c \in Clients, NEW q \in Queues
      PROVE  /\ Tidy(Without(c, q), listens)
             /\ Ids(Without(c, q)) = {id \in Queued(q) : listens[id] # c}
  <2>1. queue[q] \in Seq(Item) /\ Tidy(queue[q], listens) /\ Queued(q) = Ids(queue[q])
    BY <1>0
  <2> DEFINE s == queue[q]
             t == Only(s, Others(c))
  <2>2. Tidy(t, listens) /\ Ids(t) = {id \in Ids(s) : listens[id] # c}
    BY ZenonT(30), <2>1, WithoutIsTidy
  <2>3. t = Without(c, q)
    BY DEF Without
  <2> HIDE DEF t
  <2>. QED  BY <2>1, <2>2, <2>3
<1>7. ASSUME NEW c \in Clients, NEW q \in Queues, worker' = worker,
             UNCHANGED <<listens, served>>,
             queue' = [queue EXCEPT ![q] = Without(c, q)],
             conn[c].state # "open" \/ conn'[c].state # "open",
             \A d \in Clients : conn'[d].state = "open" => conn[d].state = "open"
      PROVE  /\ ItemsListed' /\ Apart' /\ Somewhere' /\ Searched'
             /\ Queued(q)' = {id \in Queued(q) : listens[id] # c}
             /\ \A p \in Queues : Queued(p)' \subseteq Queued(p)
             /\ \A p \in Queues : p # q => Queued(p)' = Queued(p)
  <2>1. /\ Queued(q)' = {id \in Queued(q) : listens[id] # c}
        /\ \A p \in Queues : p # q => Queued(p)' = Queued(p)
        /\ \A p \in Queues : Tidy(queue'[p], listens)
    BY <1>0, <1>6, <1>7
  <2>2. \A p \in Queues : Queued(p)' \subseteq Queued(p)
    BY <2>1
  <2>3. ItemsListed'
    <3>1. /\ served' \subseteq DOMAIN listens' /\ worker'.seen \subseteq DOMAIN listens'
          /\ worker'.pc = "offer" => worker'.item.id \in DOMAIN listens'
                                     /\ worker'.item.client = listens'[worker'.item.id]
          /\ worker'.pc # "offer" => worker'.item = NoItem
      BY <1>7 DEF QueuesWell, ItemsListed
    <3>. QED  BY <1>7, <2>1, <3>1 DEF ItemsListed
  <2>4. Apart'
    BY <1>0, <1>7, <2>2 DEF QueuesWell, Apart
  <2>5. Somewhere'
    <3>1. ASSUME NEW id \in DOMAIN listens, conn'[listens[id]].state = "open"
          PROVE  \/ id \in Queued("trunk")' \cup Queued("global")' \cup served
                 \/ id = worker.item.id
      <4>1. listens[id] # c /\ conn[listens[id]].state = "open"
        BY <1>0, <1>7, <3>1
      <4>2. \A p \in Queues : id \in Queued(p) => id \in Queued(p)'
        BY <2>1, <4>1
      <4>. QED  BY <1>0, <4>1, <4>2 DEF QueuesWell, Somewhere
    <3>. QED  BY <1>7, <3>1 DEF Somewhere
  <2>6. Searched'
    BY <1>0, <1>7, <2>2 DEF QueuesWell, Searched
  <2>. QED  BY <2>1, <2>2, <2>3, <2>4, <2>5, <2>6
<1>8. ASSUME NEW c \in Clients, Lose(c) PROVE QueuesWell'
  <2>1. /\ iface'.pc = "queues" /\ iface'.client = c /\ UNCHANGED <<worker, listens, served>>
        /\ iface.pc = "idle" /\ conn[c].state = "open"
        /\ queue' = [queue EXCEPT !["global"] = Without(c, "global")]
    BY <1>8 DEF Lose, IsIdle, IdleIface
  <2>2. /\ conn'[c].state = "lost"
        /\ \A d \in Clients : d # c => conn'[d].state = conn[d].state
    BY <1>0, <1>8 DEF Lose, ConnType
  <2>3. /\ ItemsListed' /\ Apart' /\ Somewhere' /\ Searched'
        /\ Queued("global")' = {id \in Queued("global") : listens[id] # c}
        /\ \A p \in Queues : Queued(p)' \subseteq Queued(p)
    <3>1. \A d \in Clients : conn'[d].state = "open" => conn[d].state = "open"
      BY <2>2
    <3>. QED  BY <1>0, <1>7, <2>1, <2>2, <3>1
  <2>4. Cleaned'
    <3>1. ASSUME NEW d \in Clients PROVE ~Iterates(d)' /\ (Tidying(d)' => d = c)
      BY <2>1 DEF Iterates, Tidying
    <3>2. \A d \in Clients : conn'[d].state = "gone" => conn[d].state = "gone"
      BY <2>2
    <3>. QED  BY <1>0, <2>1, <2>3, <3>1, <3>2 DEF QueuesWell, Cleaned
  <2>. QED  BY <2>3, <2>4 DEF QueuesWell
<1>9. CASE RemoveClient
  <2> DEFINE c == iface.client
  <2>1. /\ c \in Clients /\ iface.pc = "queues" /\ UNCHANGED <<worker, listens, served, conn>>
        /\ queue' = [queue EXCEPT !["trunk"] = Without(c, "trunk")]
        /\ iface' = NextCall(0)
    BY <1>9 DEF RemoveClient, ThreadsWell, LeavesTrunks
  <2>2. iface'.client = c
    <3>1. 0 \in 0..(Lines + 1)
      BY ExchangeAssumption
    <3>2. NextCall(0).client = c
      BY TypeOK DEF NextCall, TypeOK, IfaceType
    <3>. QED  BY <2>1, <3>2
  <2>3. conn[c].state = "lost" /\ Tidying(c)
    BY <2>1 DEF ThreadsWell, Tidying
  <2>4. /\ ItemsListed' /\ Apart' /\ Somewhere' /\ Searched'
        /\ Queued("trunk")' = {id \in Queued("trunk") : listens[id] # c}
        /\ Queued("global")' = Queued("global")
        /\ \A p \in Queues : Queued(p)' \subseteq Queued(p)
    BY <1>0, <1>7, <2>1, <2>3
  <2>5. \A q \in Queues : \A id \in Queued(q)' : listens[id] # c
    <3>1. \A id \in Queued("global") : listens[id] # c
      BY <2>1, <2>3 DEF QueuesWell, Cleaned
    <3>. QED  BY <1>0, <2>4, <3>1
  <2>6. Cleaned'
    <3>1. \A d \in Clients : (Tidying(d)' \/ Iterates(d)') => d = c
      BY <2>2 DEF Tidying, Iterates
    <3>. HIDE DEF c
    <3>. QED  BY <1>0, <2>1, <2>4, <2>5, <3>1 DEF QueuesWell, Cleaned
  <2>. QED  BY <2>4, <2>6 DEF QueuesWell
<1>10. ASSUME UNCHANGED <<queue, listens, served, worker>>,
              \A c \in Clients :
                 /\ conn'[c].state = "open" => conn[c].state = "open"
                 /\ conn'[c].state = "gone" => conn[c].state = "gone" \/ Iterates(c)
                 /\ Tidying(c)' => Tidying(c)
                 /\ Iterates(c)' => Iterates(c)
       PROVE  QueuesWell'
  BY <1>10, QueuesSame
<1>11. ASSUME UNCHANGED <<queue, listens, served, worker, conn>>,
              iface' = iface \/ iface'.pc \in {"idle", "connecting", "found"}
       PROVE  QueuesWell'
  <2>1. \A c \in Clients : (Tidying(c)' => Tidying(c)) /\ (Iterates(c)' => Iterates(c))
    BY <1>11 DEF Tidying, Iterates
  <2>. QED  BY <1>10, <1>11, <2>1
<1>12. ASSUME NEW l \in Line,
              Rings(l) \/ DisconnectRequest(l) \/ Drops(l)
       PROVE  QueuesWell'
  BY <1>11, <1>12 DEF Rings, DisconnectRequest, Drops
<1>21. ASSUME NEW t \in Senders, Sends(t) \/ \E l \in Line : Tests(t, l) PROVE QueuesWell'
  BY <1>11, <1>21 DEF Sends, Tests
<1>13. CASE Rejects
  <2>1. \A c \in Clients : Tidying(c)' = Tidying(c) /\ Iterates(c)' = Iterates(c)
    BY <1>13 DEF Rejects, Tidying, Iterates
  <2>. QED  BY <1>13, <2>1, QueuesSame DEF Rejects
<1>14. ASSUME NEW l \in Line, ConnectDone(l) PROVE QueuesWell'
  <2>1. line[l].dialer \in Clients
    BY <1>14 DEF ConnectDone, ThreadsWell
  <2>2. \A c \in Clients : conn'[c].state = conn[c].state
    <3>1. CASE Gives(l, line[l].dialer)
      BY <2>1, <3>1, GivesEffect
    <3>2. CASE ~Gives(l, line[l].dialer)
      BY <1>14, <3>2 DEF ConnectDone
    <3>. QED  BY <3>1, <3>2
  <2>3. UNCHANGED <<queue, listens, served, worker, iface>>
    BY <1>14 DEF ConnectDone
  <2>4. \A c \in Clients : Tidying(c)' = Tidying(c) /\ Iterates(c)' = Iterates(c)
    BY <2>3 DEF Tidying, Iterates
  <2>. QED  BY <1>10, <2>2, <2>3, <2>4
<1>15. ASSUME NEW l \in Line, DisconnectDone(l) PROVE QueuesWell'
  <2>1. conn \in [Clients -> ConnType]
    BY <1>0
  <2>2. \A c \in Clients : conn'[c].state = conn[c].state
    BY <1>15, <2>1 DEF DisconnectDone, ConnType
  <2>3. UNCHANGED <<queue, listens, served, worker, iface>>
    BY <1>15 DEF DisconnectDone
  <2>4. \A c \in Clients : Tidying(c)' = Tidying(c) /\ Iterates(c)' = Iterates(c)
    BY <2>3 DEF Tidying, Iterates
  <2>. QED  BY <1>10, <2>2, <2>3, <2>4
<1>16. ASSUME NEW c \in Clients, CONN(c) \/ \E l \in Line : Find(c, l) PROVE QueuesWell'
  BY <1>11, <1>16 DEF CONN, Find, IdleIface
<1>17. CASE Connects \/ NoResource \/ DISC \/ Deadlocks
  <2>1. iface' = iface \/ iface'.pc \in {"idle", "connecting"}
    BY <1>17 DEF Connects, NoResource, DISC, Deadlocks, IdleIface, TypeOK, IfaceType
  <2>. QED  BY <1>11, <1>17, <2>1 DEF Connects, NoResource, DISC, Deadlocks
<1>18. CASE TellsCall \/ HangsUp
  <2>1. iface'.client = iface.client /\ iface.pc \in {"telling", "hanging"}
    BY <1>18 DEF TellsCall, HangsUp, NextCall, TypeOK, IfaceType
  <2>2. \A c \in Clients : (Tidying(c)' => Tidying(c)) /\ (Iterates(c)' => Iterates(c))
    BY <2>1 DEF Tidying, Iterates
  <2>. QED  BY <1>10, <1>18, <2>2 DEF TellsCall, HangsUp
<1>19. CASE Deletes
  <2>1. \A c \in Clients : ~Tidying(c)' /\ ~Iterates(c)'
    BY <1>19 DEF Deletes, IdleIface, Tidying, Iterates
  <2>2. \A c \in Clients : conn'[c].state = conn[c].state
                           \/ (conn'[c].state = "gone" /\ Iterates(c))
    BY <1>0, <1>19 DEF Deletes, Iterates
  <2>. QED  BY <1>10, <1>19, <2>1, <2>2 DEF Deletes
<1>20. CASE UNCHANGED vars
  BY <1>11, <1>20 DEF vars
<1>. QED
  BY <1>1, <1>2, <1>3, <1>4, <1>5, <1>8, <1>9, <1>12, <1>13, <1>14, <1>15, <1>16, <1>17,
     <1>18, <1>19, <1>20, <1>21
     DEF Next, TrunkThread, MediaThread, InterfaceThread, Environment, Senders

----------------------------------------------------------------------------
(*                                The calls                                 *)

(* A call of a client that is gone, or that lost_connection() is past, is   *)
(* nobody's.                                                                *)
LEMMA CallsOfLost ==
    ASSUME ThreadsWell, CallsFollow, NEW c \in Clients, NEW l \in Line, IsCallOf(l, c)
    PROVE  /\ l \in Known(c)
           /\ conn[c].state = "open" \/ Tidying(c)
           /\ iface.pc # "deleting" \/ iface.client # c
<1>1. l \in Known(c)
  BY DEF CallsFollow, Serves
<1>. QED  BY <1>1 DEF Known, Tidying, ThreadsWell

LEMMA TroublesStay ==
    ASSUME [Next]_vars
    PROVE  troubles \subseteq troubles'
<1>1. CASE TrunkThread
  <2>1. ASSUME NEW l, NEW c, Gives(l, c) PROVE troubles \subseteq troubles'
    BY <2>1 DEF Gives, Trouble
  <2>. QED
    BY <1>1, <2>1 DEF TrunkThread, DequeuesTrunk, DequeuesGlobal, Offers, Rejects, Sends,
                      ConnectRequest, ConnectDone, DisconnectDone, Calm, Trouble
<1>2. CASE InterfaceThread
  BY <1>2 DEF InterfaceThread, Connects, NoResource, DISC, RemoveClient, TellsCall,
              HangsUp, Deletes, Deadlocks, Calm, Trouble
<1>3. CASE Environment
  BY <1>3 DEF Environment, Rings, DisconnectRequest, Drops, LSTN, CONN, Find, Lose,
              Tests, Calm, Trouble
<1>4. CASE MediaThread
  BY <1>4 DEF MediaThread, Sends
<1>. QED  BY <1>1, <1>2, <1>3, <1>4 DEF Next, vars

(* What is given to a client that is not gone is in its calls at once.      *)
LEMMA GivesKeeps ==
    ASSUME TypeOK, ThreadsWell, CallsFollow, ~fault,
           NEW l \in Line, NEW c \in Clients, Gives(l, c),
           line[l].phase \in {"ringing", "dialing"}, conn[c].state # "gone",
           iface' = iface, worker'.pc # "offer"
    PROVE  troubles' # {} \/ (CallsFollow' /\ ~fault')
<1>0. /\ line \in [Line -> LineType] /\ conn \in [Clients -> ConnType]
      /\ line[l].asked = FALSE
  BY DEF TypeOK, LineType
<1>1. CASE Iterates(c)
  BY <1>1 DEF Gives, Trouble
<1>2. CASE ~Iterates(c)
  <2>1. ~fault'
    BY <1>2 DEF Gives, IsGone
  <2>2. /\ line'[l].phase = "up" /\ line'[l].client = c /\ line'[l].asked = FALSE
        /\ \A k \in Line : k # l => line'[k] = line[k]
        /\ \A d \in Clients : conn'[d].state = conn[d].state
        /\ conn'[c].calls = conn[c].calls \cup {l}
        /\ \A d \in Clients : d # c => conn'[d] = conn[d]
    BY GivesEffect
  <2>3. conn[c].state = "open" \/ (iface.pc = "queues" /\ iface.client = c)
    BY <1>0, <1>2 DEF ThreadsWell, Tidying, Iterates, ConnType
  <2>4. Known(c)' = Known(c) \cup {l} /\ Serves(c)' = Serves(c) \cup {l}
    <3>1. IsCallOf(l, c)' /\ \A k \in Line : k # l => (IsCallOf(k, c)' <=> IsCallOf(k, c))
      BY <2>2 DEF IsCallOf
    <3>2. Serves(c)' = Serves(c) \cup {l}
      BY <3>1 DEF Serves
    <3>3. Known(c) = conn[c].calls /\ Known(c)' = conn'[c].calls
      BY <2>2, <2>3 DEF Known
    <3>. QED  BY <2>2, <3>2, <3>3
  <2>5. ASSUME NEW d \in Clients, d # c PROVE Known(d)' = Known(d) /\ Serves(d)' = Serves(d)
    <3>1. \A k \in Line : IsCallOf(k, d)' <=> IsCallOf(k, d)
      BY <1>0, <2>2, <2>5 DEF IsCallOf
    <3>2. Serves(d)' = Serves(d)
      BY <3>1 DEF Serves
    <3>3. Known(d)' = Known(d)
      BY <2>2, <2>5 DEF Known
    <3>. QED  BY <3>2, <3>3
  <2>6. \A d \in Clients : Serves(d)' = Known(d)'
    <3>1. \A d \in Clients : Serves(d) = Known(d)
      BY DEF CallsFollow
    <3>. QED  BY <2>4, <2>5, <3>1
  <2>7. /\ \A d \in Clients : conn'[d].state = "gone" => conn'[d].calls = {}
        /\ iface'.pc = "telling" => iface'.line \in conn'[iface'.client].calls
        /\ worker'.pc = "offer" => conn'[worker'.item.client].state # "gone"
        /\ \A k \in Line :
              line'[k].phase = "dialing" => conn'[line'[k].dialer].state # "gone"
    <3>1. iface.pc = "telling" => iface.client \in Clients /\ iface.client # c
      BY <1>2 DEF ThreadsWell, Iterates
    <3>2. ASSUME NEW k \in Line, line'[k].phase = "dialing"
          PROVE  conn'[line'[k].dialer].state # "gone"
      <4>1. line'[k] = line[k] /\ line[k].dialer \in Clients
        BY <2>2, <3>2 DEF ThreadsWell
      <4>. QED  BY <2>2, <3>2, <4>1 DEF CallsFollow
    <3>3. conn[c].state # "gone" /\ conn'[c].state # "gone"
      BY <2>2
    <3>. QED  BY <2>2, <3>1, <3>2, <3>3 DEF CallsFollow
  <2>. QED  BY <2>1, <2>6, <2>7 DEF CallsFollow
<1>. QED  BY <1>1, <1>2

(* The lines and connections stay as they are.                              *)
LEMMA CallsSame ==
    ASSUME TypeOK, ThreadsWell, ItemsListed, CallsFollow,
           UNCHANGED <<line, conn>>,
           \/ iface' = iface
           \/ {iface.pc, iface'.pc} \subseteq {"idle", "connecting", "found"},
           \/ worker' = worker \/ worker'.pc # "offer"
           \/ conn[worker'.item.client].state # "gone"
    PROVE  CallsFollow'
<1>1. \A c \in Clients : Serves(c)' = Serves(c)
  BY DEF Serves, IsCallOf
<1>2. \A c \in Clients : Known(c)' = Known(c)
  BY DEF Known
<1>. QED  BY <1>1, <1>2 DEF CallsFollow

(* A line changes that is, and stays, nobody's.                             *)
LEMMA CallsOfOthers ==
    ASSUME TypeOK, ThreadsWell, CallsFollow, NEW l \in Line,
           UNCHANGED conn,
           \/ iface' = iface
           \/ {iface.pc, iface'.pc} \subseteq {"idle", "connecting", "found"},
           worker' = worker \/ worker'.pc # "offer",
           \A k \in Line : k # l => line'[k] = line[k],
           \A c \in Clients : IsCallOf(l, c)' <=> IsCallOf(l, c),
           line'[l].phase = "dialing" =>
               conn[line'[l].dialer].state # "gone"
    PROVE  CallsFollow'
<1>1. ASSUME NEW c \in Clients PROVE Serves(c)' = Serves(c)
  <2>1. ASSUME NEW k \in Line PROVE IsCallOf(k, c)' <=> IsCallOf(k, c)
    BY DEF IsCallOf
  <2>. QED  BY <2>1 DEF Serves
<1>2. \A c \in Clients : Known(c)' = Known(c)
  BY DEF Known
<1>3. \A k \in Line : line'[k].phase = "dialing" => conn[line'[k].dialer].state # "gone"
  BY DEF CallsFollow
<1>. QED  BY <1>1, <1>2, <1>3 DEF CallsFollow

LEMMA CallsKept ==
    ASSUME IInv, [Next]_vars
    PROVE  troubles' # {} \/ (CallsFollow' /\ ~fault')
<1> USE DEF TrunkThreadIsFree
<1> DEFINE Good == troubles' # {} \/ (CallsFollow' /\ ~fault')
<1> SUFFICES Good
  OBVIOUS
<1>1. CASE troubles # {}
  BY <1>1, TroublesStay
<1>2. CASE troubles = {}
  <2>0. /\ TypeOK /\ ThreadsWell /\ CallsFollow /\ SendersWell /\ ~fault /\ QueuesWell /\ ItemsListed /\ Cleaned
        /\ line \in [Line -> LineType] /\ conn \in [Clients -> ConnType]
        /\ worker \in WorkerType /\ iface \in IfaceType
    BY <1>2 DEF IInv, Sound, TypeOK, QueuesWell
  <2> HIDE DEF Good
  <2>1. ASSUME NEW l \in Line, Rings(l) PROVE Good
    <3>1. /\ UNCHANGED <<conn, iface, worker, fault>>
          /\ \A k \in Line : k # l => line'[k] = line[k]
          /\ \A c \in Clients : IsCallOf(l, c)' <=> IsCallOf(l, c)
          /\ line'[l].phase = "ringing"
      BY <2>0, <2>1 DEF Rings, Calm, IsCallOf
    <3>. QED  BY <2>0, <3>1, CallsOfOthers DEF Good
  <2>2. ASSUME NEW l \in Line, ConnectRequest(l) PROVE Good
    BY <2>0, <2>2, CallsSame DEF ConnectRequest, Calm, Good
  <2>3. ASSUME NEW q \in Queues, NEW otherwise \in {"global", "reject"},
               Dequeue(q, otherwise), UNCHANGED <<line, conn, iface, fault>>
        PROVE  Good
    <3>1. CASE queue[q] = << >>
      BY <2>0, <2>3, <3>1, CallsSame DEF Dequeue, WorkerType, Good
    <3>2. CASE queue[q] # << >>
      <4> DEFINE h == Head(queue[q])
      <4>1. queue[q] \in Seq(Item) /\ Tidy(queue[q], listens)
        BY <2>0 DEF TypeOK, ItemsListed
      <4>2. /\ h.id \in Ids(queue[q]) /\ h.client = listens[h.id] /\ h.client \in Clients
        BY <3>2, <4>1, TailIsTidy DEF Item
      <4>3. worker'.item = h
        BY <2>0, <2>3, <3>2 DEF Dequeue, WorkerType
      <4> HIDE DEF h
      <4>4. conn[h.client].state # "gone"
        BY <2>0, <4>2 DEF Cleaned, Queued, Ids
      <4>. QED  BY <2>0, <2>3, <4>3, <4>4, CallsSame DEF Good
    <3>. QED  BY <3>1, <3>2
  <2>4. CASE DequeuesTrunk
    <3>1. /\ Dequeue("trunk", "global") /\ UNCHANGED <<line, conn, iface, fault>>
          /\ "trunk" \in Queues /\ "global" \in {"global", "reject"}
      BY <2>4 DEF DequeuesTrunk, AfterTrunk, Queues, Calm
    <3>. QED  BY <2>3, <3>1
  <2>5. CASE DequeuesGlobal
    <3>1. /\ Dequeue("global", "reject") /\ UNCHANGED <<line, conn, iface, fault>>
          /\ "global" \in Queues /\ "reject" \in {"global", "reject"}
      BY <2>5 DEF DequeuesGlobal, Queues, Calm
    <3>. QED  BY <2>3, <3>1
  <2>6. CASE Offers
    <3>1. /\ worker.pc = "offer" /\ worker.line \in Line /\ line[worker.line].phase = "ringing"
          /\ Gives(worker.line, worker.item.client) /\ iface' = iface /\ worker'.pc # "offer"
      BY <2>0, <2>6 DEF Offers, ThreadsWell, IdleWorker
    <3>2. worker.item.client \in Clients
      BY <2>0, <3>1 DEF ItemsListed, TypeOK
    <3>3. conn[worker.item.client].state # "gone"
      BY <2>0, <3>1 DEF CallsFollow
    <3>. QED  BY <2>0, <3>1, <3>2, <3>3, GivesKeeps DEF Good
  <2>7. CASE Rejects
    <3>1. PICK l \in Line :
            /\ UNCHANGED <<conn, iface, fault>> /\ worker'.pc = "idle"
            /\ line[l].phase = "ringing"
            /\ line' = [line EXCEPT ![l].phase = "ending"] /\ line[l].asked = FALSE
      BY <2>0, <2>7 DEF Rejects, Calm, ThreadsWell, IdleWorker, TypeOK, LineType
    <3>2. /\ \A k \in Line : k # l => line'[k] = line[k]
          /\ \A c \in Clients : IsCallOf(l, c)' <=> IsCallOf(l, c)
          /\ line'[l].phase = "ending"
      BY <2>0, <3>1 DEF IsCallOf, LineType
    <3>. QED  BY <2>0, <3>1, <3>2, CallsOfOthers DEF Good
  <2>8. ASSUME NEW l \in Line, ConnectDone(l) PROVE Good
    <3>1. /\ line[l].dialer \in Clients /\ line[l].phase = "dialing" /\ line[l].asked = FALSE
          /\ conn[line[l].dialer].state # "gone" /\ worker.pc = "idle"
          /\ UNCHANGED <<worker, iface>>
      BY <2>0, <2>8 DEF ConnectDone, ThreadsWell, CallsFollow, LineType, TypeOK
    <3>2. CASE Gives(l, line[l].dialer)
      BY <2>0, <3>1, <3>2, GivesKeeps DEF Good
    <3>3. CASE ~Gives(l, line[l].dialer)
      <4>1. /\ line' = [line EXCEPT ![l] = [FreeLine EXCEPT !.client = line[l].dialer]]
            /\ UNCHANGED conn /\ ~fault'
        BY <2>8, <3>1, <3>3 DEF ConnectDone, IsGone
      <4>2. /\ \A k \in Line : k # l => line'[k] = line[k]
            /\ line'[l].phase = "free" /\ line'[l].asked = FALSE
        BY <2>0, <4>1 DEF FreeLine
      <4>3. \A c \in Clients : IsCallOf(l, c)' <=> IsCallOf(l, c)
        BY <3>1, <4>2 DEF IsCallOf
      <4>. QED  BY <2>0, <3>1, <4>1, <4>2, <4>3, CallsOfOthers DEF Good
    <3>. QED  BY <3>2, <3>3
  <2>9. ASSUME NEW l \in Line, DisconnectRequest(l) PROVE Good
    <3>1. /\ UNCHANGED <<conn, iface, worker>>
          /\ \A k \in Line : k # l => line'[k] = line[k]
          /\ \A c \in Clients : IsCallOf(l, c)' <=> IsCallOf(l, c)
          /\ line'[l].phase = "hungup" /\ line[l].phase = "up"
      BY <2>0, <2>9 DEF DisconnectRequest, IsCallOf
    <3>2. ~fault'
      <4>1. fault' = IsGone(line[l].client) /\ line[l].client \in ClientOrNone
        BY <2>0, <2>9 DEF DisconnectRequest, LineType
      <4>2. ASSUME IsGone(line[l].client) PROVE FALSE
        <5> DEFINE c == line[l].client
        <5>1. c \in Clients /\ conn[c].state = "gone" /\ IsCallOf(l, c)
          BY <3>1, <4>1, <4>2 DEF IsGone, ClientOrNone, IsCallOf
        <5>. HIDE DEF c
        <5>. QED  BY <2>0, <5>1, CallsOfLost DEF ThreadsWell
      <4>. QED  BY <4>1, <4>2
    <3>. QED  BY <2>0, <3>1, <3>2, CallsOfOthers DEF Good
  <2>10. ASSUME NEW l \in Line, Drops(l) PROVE Good
    BY <2>10 DEF Drops, Trouble, Good
  <2>11. ASSUME NEW l \in Line, DisconnectDone(l) PROVE Good
    <3>0. PICK c \in ClientOrNone : c = line[l].client
      BY <2>0 DEF LineType
    <3>1. /\ line' = [line EXCEPT ![l] = Released(l)] /\ line[l].phase = "ending"
          /\ UNCHANGED <<iface, worker>>
          /\ worker.pc = "idle"
          /\ IF c # NoClient /\ line[l].asked
             THEN /\ conn' = [conn EXCEPT ![c].calls = @ \ {l}]
                  /\ fault' = (IsGone(c) \/ (Iterates(c) /\ iface.line = l))
                  /\ Iterates(c) => troubles' # {}
             ELSE conn' = conn /\ fault' = fault
      BY <2>0, <2>11, <3>0 DEF DisconnectDone, CallsAfter, Calm, Trouble
    <3>2. /\ \A k \in Line : k # l => line'[k] = line[k]
          /\ line'[l].phase = "free" /\ line'[l].asked = FALSE
      BY <2>0, <3>1 DEF Released, LineType
    <3>3. \A d \in Clients : ~IsCallOf(l, d)'
      BY <3>2 DEF IsCallOf
    <3>4. CASE c # NoClient /\ line[l].asked
      <4>1. c \in Clients /\ IsCallOf(l, c)
        BY <3>0, <3>1, <3>4 DEF ClientOrNone, IsCallOf
      <4>2. /\ l \in Known(c)
            /\ conn[c].state = "open" \/ Tidying(c)
            /\ iface.pc # "deleting" \/ iface.client # c
        BY <2>0, <4>1, CallsOfLost
      <4>3. ~IsGone(c)
        BY <2>0, <4>1, <4>2 DEF IsGone, ThreadsWell
      <4>4. CASE Iterates(c)
        BY <3>1, <3>4, <4>4 DEF Good
      <4>5. CASE ~Iterates(c)
        <5>1. ~fault'
          BY <3>1, <3>4, <4>3, <4>5
        <5>2. /\ conn'[c].calls = conn[c].calls \ {l}
              /\ \A d \in Clients : conn'[d].state = conn[d].state
              /\ \A d \in Clients : d # c => conn'[d] = conn[d]
          <6>1. conn' = [conn EXCEPT ![c].calls = @ \ {l}]
            BY <3>1, <3>4
          <6>2. conn \in [Clients -> ConnType]
            BY <2>0
          <6>. QED  BY <4>1, <6>1, <6>2 DEF ConnType
        <5>3. conn[c].state = "open" \/ (iface.pc = "queues" /\ iface.client = c)
          BY <4>2, <4>5 DEF Tidying, Iterates
        <5>4. Known(c)' = Known(c) \ {l} /\ Serves(c)' = Serves(c) \ {l}
          <6>1. Known(c) = conn[c].calls /\ Known(c)' = conn'[c].calls
            BY <3>1, <5>2, <5>3, <4>1 DEF Known
          <6>2. \A k \in Line : k # l => (IsCallOf(k, c)' <=> IsCallOf(k, c))
            BY <3>2 DEF IsCallOf
          <6>3. Serves(c)' = Serves(c) \ {l}
            BY <3>3, <4>1, <6>2 DEF Serves
          <6>. QED  BY <5>2, <6>1, <6>3
        <5>5. ASSUME NEW d \in Clients, d # c
              PROVE  Known(d)' = Known(d) /\ Serves(d)' = Serves(d)
          <6>1. Known(d)' = Known(d)
            BY <3>1, <5>2, <5>5 DEF Known
          <6>2. ~IsCallOf(l, d) /\ ~IsCallOf(l, d)'
            BY <3>0, <3>3, <5>5 DEF IsCallOf
          <6>3. \A k \in Line : k # l => (IsCallOf(k, d)' <=> IsCallOf(k, d))
            BY <3>2 DEF IsCallOf
          <6>4. Serves(d)' = Serves(d)
            BY <6>2, <6>3 DEF Serves
          <6>. QED  BY <6>1, <6>4
        <5>6. /\ \A d \in Clients : Serves(d)' = Known(d)'
              /\ \A d \in Clients : conn'[d].state = "gone" => conn'[d].calls = {}
          <6>1. /\ \A d \in Clients : Serves(d) = Known(d)
                /\ \A d \in Clients : conn[d].state = "gone" => conn[d].calls = {}
            BY <2>0 DEF CallsFollow
          <6>2. conn[c].state # "gone"
            BY <4>1, <4>3, ExchangeAssumption DEF IsGone
          <6>3. \A d \in Clients : Serves(d)' = Known(d)'
            BY <5>4, <5>5, <6>1
          <6>. QED  BY <5>2, <6>1, <6>2, <6>3
        <5>7. iface'.pc = "telling" => iface'.line \in conn'[iface'.client].calls
          <6>1. iface.pc = "telling" => iface.client \in Clients /\ iface.client # c
            BY <2>0, <4>5 DEF ThreadsWell, Iterates
          <6>. QED  BY <2>0, <3>1, <5>2, <6>1 DEF CallsFollow
        <5>8. \A k \in Line :
                 line'[k].phase = "dialing" => conn'[line'[k].dialer].state # "gone"
          <6>1. ASSUME NEW k \in Line, line'[k].phase = "dialing"
                PROVE  line'[k] = line[k] /\ line[k].dialer \in Clients
            BY <2>0, <3>2, <6>1 DEF ThreadsWell
          <6>. QED  BY <2>0, <5>2, <6>1 DEF CallsFollow
        <5>9. CallsFollow'
          BY <3>1, <5>6, <5>7, <5>8 DEF CallsFollow
        <5>. QED  BY <5>1, <5>9 DEF Good
      <4>. QED  BY <4>4, <4>5
    <3>5. CASE ~(c # NoClient /\ line[l].asked)
      <4>1. \A d \in Clients : ~IsCallOf(l, d)
        BY <3>0, <3>1, <3>5, ExchangeAssumption DEF IsCallOf
      <4>. QED  BY <2>0, <3>1, <3>2, <3>3, <3>5, <4>1, CallsOfOthers DEF Good
    <3>. QED  BY <3>4, <3>5
  <2>12. ASSUME NEW c \in Clients, (\E q \in Queues : LSTN(c, q)) \/ CONN(c)
                                   \/ \E l \in Line : Find(c, l)
         PROVE  Good
    <3>1. /\ UNCHANGED <<line, conn, worker, fault>>
          /\ iface' = iface \/ {iface.pc, iface'.pc} \subseteq {"idle", "connecting", "found"}
      BY <2>12 DEF LSTN, CONN, Find, IsIdle, IdleIface, Calm
    <3>. QED  BY <2>0, <3>1, CallsSame DEF Good
  <2>13. CASE NoResource
    BY <2>0, <2>13, CallsSame DEF NoResource, IdleIface, Calm, Good
  <2>14. CASE Deadlocks
    BY <2>14 DEF Deadlocks, Trouble, Good
  <2>15. CASE Connects
    <3>1. /\ iface.client \in Clients /\ iface.pc = "connecting"
          /\ conn[iface.client].state = "open" /\ UNCHANGED <<conn, worker, fault>>
      BY <2>0, <2>15 DEF Connects, ThreadsWell, Calm
    <3>0. PICK l \in Line : l = iface.line
      BY <2>15 DEF Connects
    <3>2. CASE line[l].phase = "free"
      <4>1. /\ line' = [line EXCEPT ![l].phase = "dialing", ![l].dialer = iface.client]
            /\ iface'.pc = "idle"
        BY <2>15, <3>0, <3>2 DEF Connects, IdleIface
      <4>2. /\ \A k \in Line : k # l => line'[k] = line[k]
            /\ line'[l].phase = "dialing" /\ line'[l].dialer = iface.client
            /\ line'[l].asked = FALSE /\ line[l].asked = FALSE
        BY <2>0, <3>1, <3>2, <4>1 DEF LineType, TypeOK
      <4>3. \A d \in Clients : IsCallOf(l, d)' <=> IsCallOf(l, d)
        BY <3>2, <4>2 DEF IsCallOf
      <4>4. conn[line'[l].dialer].state # "gone"
        BY <3>1, <4>2
      <4>. QED  BY <2>0, <3>1, <4>1, <4>2, <4>3, <4>4, CallsOfOthers DEF Good
    <3>3. CASE line[l].phase # "free"
      <4>1. UNCHANGED line /\ iface'.pc = "connecting"
        BY <2>0, <2>15, <3>0, <3>1, <3>3 DEF Connects, IfaceType
      <4>. QED  BY <2>0, <3>1, <4>1, CallsSame DEF Good
    <3>. QED  BY <3>2, <3>3
  <2>16. CASE DISC
    <3>0. PICK l \in Line, c \in ClientOrNone : l = iface.line /\ c = iface.client
      BY <2>0, <2>16 DEF DISC, ThreadsWell, IfaceType
    <3>1. /\ iface.pc = "found" /\ iface'.pc = "idle" /\ UNCHANGED <<conn, worker>>
          /\ line[l].client \notin {c, NoClient} => troubles' # {}
          /\ line[l].client \in {c, NoClient} => UNCHANGED fault
          /\ \/ UNCHANGED line
             \/ /\ line' = [line EXCEPT ![l].phase = "ending", ![l].asked = TRUE]
                /\ line[l].phase \in {"up", "hungup"}
      BY <2>0, <2>16, <3>0 DEF DISC, IdleIface, Calm, Trouble
    <3>2. CASE line[l].client \notin {c, NoClient}
      BY <3>1, <3>2 DEF Good
    <3>3. CASE line[l].client \in {c, NoClient}
      <4>1. CASE UNCHANGED line
        BY <2>0, <3>1, <3>3, <4>1, CallsSame DEF Good
      <4>2. CASE ~UNCHANGED line
        <5>1. /\ \A k \in Line : k # l => line'[k] = line[k]
              /\ line'[l].phase = "ending" /\ line'[l].asked = TRUE
              /\ line'[l].client = line[l].client
          BY <2>0, <3>1, <4>2 DEF LineType
        <5>2. \A d \in Clients : IsCallOf(l, d)' <=> IsCallOf(l, d)
          BY <3>1, <4>2, <5>1 DEF IsCallOf
        <5>. QED  BY <2>0, <3>1, <3>3, <5>1, <5>2, CallsOfOthers DEF Good
      <4>. QED  BY <4>1, <4>2
    <3>. QED  BY <3>2, <3>3
  <2>17. ASSUME UNCHANGED <<line, worker, fault>>,
                \A c \in Clients :
                   /\ Known(c)' = Known(c)
                   /\ conn'[c].state = "gone" => conn'[c].calls = {},
                iface'.pc = "telling" => iface'.line \in conn'[iface'.client].calls,
                \A c \in Clients :
                   conn'[c].state = "gone" =>
                      /\ conn[c].state = "gone" \/ ~IsAwaited(c)
         PROVE  Good
    <3>1. \A c \in Clients : Serves(c)' = Known(c)'
      <4>1. \A c \in Clients : Serves(c)' = Serves(c)
        BY <2>17 DEF Serves, IsCallOf
      <4>2. \A c \in Clients : Serves(c) = Known(c)
        BY <2>0 DEF CallsFollow
      <4>. QED  BY <2>17, <4>1, <4>2
    <3>2. worker.pc = "offer" =>
             /\ worker.item.client \in Clients
             /\ conn[worker.item.client].state # "gone"
      BY <2>0 DEF CallsFollow, ItemsListed, TypeOK
    <3>3. ASSUME NEW l \in Line, line[l].phase = "dialing"
          PROVE  line[l].dialer \in Clients /\ conn[line[l].dialer].state # "gone"
      BY <2>0, <3>3 DEF CallsFollow, ThreadsWell
    <3>4. worker'.pc = "offer" => conn'[worker'.item.client].state # "gone"
      BY <2>17, <3>2 DEF IsAwaited
    <3>5. \A l \in Line : line'[l].phase = "dialing" => conn'[line'[l].dialer].state # "gone"
      BY <2>17, <3>3 DEF IsAwaited
    <3>6. CallsFollow'
      BY <2>17, <3>1, <3>4, <3>5 DEF CallsFollow
    <3>. QED  BY <2>0, <2>17, <3>6 DEF Good
  <2>18. ASSUME NEW c \in Clients, Lose(c) PROVE Good
    <3>1. /\ iface'.pc = "queues" /\ iface'.client = c /\ iface.pc = "idle"
          /\ conn[c].state = "open" /\ conn' = [conn EXCEPT ![c].state = "lost"]
          /\ UNCHANGED <<line, worker, fault>>
      BY <2>18 DEF Lose, IsIdle, IdleIface, Calm
    <3>2. /\ conn'[c].state = "lost" /\ \A d \in Clients : conn'[d].calls = conn[d].calls
          /\ \A d \in Clients : d # c => conn'[d].state = conn[d].state
      BY <2>0, <3>1 DEF ConnType
    <3>3. \A d \in Clients : Known(d)' = Known(d)
      BY <3>1, <3>2 DEF Known
    <3>4. \A d \in Clients : conn'[d].state = "gone" => conn[d].state = "gone" /\ conn'[d].calls = {}
      BY <2>0, <3>1, <3>2 DEF CallsFollow
    <3>. QED  BY <2>17, <3>1, <3>3, <3>4
  <2>19. CASE RemoveClient
    <3>1. PICK c \in Clients : c = iface.client
      BY <2>0, <2>19 DEF RemoveClient, ThreadsWell
    <3>2. /\ iface.pc = "queues" /\ UNCHANGED <<line, conn, worker, fault>>
          /\ iface' = NextCall(0) /\ conn[c].state = "lost"
          /\ conn[c].calls \subseteq Line
      BY <2>0, <2>19, <3>1 DEF RemoveClient, Calm, ThreadsWell, Tidying, ConnType
    <3> DEFINE calls == {k \in conn[iface.client].calls : k > 0}
    <3>3. 0 \in 0..(Lines + 1) /\ calls = conn[c].calls
      BY <3>1, <3>2, ExchangeAssumption DEF Line
    <3>4. PICK m :
             \/ /\ conn[c].calls = {}
                /\ iface' = [pc |-> "deleting", client |-> c, line |-> 0]
             \/ /\ m \in conn[c].calls /\ \A k \in conn[c].calls : m <= k
                /\ iface' = [pc |-> "telling", client |-> c, line |-> m]
      <4>1. \/ /\ calls = {}
               /\ NextCall(0) = [pc |-> "deleting", client |-> iface.client, line |-> 0]
            \/ /\ Min(calls) \in calls /\ \A k \in calls : Min(calls) <= k
               /\ NextCall(0) = [pc |-> "telling", client |-> iface.client,
                                 line |-> Min(calls)]
        BY <2>0, <3>1, <3>3, NextCallTypes
      <4> HIDE DEF calls
      <4>. QED  BY <3>1, <3>2, <3>3, <4>1
    <3>5. Known(c) = conn[c].calls
      BY <3>1, <3>2 DEF Known
    <3>6. Known(c)' = conn[c].calls
      <4>1. CASE iface' = [pc |-> "deleting", client |-> c, line |-> 0] /\ conn[c].calls = {}
        BY <3>2, <4>1 DEF Known
      <4>2. CASE /\ m \in conn[c].calls /\ \A k \in conn[c].calls : m <= k
                 /\ iface' = [pc |-> "telling", client |-> c, line |-> m]
        <5>1. Known(c)' = {k \in conn[c].calls : k >= m}
          BY <3>2, <4>2 DEF Known
        <5>2. \A k \in conn[c].calls : k >= m
          BY <3>2, <4>2 DEF Line
        <5>. QED  BY <5>1, <5>2
      <4>. QED  BY <3>4, <4>1, <4>2
    <3>7. iface'.client = c /\ iface'.pc \in {"telling", "deleting"}
      BY <3>4
    <3>8. ASSUME NEW d \in Clients PROVE Known(d)' = Known(d)
      <4>1. CASE d = c
        BY <3>5, <3>6, <4>1
      <4>2. CASE d # c
        BY <3>1, <3>2, <3>7, <4>2 DEF Known
      <4>. QED  BY <4>1, <4>2
    <3>9. iface'.pc = "telling" => iface'.line \in conn'[iface'.client].calls
      BY <3>2, <3>4
    <3>10. \A d \in Clients : conn'[d].state = "gone" => conn[d].state = "gone" /\ conn'[d].calls = {}
      BY <2>0, <3>2 DEF CallsFollow
    <3>. QED  BY <2>17, <3>2, <3>8, <3>9, <3>10
  <2>20. CASE TellsCall
    <3>1. PICK c \in Clients, l \in Line : c = iface.client /\ l = iface.line
      BY <2>0, <2>20 DEF TellsCall, ThreadsWell
    <3>2. /\ iface.pc = "telling" /\ UNCHANGED <<conn, worker, fault>>
          /\ iface'.pc = "hanging" /\ iface'.client = c /\ iface'.line = l
          /\ conn[c].state = "lost"
          /\ conn[c].calls \subseteq Line /\ l \in conn[c].calls
          /\ line' = [line EXCEPT ![l].client = NoClient] /\ l \in Nat
      BY <2>0, <2>20, <3>1
         DEF TellsCall, ThreadsWell, Tidying, ConnType, CallsFollow, Line, IfaceType
    <3>3. \A k \in conn[c].calls : k \in Nat
      BY <3>2 DEF Line
    <3>4. /\ Known(c) = {k \in conn[c].calls : k >= l}
          /\ Known(c)' = {k \in conn[c].calls : k > l}
      BY <3>1, <3>2 DEF Known
    <3>5. Known(c)' = Known(c) \ {l} /\ l \in Known(c)
      <4>1. \A k \in conn[c].calls : k > l <=> k >= l /\ k # l
        BY <3>2, <3>3
      <4>. QED  BY <3>2, <3>3, <3>4, <4>1
    <3>6. ASSUME NEW d \in Clients, d # c PROVE Known(d)' = Known(d)
      BY <3>1, <3>2, <3>6 DEF Known
    <3>7. /\ line'[l].client = NoClient /\ \A k \in Line : k # l => line'[k] = line[k]
          /\ line'[l].phase = line[l].phase /\ line'[l].dialer = line[l].dialer
      BY <2>0, <3>2 DEF LineType
    <3>8. Serves(c)' = Serves(c) \ {l}
      <4>1. ~IsCallOf(l, c)' /\ \A k \in Line : k # l => (IsCallOf(k, c)' <=> IsCallOf(k, c))
        BY <3>7, ExchangeAssumption DEF IsCallOf
      <4>. QED  BY <4>1 DEF Serves
    <3>9. \A d \in Clients : Serves(d) = Known(d)
      BY <2>0 DEF CallsFollow
    <3>10. ASSUME NEW d \in Clients, d # c PROVE Serves(d)' = Serves(d)
      <4>1. line[l].client = c
        BY <3>5, <3>9 DEF Serves, IsCallOf
      <4>2. \A k \in Line : IsCallOf(k, d)' <=> IsCallOf(k, d)
        BY <3>7, <3>10, <4>1, ExchangeAssumption DEF IsCallOf
      <4>. QED  BY <4>2 DEF Serves
    <3>11. \A d \in Clients : Serves(d)' = Known(d)'
      BY <3>5, <3>6, <3>8, <3>9, <3>10
    <3>12. \A k \in Line : line'[k].phase = "dialing" =>
              line[k].phase = "dialing" /\ line'[k].dialer = line[k].dialer
      BY <3>7
    <3>13. CallsFollow'
      BY <2>0, <3>2, <3>11, <3>12 DEF CallsFollow
    <3>. QED  BY <2>0, <3>2, <3>13 DEF Good
  <2>23. CASE HangsUp
    <3>1. PICK c \in Clients, l \in Line : c = iface.client /\ l = iface.line
      BY <2>0, <2>23 DEF HangsUp, ThreadsWell
    <3>2. /\ iface.pc = "hanging" /\ UNCHANGED <<conn, worker, fault>>
          /\ iface' = NextCall(l) /\ conn[c].state = "lost" /\ conn[c].calls \subseteq Line
          /\ line' = [line EXCEPT ![l] = HungUp(l)] /\ l \in Nat
          /\ HasCall(l) /\ line[l].client # NoClient => troubles' # {}
      BY <2>0, <2>23, <3>1 DEF HangsUp, ThreadsWell, Tidying, ConnType, Line, Trouble
    <3> DEFINE calls == {k \in conn[iface.client].calls : k > l}
               rest == {k \in conn[c].calls : k > l}
    <3>3. l \in 0..(Lines + 1) /\ calls = rest
      BY <3>1, ExchangeAssumption DEF Line
    <3>4. PICK m :
             \/ /\ rest = {}
                /\ iface' = [pc |-> "deleting", client |-> c, line |-> 0]
             \/ /\ m \in rest /\ \A k \in rest : m <= k
                /\ iface' = [pc |-> "telling", client |-> c, line |-> m]
      <4>1. \/ /\ calls = {}
               /\ NextCall(l) = [pc |-> "deleting", client |-> iface.client, line |-> 0]
            \/ /\ Min(calls) \in calls /\ \A k \in calls : Min(calls) <= k
               /\ NextCall(l) = [pc |-> "telling", client |-> iface.client,
                                 line |-> Min(calls)]
        BY <2>0, <3>1, <3>3, NextCallTypes
      <4> HIDE DEF calls, rest
      <4>. QED  BY <3>1, <3>2, <3>3, <4>1
    <3>5. Known(c)' = rest
      <4>1. CASE iface' = [pc |-> "deleting", client |-> c, line |-> 0] /\ rest = {}
        BY <3>2, <4>1 DEF Known
      <4>2. CASE /\ m \in rest /\ \A k \in rest : m <= k
                 /\ iface' = [pc |-> "telling", client |-> c, line |-> m]
        <5>1. Known(c)' = {k \in conn[c].calls : k >= m}
          BY <3>2, <4>2 DEF Known
        <5>2. \A k \in conn[c].calls : k \in Nat /\ m \in Nat
          BY <3>2, <4>2 DEF Line
        <5>3. \A k \in conn[c].calls : k >= m <=> k > l
          BY <3>2, <4>2, <5>2
        <5>. QED  BY <5>1, <5>3
      <4>. QED  BY <3>4, <4>1, <4>2
    <3>6. rest = Known(c)
      BY <3>1, <3>2 DEF Known
    <3>7. iface'.client = c /\ iface'.pc \in {"telling", "deleting"}
      BY <3>4
    <3>8. ASSUME NEW d \in Clients, d # c PROVE Known(d)' = Known(d)
      BY <3>1, <3>2, <3>7, <3>8 DEF Known
    <3>9. CASE HasCall(l) /\ line[l].client # NoClient
      BY <3>2, <3>9 DEF Good
    <3>10. CASE ~(HasCall(l) /\ line[l].client # NoClient)
      <4>1. /\ \A k \in Line : k # l => line'[k] = line[k]
            /\ line'[l].client = line[l].client /\ line'[l].dialer = line[l].dialer
            /\ line'[l].asked = line[l].asked
            /\ line'[l].phase = "dialing" => line[l].phase = "dialing"
            /\ line'[l].phase \in {"up", "hungup"} => line[l].phase \in {"up", "hungup"}
        BY <2>0, <3>2 DEF HungUp, LineType
      <4>2. \A d \in Clients : ~IsCallOf(l, d) /\ ~IsCallOf(l, d)'
        BY <3>10, <4>1, ExchangeAssumption DEF IsCallOf, HasCall
      <4>3. \A d \in Clients : Serves(d)' = Serves(d)
        <5>1. \A d \in Clients, k \in Line : IsCallOf(k, d)' <=> IsCallOf(k, d)
          BY <4>1, <4>2 DEF IsCallOf
        <5>. QED  BY <5>1 DEF Serves
      <4>4. \A d \in Clients : Serves(d)' = Known(d)'
        <5>1. \A d \in Clients : Known(d)' = Known(d)
          BY <3>5, <3>6, <3>8
        <5>2. \A d \in Clients : Serves(d) = Known(d)
          BY <2>0 DEF CallsFollow
        <5>. QED  BY <4>3, <5>1, <5>2
      <4>5. iface'.pc = "telling" => iface'.line \in conn'[iface'.client].calls
        BY <3>2, <3>4
      <4>6. \A k \in Line : line'[k].phase = "dialing" =>
                line[k].phase = "dialing" /\ line'[k].dialer = line[k].dialer
        BY <4>1
      <4>7. CallsFollow'
        BY <2>0, <3>2, <4>4, <4>5, <4>6 DEF CallsFollow
      <4>. QED  BY <2>0, <3>2, <4>7 DEF Good
    <3>. QED  BY <3>9, <3>10
  <2>24. ASSUME NEW t \in Senders, NEW l \in Line, Tests(t, l) PROVE Good
    BY <2>0, <2>24, CallsSame DEF Tests, Calm, Good
  <2>25. ASSUME NEW t \in Senders, Sends(t) PROVE Good
    <3>1. sending[t] \in Line
      BY <2>0, <2>25 DEF Sends, TypeOK
    <3>2. PICK c \in Clients : c = line[sending[t]].client /\ conn[c].state # "gone"
      BY <2>0, <3>1 DEF SendersWell
    <3>3. ~fault' /\ UNCHANGED <<line, conn, iface, worker>>
      BY <2>25, <3>2, ExchangeAssumption DEF Sends, IsGone
    <3>. QED  BY <2>0, <3>3, CallsSame DEF Good
  <2>21. CASE Deletes
    <3>1. PICK c \in Clients : c = iface.client
      BY <2>0, <2>21 DEF Deletes, ThreadsWell
    <3>2. /\ iface.pc = "deleting" /\ UNCHANGED <<line, worker, fault>>
          /\ iface'.pc = "idle" /\ conn[c].state = "lost"
          /\ conn' = [conn EXCEPT ![c] = [state |-> "gone", calls |-> {}]]
          /\ IsAwaited(c) => troubles' # {}
      BY <2>0, <2>21, <3>1 DEF Deletes, IdleIface, ThreadsWell, Tidying
    <3>3. /\ conn'[c].state = "gone" /\ conn'[c].calls = {}
          /\ \A d \in Clients : d # c => conn'[d] = conn[d]
      BY <2>0, <3>2
    <3>4. CASE IsAwaited(c)
      BY <3>2, <3>4 DEF Good
    <3>5. CASE ~IsAwaited(c)
      <4>1. ASSUME NEW d \in Clients PROVE Known(d)' = Known(d)
        <5>1. CASE d = c
          BY <3>1, <3>2, <3>3, <5>1 DEF Known
        <5>2. CASE d # c
          BY <3>1, <3>2, <3>3, <5>2 DEF Known
        <5>. QED  BY <5>1, <5>2
      <4>2. \A d \in Clients : conn'[d].state = "gone" =>
               conn'[d].calls = {} /\ (conn[d].state = "gone" \/ ~IsAwaited(d))
        BY <2>0, <3>3, <3>5 DEF CallsFollow
      <4>. QED  BY <2>17, <3>2, <4>1, <4>2
    <3>. QED  BY <3>4, <3>5
  <2>22. CASE UNCHANGED vars
    BY <2>0, <2>22, CallsSame DEF vars, Good
  <2>. QED
    BY <2>1, <2>2, <2>4, <2>5, <2>6, <2>7, <2>8, <2>9, <2>10, <2>11, <2>12, <2>13, <2>14,
       <2>15, <2>16, <2>18, <2>19, <2>20, <2>21, <2>22, <2>23, <2>24, <2>25
       DEF Next, TrunkThread, MediaThread, InterfaceThread, Environment, Senders
<1>. QED  BY <1>1, <1>2

(* Whoever is about to tell a client something tells one that is there.     *)
LEMMA SendersKept ==
    ASSUME IInv, [Next]_vars, troubles' = {}
    PROVE  SendersWell'
<1>0. /\ TypeOK /\ ThreadsWell /\ CallsFollow /\ SendersWell /\ ItemsListed
      /\ line \in [Line -> LineType] /\ conn \in [Clients -> ConnType]
      /\ sending \in [Senders -> Line \cup {0}]
  <2>1. troubles = {}
    BY TroublesStay
  <2>. QED  BY <2>1 DEF IInv, Sound, TypeOK, QueuesWell
<1>1. ASSUME sending' = sending,
             \A d \in Clients : conn'[d].state = "gone" => conn[d].state = "gone",
             \A l \in Line : \/ line'[l].client = line[l].client
                            \/ /\ line'[l].client \in Clients
                               /\ conn[line'[l].client].state # "gone"
      PROVE  SendersWell'
  BY <1>0, <1>1 DEF SendersWell
<1>2. ASSUME UNCHANGED <<conn, sending>>,
             \A l \in Line : line'[l].client = line[l].client
      PROVE  SendersWell'
  BY <1>1, <1>2
<1>3. ASSUME NEW l \in Line, Rings(l) \/ ConnectRequest(l) \/ DisconnectRequest(l)
                               \/ Drops(l)
      PROVE  SendersWell'
  <2>1. conn' = conn /\ sending' = sending
    BY <1>3 DEF Rings, ConnectRequest, DisconnectRequest, Drops
  <2>2. CASE Rings(l)
    BY <1>0, <1>2, <2>1, <2>2 DEF Rings, LineType
  <2>3. CASE ConnectRequest(l)
    BY <1>0, <1>2, <2>1, <2>3 DEF ConnectRequest
  <2>4. CASE DisconnectRequest(l)
    BY <1>0, <1>2, <2>1, <2>4 DEF DisconnectRequest, LineType
  <2>5. CASE Drops(l)
    BY <1>0, <1>2, <2>1, <2>5 DEF Drops, Released, LineType
  <2>. QED  BY <1>3, <2>2, <2>3, <2>4, <2>5
<1>4. CASE DequeuesTrunk \/ DequeuesGlobal \/ NoResource \/ RemoveClient \/ Deadlocks
           \/ (\E c \in Clients : (\E q \in Queues : LSTN(c, q)) \/ CONN(c)
                                   \/ \E l \in Line : Find(c, l))
           \/ UNCHANGED vars
  BY <1>2, <1>4 DEF DequeuesTrunk, DequeuesGlobal, NoResource, RemoveClient, Deadlocks,
                    LSTN, CONN, Find, vars
<1>5. CASE Offers
  <2>1. /\ worker.line \in Line /\ worker.item.client \in Clients
        /\ conn[worker.item.client].state # "gone"
    BY <1>0, <1>5 DEF Offers, ThreadsWell, ItemsListed, CallsFollow, TypeOK
  <2>2. Gives(worker.line, worker.item.client) /\ sending' = sending
    BY <1>5 DEF Offers
  <2>3. /\ line'[worker.line].client = worker.item.client
        /\ \A k \in Line : k # worker.line => line'[k] = line[k]
        /\ \A d \in Clients : conn'[d].state = conn[d].state
    BY <1>0, <2>1, <2>2, GivesEffect
  <2>. QED  BY <1>1, <2>1, <2>2, <2>3
<1>6. CASE Rejects \/ Connects \/ DISC \/ HangsUp
  BY <1>0, <1>2, <1>6 DEF Rejects, Connects, DISC, HangsUp, HungUp, LineType
<1>7. ASSUME NEW l \in Line, ConnectDone(l) PROVE SendersWell'
  <2>1. /\ line[l].dialer \in Clients /\ conn[line[l].dialer].state # "gone"
        /\ sending' = [sending EXCEPT !["trunk"] = l]
    BY <1>0, <1>7 DEF ConnectDone, ThreadsWell, CallsFollow
  <2>2. /\ line'[l].client = line[l].dialer /\ \A k \in Line : k # l => line'[k] = line[k]
        /\ \A d \in Clients : conn'[d].state = conn[d].state
    <3>1. CASE Gives(l, line[l].dialer)
      BY <1>0, <2>1, <3>1, GivesEffect
    <3>2. CASE ~Gives(l, line[l].dialer)
      BY <1>0, <1>7, <3>2 DEF ConnectDone, FreeLine
    <3>. QED  BY <3>1, <3>2
  <2>. QED  BY <1>0, <2>1, <2>2 DEF SendersWell
<1>8. ASSUME NEW l \in Line, DisconnectDone(l) PROVE SendersWell'
  <2>1. \A d \in Clients : conn'[d].state = conn[d].state
    BY <1>0, <1>8 DEF DisconnectDone, ConnType
  <2>2. \A k \in Line : line'[k].client = line[k].client
    BY <1>0, <1>8 DEF DisconnectDone, Released, LineType
  <2>. QED  BY <1>1, <1>8, <2>1, <2>2 DEF DisconnectDone
<1>9. ASSUME NEW c \in Clients, Lose(c) PROVE SendersWell'
  BY <1>0, <1>1, <1>9 DEF Lose, ConnType
<1>10. ASSUME NEW t \in Senders, Sends(t) PROVE SendersWell'
  <2>1. 0 \notin Line
    BY DEF Line
  <2>. QED  BY <1>0, <1>10, <2>1 DEF Sends, SendersWell
<1>11. ASSUME NEW t \in Senders, NEW l \in Line, Tests(t, l) PROVE SendersWell'
  <2>1. PICK c \in Clients : c = line[l].client /\ IsCallOf(l, c)
    BY <1>0, <1>11 DEF Tests, HasCall, IsCallOf, LineType, ClientOrNone
  <2>2. conn[c].state # "gone"
    BY <1>0, <2>1, CallsOfLost DEF ThreadsWell
  <2>3. /\ sending' = [sending EXCEPT ![t] = l] /\ UNCHANGED <<line, conn>>
    BY <1>11 DEF Tests
  <2>. QED  BY <1>0, <2>1, <2>2, <2>3 DEF SendersWell
<1>12. CASE TellsCall
  <2>1. /\ \A k \in Line : k # iface.line => line'[k] = line[k]
        /\ UNCHANGED <<conn, sending>>
        /\ \A t \in Senders : sending[t] # iface.line
    BY <1>0, <1>12 DEF TellsCall, IsToldOf, Trouble
  <2>. QED  BY <1>0, <2>1 DEF SendersWell
<1>13. CASE Deletes
  <2>1. /\ UNCHANGED <<line, sending>> /\ ~IsToldLate(iface.client)
        /\ \A d \in Clients : d # iface.client => conn'[d] = conn[d]
    BY <1>0, <1>13 DEF Deletes
  <2>2. \A t \in Senders, l \in Line : sending[t] = l => line[l].client # iface.client
    BY <2>1 DEF IsToldLate, IsToldOf
  <2>. QED  BY <1>0, <2>1, <2>2 DEF SendersWell
<1>. QED
  BY <1>3, <1>4, <1>5, <1>6, <1>7, <1>8, <1>9, <1>10, <1>11, <1>12, <1>13
     DEF Next, TrunkThread, MediaThread, InterfaceThread, Environment, Senders

----------------------------------------------------------------------------
(*                               The theorems                               *)

LEMMA IInvHolds == Spec => []IInv
<1>1. Init => IInv
  <2> SUFFICES ASSUME Init PROVE IInv
    OBVIOUS
  <2>1. TypeOK
    <3>1. line \in [Line -> LineType] /\ \A l \in Line : ~line[l].asked
      BY DEF Init, FreeLine, LineType, ClientOrNone
    <3>2. worker \in WorkerType /\ iface \in IfaceType
      <4>1. NoItem \in {NoItem} /\ 0 \in 0..(Lines + 1)
        BY ExchangeAssumption
      <4>. QED  BY <4>1 DEF Init, IdleWorker, IdleIface, WorkerType, IfaceType, ClientOrNone
    <3>3. counts \in [dials : 0..MaxDials, calls : 0..MaxCalls, sends : 0..MaxSends]
      BY ExchangeAssumption DEF Init
    <3>4. queue \in [Queues -> Seq(Item)] /\ conn \in [Clients -> ConnType]
      BY DEF Init, ConnType
    <3>5. /\ listens \in Seq(Clients) /\ Len(listens) <= MaxListens
          /\ served = {} /\ fault = FALSE /\ troubles = {}
      BY ExchangeAssumption DEF Init
    <3>6. sending \in [Senders -> Line \cup {0}]
      BY DEF Init
    <3>. QED  BY <3>1, <3>2, <3>3, <3>4, <3>5, <3>6 DEF TypeOK
  <2>2. QueuesWell
    <3>1. \A q \in Queues : queue[q] = << >> /\ Queued(q) = {}
      BY DEF Init, Queued
    <3>2. worker.pc = "idle" /\ worker.item = NoItem /\ worker.seen = {} /\ DOMAIN listens = {}
      BY DEF Init, IdleWorker
    <3>3. ItemsListed
      <4>1. \A q \in Queues : Tidy(queue[q], listens)
        BY <3>1 DEF Tidy
      <4>. QED  BY <3>2, <4>1 DEF Init, ItemsListed
    <3>4. Apart
      BY <3>1 DEF Init, Apart, Queues
    <3>5. Somewhere
      BY <3>2 DEF Somewhere
    <3>6. Cleaned
      BY <3>1 DEF Cleaned, Queues
    <3>7. Searched
      BY <3>2 DEF Searched
    <3>. QED  BY <3>3, <3>4, <3>5, <3>6, <3>7 DEF QueuesWell
  <2>3. ThreadsWell
    BY DEF Init, ThreadsWell, Tidying, IdleWorker, IdleIface, FreeLine
  <2>4. CallsFollow
    <3>1. \A c \in Clients : Serves(c) = {}
      BY DEF Init, Serves, IsCallOf, FreeLine
    <3>2. \A c \in Clients : Known(c) = {}
      BY DEF Init, Known
    <3>. QED  BY <3>1, <3>2 DEF Init, CallsFollow, IdleWorker, IdleIface, FreeLine
  <2>5. SendersWell
    BY DEF Init, SendersWell, Line
  <2>. QED  BY <2>1, <2>2, <2>3, <2>4, <2>5 DEF Init, IInv, Sound
<1>2. IInv /\ [Next]_vars => IInv'
  <2> SUFFICES ASSUME IInv, [Next]_vars PROVE IInv'
    OBVIOUS
  <2>1. TypeOK /\ QueuesWell /\ ItemsListed /\ ThreadsWell
    BY DEF IInv, Sound, QueuesWell
  <2>2. TypeOK' /\ QueuesWell' /\ ThreadsWell'
    BY <2>1, TypesKept, QueuesKept, ThreadsKept
  <2>3. troubles' # {} \/ (CallsFollow' /\ ~fault')
    BY CallsKept
  <2>4. troubles' = {} => SendersWell'
    BY SendersKept
  <2>. QED  BY <2>2, <2>3, <2>4 DEF IInv, Sound
<1>. QED  BY <1>1, <1>2, PTL DEF Spec

(* Unless a trouble of the list came first, no thread ever sends to a       *)
(* connection that Interface::run() has deleted, and lost_connection()      *)
(* never goes on from an entry of m_calls that was erased: whatever the     *)
(* clients, lines, commands and calls, and in whatever order the threads    *)
(* take their turns, those included that send after an unlock or without    *)
(* a lock.                                                                  *)
THEOREM Soundness == Spec => []Sound
<1>1. IInv => Sound
  BY DEF IInv
<1>. QED  BY <1>1, IInvHolds, PTL

(* A client that is connected knows its calls and no others, so that it can *)
(* send them commands and lost_connection() hangs all of them up.           *)
THEOREM CallsAreKnown == Spec => []CallsKnown
<1>1. IInv => CallsKnown
  <2> SUFFICES ASSUME IInv, troubles = {}, NEW c \in Clients, NEW l \in Line,
                      conn[c].state = "open"
               PROVE  l \in conn[c].calls <=> IsCallOf(l, c)
    BY DEF CallsKnown, IsCallOf, HasCall
  <2>1. Serves(c) = Known(c)
    BY DEF IInv, CallsFollow
  <2>2. Known(c) = conn[c].calls
    BY DEF Known
  <2>. QED  BY <2>1, <2>2 DEF Serves
<1>. QED  BY <1>1, IInvHolds, PTL

(* A number stands in a queue once, at a position that the bound allows.    *)
LEMMA PlaceInQueue ==
    ASSUME IInv, NEW q \in Queues, NEW id \in Queued(q)
    PROVE  \E i \in 1..MaxListens :
              {p \in Queues \X (1..MaxListens) :
                  p[2] \in DOMAIN queue[p[1]] /\ queue[p[1]][p[2]].id = id} = {<<q, i>>}
<1>1. /\ queue[q] \in Seq(Item) /\ Tidy(queue[q], listens) /\ MaxListens \in Nat
      /\ \A p \in Queues : p # q => id \notin Queued(p)
  BY ExchangeAssumption DEF IInv, Sound, TypeOK, QueuesWell, ItemsListed, Apart, Queues
<1>2. PICK i \in DOMAIN queue[q] : queue[q][i].id = id
  BY DEF Queued
<1>3. i \in 1..MaxListens
  <2>1. queue[q][i] \in Item /\ i \in Nat /\ i >= 1
    BY <1>1
  <2>2. i <= queue[q][i].id /\ queue[q][i].id \in 1..MaxListens
    BY <1>1, <2>1 DEF Tidy, Item
  <2>. QED  BY <1>1, <2>1, <2>2
<1> DEFINE S == {p \in Queues \X (1..MaxListens) :
                    p[2] \in DOMAIN queue[p[1]] /\ queue[p[1]][p[2]].id = id}
<1>4. <<q, i>> \in S
  BY <1>2, <1>3
<1>5. ASSUME NEW p \in S PROVE p = <<q, i>>
  <2>1. PICK r \in Queues, j \in 1..MaxListens : p = <<r, j>>
    OBVIOUS
  <2>2. j \in DOMAIN queue[r] /\ queue[r][j].id = id
    BY <2>1
  <2>3. r = q
    BY <1>1, <2>2 DEF Queued
  <2>4. i \in Nat /\ j \in Nat /\ \A x \in DOMAIN queue[q] : queue[q][x].id \in Nat
    <3>1. \A x \in DOMAIN queue[q] : queue[q][x] \in Item
      BY <1>1
    <3>. QED  BY <1>3, <3>1 DEF Item
  <2>5. ~(i < j) /\ ~(j < i)
    BY <1>1, <1>2, <2>2, <2>3, <2>4 DEF Tidy
  <2>. QED  BY <2>1, <2>3, <2>4, <2>5
<1>6. S = {<<q, i>>}
  BY <1>4, <1>5
<1>. QED  BY <1>3, <1>6

(* A LSTN is good for exactly one call.                                     *)
THEOREM ListensAreConserved == Spec => []ListensConserved
<1>1. ASSUME IInv, NEW id \in DOMAIN listens, conn[listens[id]].state = "open"
      PROVE  Cardinality(Places(id)) = 1
  <2> DEFINE inQueue == {p \in Queues \X (1..MaxListens) :
                            p[2] \in DOMAIN queue[p[1]] /\ queue[p[1]][p[2]].id = id}
             atWorker == {<<"worker", w.line>> : w \in {w \in {worker} : w.item.id = id}}
             done == {<<"served", i>> : i \in served \cap {id}}
  <2>0. /\ Places(id) = inQueue \cup atWorker \cup done
        /\ {"trunk", "global"} = Queues
    BY DEF Places, Queues
  <2>1. /\ id \notin Queued("trunk") \cup Queued("global") => inQueue = {}
    <3>1. ASSUME NEW p \in inQueue PROVE id \in Queued("trunk") \cup Queued("global")
      <4>1. PICK r \in Queues, j \in 1..MaxListens : p = <<r, j>>
        OBVIOUS
      <4>2. id \in Queued(r)
        BY <3>1, <4>1 DEF Queued
      <4>. QED  BY <2>0, <4>2
    <3>. QED  BY <3>1
  <2>2. /\ id = worker.item.id => atWorker = {<<"worker", worker.line>>}
        /\ id # worker.item.id => atWorker = {}
    OBVIOUS
  <2>3. /\ id \in served => done = {<<"served", id>>}
        /\ id \notin served => done = {}
    OBVIOUS
  <2>4. \E x : Places(id) = {x}
    <3>1. CASE id \in Queued("trunk") \cup Queued("global")
      <4>1. PICK q \in Queues : id \in Queued(q)
        BY <2>0, <3>1
      <4>2. id \notin served /\ id # worker.item.id
        BY <1>1, <4>1 DEF IInv, QueuesWell, Apart
      <4>3. PICK x : inQueue = {x}
        BY ZenonT(30), <1>1, <4>1, PlaceInQueue
      <4>4. atWorker = {} /\ done = {}
        BY <2>2, <2>3, <4>2
      <4> HIDE DEF inQueue, atWorker, done
      <4>5. Places(id) = {x}
        BY <2>0, <4>3, <4>4
      <4>. QED  BY <4>5
    <3>2. CASE id \notin Queued("trunk") \cup Queued("global")
      <4>1. inQueue = {} /\ (id \in served \/ id = worker.item.id)
            /\ ~(id \in served /\ id = worker.item.id)
        BY <1>1, <2>1, <3>2 DEF IInv, QueuesWell, Somewhere, Apart
      <4> HIDE DEF inQueue, atWorker, done
      <4>2. CASE id \in served
        <5>1. Places(id) = {<<"served", id>>}
          BY <2>0, <2>2, <2>3, <4>1, <4>2
        <5>. QED  BY <5>1
      <4>3. CASE id = worker.item.id
        <5>1. Places(id) = {<<"worker", worker.line>>}
          BY <2>0, <2>2, <2>3, <4>1, <4>3
        <5>. QED  BY <5>1
      <4>. QED  BY <4>1, <4>2, <4>3
    <3>. QED  BY <3>1, <3>2
  <2>. HIDE DEF inQueue, atWorker, done
  <2>. QED  BY <2>4, FS_Singleton
<1>2. IInv => ListensConserved
  <2> SUFFICES ASSUME IInv PROVE ListensConserved
    OBVIOUS
  <2>1. \A id \in DOMAIN listens : listens[id] \in Clients
    BY DEF IInv, Sound, TypeOK
  <2>2. ASSUME NEW id \in DOMAIN listens, conn[listens[id]].state = "gone", NEW q \in Queues
        PROVE  id \notin Queued(q)
    BY <2>1, <2>2 DEF IInv, QueuesWell, Cleaned
  <2>3. worker.pc = "reject" =>
           worker.seen \cap (Queued("trunk") \cup Queued("global")) = {}
    BY DEF IInv, QueuesWell, Searched
  <2>. QED  BY <1>1, <2>2, <2>3 DEF ListensConserved
<1>. QED  BY <1>2, IInvHolds, PTL
==================================================================================
