------------------------------- MODULE Mail_proofs --------------------------------
(****************************************************************************)
(* Why callers who write and read mail in any order lose none, and why no   *)
(* key leads beyond a mailbox, for any number of callers, numbers, mails    *)
(* and keys.                                                                *)
(****************************************************************************)
EXTENDS Mail, Lists_proofs, SequenceTheorems

Descends(s) == \A i, j \in DOMAIN s : i < j => s[i] > s[j]

(* A mailbox, on disk or in memory: delivered mails for its number, the     *)
(* newest first.                                                            *)
IsBox(s, n) ==
    /\ s \in Seq(Mail) /\ Descends(s)
    /\ \A m \in Range(s) : m \in delivered /\ mails[m].to = n

(* A mail is recorded once; nobody has it before.                           *)
Boxes ==
    /\ \A n \in Numbers : IsBox(files[n], n)
    /\ \A c \in Callers : IsBox(caller[c].messages, caller[c].number)
    /\ delivered \subseteq DOMAIN mails
    /\ \A c \in Callers : caller[c].dialog # 0 =>
          caller[c].dialog \in DOMAIN mails \ delivered
    /\ \A c, d \in Callers :
          c # d /\ caller[c].dialog # 0 => caller[c].dialog # caller[d].dialog

(* While nothing went wrong, a number has one mailbox in memory at most,    *)
(* and what its caller browses is in it.                                    *)
Alone ==
    \A c, d \in Callers : c # d /\ caller[c].phase # "away" /\ caller[d].phase # "away" =>
        caller[c].number # caller[d].number

Inside ==
    \A c \in Callers : caller[c].phase # "away" =>
        \/ caller[c].icurrent = NoIndex
        \/ caller[c].icurrent \in 0..(Len(caller[c].messages) - 1)

(* What callers have read is what is there, mails and recordings.           *)
UpToDate ==
    \A c \in Callers : caller[c].phase # "away" =>
        caller[c].messages = files[caller[c].number]

Fine == MailKept /\ UpToDate /\ Recorded /\ Alone /\ Inside

IInv == Sound /\ Boxes /\ (troubles = {} => Fine)

----------------------------------------------------------------------------
(*                            Descending lists                              *)

LEMMA ListOfMail ==
    ASSUME NEW s \in Seq(Mail)
    PROVE  /\ Len(s) \in Nat /\ DOMAIN s = 1..Len(s)
           /\ Range(s) \subseteq Mail /\ Mail \subseteq Nat
           /\ \A i \in 1..Len(s) : s[i] \in Range(s)
           /\ \A m \in Range(s) : \E i \in 1..Len(s) : m = s[i]
<1>1. Len(s) \in Nat /\ DOMAIN s = 1..Len(s) /\ \A i \in 1..Len(s) : s[i] \in Mail
  OBVIOUS
<1>2. Mail \subseteq Nat
  BY MailAssumption DEF Mail
<1>. QED  BY <1>1, <1>2 DEF Range

(* A descending list begins as every other one with the same mails does ... *)
LEMMA SameBeginning ==
    ASSUME NEW s \in Seq(Mail), NEW t \in Seq(Mail), Descends(s), Descends(t),
           Range(s) = Range(t)
    PROVE  \A k \in 1..Len(s) : k \in 1..Len(t) /\ s[k] = t[k]
<1> DEFINE D == {k \in 1..Len(s) : ~(k \in 1..Len(t) /\ s[k] = t[k])}
<1>1. D \in SUBSET Nat
  OBVIOUS
<1>2. SUFFICES ASSUME D # {} PROVE FALSE
  OBVIOUS
<1>3. PICK k \in D : \A n \in D : k <= n
  <2>. HIDE DEF D
  <2>. QED  BY <1>1, <1>2, LeastNumber
<1>4. k \in 1..Len(s) /\ ~(k \in 1..Len(t) /\ s[k] = t[k])
  OBVIOUS
<1>5. \A j \in 1..Len(s) : j < k => j \in 1..Len(t) /\ s[j] = t[j]
  <2>1. ASSUME NEW j \in 1..Len(s), j < k PROVE j \notin D
    BY <1>3, <2>1, <1>4
  <2>. QED  BY <2>1
<1>. HIDE DEF D
<1>6. PICK j \in 1..Len(t) : s[k] = t[j]
  BY <1>4, ListOfMail
<1>a. /\ \A i, l \in 1..Len(s) : i < l => s[i] > s[l]
      /\ \A i, l \in 1..Len(t) : i < l => t[i] > t[l]
      /\ \A i \in 1..Len(s) : s[i] \in Nat
      /\ \A i \in 1..Len(t) : t[i] \in Nat
      /\ Len(s) \in Nat /\ Len(t) \in Nat
  BY ListOfMail DEF Descends
<1>7. k <= j /\ k \in 1..Len(t)
  BY <1>4, <1>5, <1>6, <1>a
<1>8. PICK i \in 1..Len(s) : t[k] = s[i]
  BY <1>7, ListOfMail
<1>9. k <= i
  BY <1>4, <1>5, <1>7, <1>8, <1>a
<1>10. t[k] >= s[k]
  BY <1>6, <1>7, <1>a
<1>11. s[k] >= t[k]
  BY <1>4, <1>8, <1>9, <1>a
<1>12. s[k] \in Nat /\ t[k] \in Nat
  BY <1>4, <1>7, <1>a
<1>. QED  BY <1>4, <1>7, <1>10, <1>11, <1>12

(* ... and is the same list.                                                *)
LEMMA OneOrder ==
    ASSUME NEW s \in Seq(Mail), NEW t \in Seq(Mail), Descends(s), Descends(t),
           Range(s) = Range(t)
    PROVE  s = t
<1>1. \A k \in 1..Len(s) : k \in 1..Len(t) /\ s[k] = t[k]
  BY SameBeginning
<1>2. \A k \in 1..Len(t) : k \in 1..Len(s)
  BY SameBeginning
<1>3. Len(s) \in Nat /\ Len(t) \in Nat
  OBVIOUS
<1>4. Len(s) = Len(t)
  <2>1. CASE Len(s) < Len(t)
    <3>1. Len(t) \in 1..Len(t)
      BY <1>3, <2>1
    <3>. QED  BY <3>1, <1>2, <1>3, <2>1
  <2>2. CASE Len(t) < Len(s)
    <3>1. Len(s) \in 1..Len(s)
      BY <1>3, <2>2
    <3>. QED  BY <3>1, <1>1, <1>3, <2>2
  <2>. QED  BY <1>3, <2>1, <2>2
<1>. QED  BY <1>1, <1>4, SeqEqual

(* No mailbox has more mails than there are.                                *)
LEMMA BoxLength ==
    ASSUME NEW s \in Seq(Mail), Descends(s)
    PROVE  Len(s) <= MaxMails
<1> DEFINE T == {k \in Nat : k + 1 <= Len(s) => s[k + 1] <= MaxMails - k}
<1>0. MaxMails \in Nat /\ Len(s) \in Nat
  BY MailAssumption
<1>a. \A i \in 1..Len(s) : s[i] \in Nat /\ 1 <= s[i] /\ s[i] <= MaxMails
  <2>1. \A i \in 1..Len(s) : s[i] \in Mail
    OBVIOUS
  <2>. QED  BY <2>1, <1>0 DEF Mail
<1>b. \A i, l \in 1..Len(s) : i < l => s[i] > s[l]
  BY ListOfMail DEF Descends
<1>1. T \in SUBSET Nat
  OBVIOUS
<1>2. 0 \in T
  <2>1. 1 <= Len(s) => s[1] <= MaxMails
    BY <1>a, <1>0
  <2>. QED  BY <2>1, <1>0
<1>3. ASSUME NEW n \in Nat, n \in T PROVE n + 1 \in T
  <2>1. SUFFICES ASSUME n + 2 <= Len(s) PROVE s[n + 2] <= MaxMails - (n + 1)
    <3>1. (n + 1) + 1 = n + 2 /\ n + 1 \in Nat
      OBVIOUS
    <3>. QED  BY <3>1
  <2>2. n + 1 \in 1..Len(s) /\ n + 2 \in 1..Len(s) /\ n + 1 < n + 2
    BY <2>1, <1>0
  <2>3. s[n + 1] > s[n + 2] /\ s[n + 1] \in Nat /\ s[n + 2] \in Nat
    BY <2>2, <1>a, <1>b
  <2>4. s[n + 1] <= MaxMails - n
    BY <1>3, <2>2
  <2>. QED  BY <2>3, <2>4, <1>0
<1>4. T = Nat
  <2>. HIDE DEF T
  <2>. QED  BY <1>1, <1>2, <1>3, NumberInduction
<1>5. CASE Len(s) = 0
  BY <1>5, <1>0
<1>6. CASE Len(s) # 0
  <2>1. Len(s) - 1 \in T
    <3>. HIDE DEF T
    <3>. QED  BY <1>4, <1>6, <1>0
  <2>2. (Len(s) - 1) + 1 = Len(s) /\ Len(s) \in 1..Len(s)
    BY <1>6, <1>0
  <2>3. s[Len(s)] <= MaxMails - (Len(s) - 1)
    BY <2>1, <2>2
  <2>. QED  BY <2>2, <2>3, <1>a, <1>0
<1>. QED  BY <1>5, <1>6

(* Sorted() makes a descending list of the mails it gets.                   *)
LEMMA SortedBox ==
    ASSUME NEW S \in SUBSET Mail
    PROVE  Sorted(S) \in Seq(Mail) /\ Descends(Sorted(S)) /\ Range(Sorted(S)) = S
<1> DEFINE d == [i \in Mail |-> MaxMails + 1 - i]
           t == Only(d, S)
<1>0. MaxMails \in Nat
  BY MailAssumption
<1>1. d \in Seq(Mail) /\ Len(d) = MaxMails
  <2>1. \A i \in 1..MaxMails : MaxMails + 1 - i \in 1..MaxMails
    BY <1>0
  <2>. QED  BY <2>1, <1>0 DEF Mail
<1>2. \A i \in 1..MaxMails : d[i] = MaxMails + 1 - i
  BY DEF Mail
<1>3. Sorted(S) = t
  BY DEF Sorted
<1>. HIDE DEF d
<1>4. t \in Seq(Mail) /\ \E f : Selects(t, d, Len(d), S, f)
  BY <1>1, OnlySelects
<1>. HIDE DEF t
<1>5. PICK f : Selects(t, d, MaxMails, S, f)
  BY <1>1, <1>4
<1>6. /\ Len(t) \in Nat /\ DOMAIN t = 1..Len(t)
      /\ \A k \in 1..Len(t) : /\ f[k] \in 1..MaxMails
                              /\ t[k] = MaxMails + 1 - f[k] /\ t[k] \in S
  <2>1. Len(t) \in Nat /\ DOMAIN t = 1..Len(t)
    BY <1>4
  <2>2. \A k \in 1..Len(t) : f[k] \in 1..MaxMails
    BY <1>5 DEF Selects
  <2>3. \A k \in 1..Len(t) : t[k] = d[f[k]] /\ d[f[k]] \in S
    BY <1>5 DEF Selects
  <2>. QED  BY <2>1, <2>2, <2>3, <1>2
<1>7. Descends(t)
  <2>1. \A k, l \in 1..Len(t) : k < l => f[k] < f[l]
    BY <1>5 DEF Selects
  <2>2. \A k, l \in 1..Len(t) : k < l => t[k] > t[l]
    BY SMTT(30), <2>1, <1>6, <1>0
  <2>. QED  BY <2>2, <1>6 DEF Descends
<1>8. S \subseteq Range(t)
  <2>1. ASSUME NEW m \in S PROVE m \in Range(t)
    <3>1. m \in 1..MaxMails
      BY DEF Mail
    <3>2. MaxMails + 1 - m \in 1..MaxMails /\ MaxMails + 1 - (MaxMails + 1 - m) = m
      BY <3>1, <1>0
    <3>3. d[MaxMails + 1 - m] = m
      BY <3>2, <1>2
    <3>4. PICK k \in 1..Len(t) : f[k] = MaxMails + 1 - m
      BY <3>2, <3>3, <1>5 DEF Selects
    <3>5. t[k] = m
      BY <3>2, <3>4, <1>6
    <3>. QED  BY <3>5, <1>6 DEF Range
  <2>. QED  BY <2>1
<1>9. Range(t) \subseteq S
  BY <1>6 DEF Range
<1>. QED  BY <1>3, <1>4, <1>7, <1>8, <1>9

(* What was read is what is there.                                          *)
LEMMA SortedAgain ==
    ASSUME NEW s \in Seq(Mail), Descends(s)
    PROVE  Sorted(Range(s)) = s
<1>1. Range(s) \subseteq Mail
  BY ListOfMail
<1>. QED  BY <1>1, SortedBox, OneOrder

----------------------------------------------------------------------------
(*                     What is left of a mailbox                            *)

(* All but the places between a and b.                                      *)
Cut(s, a, b) == SubSeq(s, 1, a) \o SubSeq(s, b, Len(s))

Leaves(t, s, a, b) ==
    /\ t \in Seq(Mail) /\ Descends(t)
    /\ \A m \in Range(t) : \E j \in 1..Len(s) : (j <= a \/ b <= j) /\ m = s[j]
    /\ \A j \in 1..Len(s) : j <= a \/ b <= j => s[j] \in Range(t)

LEMMA CutProperties ==
    ASSUME NEW s \in Seq(Mail), Descends(s), NEW a \in Int, NEW b \in Int,
           a < b, 1 <= b, a <= Len(s)
    PROVE  /\ Leaves(Cut(s, a, b), s, a, b)
           /\ Len(Cut(s, a, b)) = (IF 1 <= a THEN a ELSE 0)
                                  + (IF b <= Len(s) THEN Len(s) - b + 1 ELSE 0)
<1> DEFINE x == SubSeq(s, 1, a)
           y == SubSeq(s, b, Len(s))
           t == x \o y
           n == IF 1 <= a THEN a ELSE 0
           r == IF b <= Len(s) THEN Len(s) - b + 1 ELSE 0
           f(k) == IF k <= n THEN k ELSE k - n + b - 1
<1>0. /\ Len(s) \in Nat /\ DOMAIN s = 1..Len(s)
      /\ \A i \in 1..Len(s) : s[i] \in Mail
  OBVIOUS
<1>1. x \in Seq(Mail) /\ Len(x) = n /\ \A i \in 1..n : x[i] = s[i]
  <2>1. \A i \in 1..a : s[i] \in Mail
    BY <1>0
  <2>2. /\ x \in Seq(Mail)
        /\ Len(x) = IF 1 <= a THEN a - 1 + 1 ELSE 0
        /\ \A i \in 1..(a - 1 + 1) : x[i] = s[1 + i - 1]
    BY <2>1, SubSeqProperties
  <2>3. a - 1 + 1 = a /\ \A i \in 1..n : 1 + i - 1 = i /\ i \in 1..a
    OBVIOUS
  <2>. HIDE DEF x
  <2>. QED  BY <2>2, <2>3
<1>2. y \in Seq(Mail) /\ Len(y) = r /\ \A i \in 1..r : y[i] = s[b + i - 1]
  <2>1. \A i \in b..Len(s) : s[i] \in Mail
    BY <1>0
  <2>2. /\ y \in Seq(Mail)
        /\ Len(y) = IF b <= Len(s) THEN Len(s) - b + 1 ELSE 0
        /\ \A i \in 1..(Len(s) - b + 1) : y[i] = s[b + i - 1]
    BY <2>1, <1>0, SubSeqProperties
  <2>3. \A i \in 1..r : i \in 1..(Len(s) - b + 1)
    OBVIOUS
  <2>. HIDE DEF y
  <2>. QED  BY <2>2, <2>3
<1>3. n \in Nat /\ r \in Nat /\ n <= Len(s) /\ (r # 0 => b + r - 1 = Len(s))
  BY <1>0
<1>4. t \in Seq(Mail) /\ Len(t) = n + r /\ DOMAIN t = 1..(n + r)
  <2>. HIDE DEF x, y
  <2>1. t \in Seq(Mail) /\ Len(t) = Len(x) + Len(y)
    BY <1>1, <1>2, ConcatProperties
  <2>. HIDE DEF t, n, r
  <2>. QED  BY <2>1, <1>1, <1>2
<1>5. \A k \in 1..(n + r) : t[k] = s[f(k)] /\ f(k) \in 1..Len(s)
                            /\ (f(k) <= a \/ b <= f(k))
  <2>. HIDE DEF x, y
  <2>1. \A k \in 1..(Len(x) + Len(y)) :
            t[k] = IF k <= Len(x) THEN x[k] ELSE y[k - Len(x)]
    BY <1>1, <1>2, ConcatProperties
  <2>. HIDE DEF t
  <2>2. ASSUME NEW k \in 1..(n + r), k <= n
        PROVE  t[k] = s[k] /\ k \in 1..Len(s) /\ k <= a
    <3>1. k \in 1..n
      BY <2>2, <1>3
    <3>2. t[k] = x[k]
      BY <2>1, <2>2, <1>1, <1>2
    <3>. QED  BY <3>1, <3>2, <1>1, <1>3
  <2>3. ASSUME NEW k \in 1..(n + r), ~(k <= n)
        PROVE  t[k] = s[k - n + b - 1] /\ k - n + b - 1 \in 1..Len(s)
               /\ b <= k - n + b - 1
    <3>. HIDE DEF n, r
    <3>1. k - n \in 1..r /\ r # 0 /\ b + (k - n) - 1 = k - n + b - 1
      BY <2>3, <1>3
    <3>2. t[k] = y[k - n]
      BY <2>1, <2>3, <1>1, <1>2
    <3>3. y[k - n] = s[k - n + b - 1]
      BY <3>1, <1>2
    <3>4. k - n + b - 1 \in 1..Len(s) /\ b <= k - n + b - 1
      BY <3>1, <1>3, <1>0
    <3>. QED  BY <3>2, <3>3, <3>4
  <2>. HIDE DEF n, r
  <2>. QED  BY <2>2, <2>3
<1>6. \A k, l \in 1..(n + r) : k < l => f(k) < f(l)
  BY <1>3
<1>7. ASSUME NEW j \in 1..Len(s), j <= a \/ b <= j
      PROVE  \E k \in 1..(n + r) : f(k) = j
  <2>0. (j <= a => n = a) /\ (b <= j => r = Len(s) - b + 1)
    BY <1>0
  <2>. HIDE DEF n, r
  <2>1. CASE j <= a
    <3>1. j \in 1..(n + r) /\ j <= n
      BY <2>0, <2>1, <1>3
    <3>. QED  BY <3>1
  <2>2. CASE b <= j
    <3>1. j - b + 1 + n \in 1..(n + r) /\ ~(j - b + 1 + n <= n)
      BY <2>0, <2>2, <1>3, <1>0
    <3>2. f(j - b + 1 + n) = j
      BY <3>1, <1>3
    <3>. QED  BY <3>1, <3>2
  <2>. QED  BY <1>7, <2>1, <2>2
<1>. HIDE DEF t, f, n, r
<1>8. Descends(t)
  <2>1. \A i, j \in 1..Len(s) : i < j => s[i] > s[j]
    BY <1>0 DEF Descends
  <2>2. \A k, l \in 1..(n + r) : k < l => t[k] > t[l]
    BY <2>1, <1>5, <1>6
  <2>. QED  BY <2>2, <1>4 DEF Descends
<1>9. /\ \A m \in Range(t) :
             \E j \in 1..Len(s) : (j <= a \/ b <= j) /\ m = s[j]
      /\ \A j \in 1..Len(s) : j <= a \/ b <= j => s[j] \in Range(t)
  <2>1. Range(t) = {t[k] : k \in 1..(n + r)}
    BY <1>4 DEF Range
  <2>. QED  BY <2>1, <1>5, <1>7
<1>10. Cut(s, a, b) = t
  BY DEF Cut, t
<1>11. Leaves(t, s, a, b)
  BY <1>4, <1>8, <1>9 DEF Leaves
<1>. QED  BY <1>4, <1>10, <1>11 DEF n, r

(* One mail is taken out.                                                   *)
LEMMA WithoutOne ==
    ASSUME NEW s \in Seq(Mail), Descends(s), NEW i \in Int, IsIndex(s, i)
    PROVE  /\ Place(s, i) \in 1..Len(s) /\ At(s, i) \in Range(s)
           /\ Without(s, i) \in Seq(Mail) /\ Descends(Without(s, i))
           /\ Range(Without(s, i)) = Range(s) \ {At(s, i)}
           /\ Len(Without(s, i)) = Len(s) - 1
<1> DEFINE p == Place(s, i)
<1>0. Len(s) \in Nat /\ DOMAIN s = 1..Len(s)
  OBVIOUS
<1>1. p \in 1..Len(s)
  BY <1>0 DEF Place, IsIndex
<1>2. Without(s, i) = Cut(s, p - 1, p + 1)
  BY DEF Without, RemoveAt, Cut
<1>3. At(s, i) = s[p]
  BY DEF At
<1>. HIDE DEF p
<1>4. Leaves(Cut(s, p - 1, p + 1), s, p - 1, p + 1)
  <2>1. /\ p - 1 \in Int /\ p + 1 \in Int
        /\ p - 1 < p + 1 /\ 1 <= p + 1 /\ p - 1 <= Len(s)
    BY <1>0, <1>1
  <2>. QED  BY <2>1, CutProperties
<1>5. \A k \in 1..Len(s) : k # p => s[k] # s[p]
  <2>1. \A k, l \in 1..Len(s) : k < l => s[k] > s[l]
    BY <1>0 DEF Descends
  <2>2. \A k \in 1..Len(s) : s[k] \in Nat
    BY ListOfMail
  <2>. QED  BY <1>1, <2>1, <2>2
<1>6. Range(s) = {s[k] : k \in 1..Len(s)}
  BY <1>0 DEF Range
<1>7. \A j \in 1..Len(s) : (j <= p - 1 \/ p + 1 <= j) <=> j # p
  BY <1>1
<1>8. Range(Cut(s, p - 1, p + 1)) = Range(s) \ {s[p]}
  BY <1>4, <1>5, <1>6, <1>7 DEF Leaves
<1>9. Len(Cut(s, p - 1, p + 1)) = Len(s) - 1
  <2>1. p \in Nat /\ Len(s) \in Nat /\ 1 <= p /\ p <= Len(s)
    BY <1>0, <1>1
  <2>2. Len(Cut(s, p - 1, p + 1)) =
            (IF 1 <= p - 1 THEN p - 1 ELSE 0)
            + (IF p + 1 <= Len(s) THEN Len(s) - (p + 1) + 1 ELSE 0)
    <3>1. /\ p - 1 \in Int /\ p + 1 \in Int
          /\ p - 1 < p + 1 /\ 1 <= p + 1 /\ p - 1 <= Len(s)
      BY <2>1
    <3>. QED  BY <3>1, CutProperties
  <2>3. (IF 1 <= p - 1 THEN p - 1 ELSE 0) = p - 1
    BY <2>1
  <2>4. (IF p + 1 <= Len(s) THEN Len(s) - (p + 1) + 1 ELSE 0) = Len(s) - p
    BY <2>1
  <2>5. (p - 1) + (Len(s) - p) = Len(s) - 1
    BY <2>1
  <2>. QED  BY <2>2, <2>3, <2>4, <2>5
<1>. QED  BY <1>1, <1>2, <1>3, <1>4, <1>6, <1>8, <1>9 DEF p, Leaves

(* play_current makes one cut, and none when all recordings are there.      *)
LEMMA AfterIsCut ==
    ASSUME NEW s \in Seq(Mail), NEW i \in Int, IsIndex(s, i), NEW k \in 0..Len(s)
    PROVE  \E a, b \in Int : /\ a < b /\ 1 <= b /\ a <= Len(s)
                             /\ After(s, i, k) = Cut(s, a, b)
<1> DEFINE p == Place(s, i)
<1>0. Len(s) \in Nat /\ k \in Nat
  OBVIOUS
<1>1. p \in Nat /\ 1 <= p /\ p <= Len(s)
  BY <1>0 DEF Place, IsIndex
<1>2. After(s, i, k) = IF i >= 0 THEN Cut(s, p - 1, p + k) ELSE Cut(s, p - k, p + 1)
  BY DEF After, Cut
<1>. HIDE DEF p
<1>3. CASE i >= 0
  <2>1. /\ p - 1 \in Int /\ p + k \in Int
        /\ p - 1 < p + k /\ 1 <= p + k /\ p - 1 <= Len(s)
    BY <1>0, <1>1
  <2>. QED  BY <1>2, <1>3, <2>1
<1>4. CASE ~(i >= 0)
  <2>1. /\ p - k \in Int /\ p + 1 \in Int
        /\ p - k < p + 1 /\ 1 <= p + 1 /\ p - k <= Len(s)
    BY <1>0, <1>1
  <2>. QED  BY <1>2, <1>4, <2>1
<1>. QED  BY <1>3, <1>4

(* After as many deletions as there are mails there is no current mail.     *)
LEMMA AfterAll ==
    ASSUME NEW s \in Seq(Mail), Descends(s), NEW i \in Int, IsIndex(s, i)
    PROVE  ~IsIndex(After(s, i, Len(s)), i)
<1> DEFINE p == Place(s, i)
<1>0. Len(s) \in Nat
  OBVIOUS
<1>1. /\ p \in Nat /\ 1 <= p /\ p <= Len(s)
      /\ i >= 0 => p = i + 1
      /\ ~(i >= 0) => p = Len(s) + i + 1
  BY <1>0 DEF Place, IsIndex
<1>2. After(s, i, Len(s)) = IF i >= 0 THEN Cut(s, p - 1, p + Len(s))
                            ELSE Cut(s, p - Len(s), p + 1)
  BY DEF After, Cut
<1>. HIDE DEF p
<1>3. CASE i >= 0
  <2>1. Len(Cut(s, p - 1, p + Len(s))) =
            (IF 1 <= p - 1 THEN p - 1 ELSE 0)
            + (IF p + Len(s) <= Len(s) THEN Len(s) - (p + Len(s)) + 1 ELSE 0)
    <3>1. /\ p - 1 \in Int /\ p + Len(s) \in Int
          /\ p - 1 < p + Len(s) /\ 1 <= p + Len(s) /\ p - 1 <= Len(s)
      BY <1>0, <1>1
    <3>. QED  BY <3>1, CutProperties
  <2>2. (IF 1 <= p - 1 THEN p - 1 ELSE 0) = i
    BY <1>1, <1>3
  <2>3. ~(p + Len(s) <= Len(s))
    BY <1>0, <1>1
  <2>4. Len(Cut(s, p - 1, p + Len(s))) = i + 0
    BY <2>1, <2>2, <2>3
  <2>. QED  BY <1>2, <1>3, <2>4 DEF IsIndex
<1>4. CASE ~(i >= 0)
  <2>1. Len(Cut(s, p - Len(s), p + 1)) =
            (IF 1 <= p - Len(s) THEN p - Len(s) ELSE 0)
            + (IF p + 1 <= Len(s) THEN Len(s) - (p + 1) + 1 ELSE 0)
    <3>1. /\ p - Len(s) \in Int /\ p + 1 \in Int
          /\ p - Len(s) < p + 1 /\ 1 <= p + 1 /\ p - Len(s) <= Len(s)
      BY <1>0, <1>1
    <3>. QED  BY <3>1, CutProperties
  <2>2. ~(1 <= p - Len(s))
    BY <1>0, <1>1
  <2>3. (IF p + 1 <= Len(s) THEN Len(s) - (p + 1) + 1 ELSE 0) = -i - 1
    <3>1. CASE p + 1 <= Len(s)
      <4>1. Len(s) - (p + 1) + 1 = -i - 1
        BY <1>0, <1>1, <1>4
      <4>. QED  BY <3>1, <4>1
    <3>2. CASE ~(p + 1 <= Len(s))
      <4>1. 0 = -i - 1
        BY <1>0, <1>1, <1>4, <3>2
      <4>. QED  BY <3>2, <4>1
    <3>. QED  BY <3>1, <3>2
  <2>4. Len(Cut(s, p - Len(s), p + 1)) = 0 + (-i - 1)
    BY <2>1, <2>2, <2>3
  <2>5. ~(-(0 + (-i - 1)) <= i)
    BY <1>4
  <2>. QED  BY <1>2, <1>4, <2>4, <2>5 DEF IsIndex
<1>. QED  BY <1>3, <1>4

LEMMA AfterNone ==
    ASSUME NEW s \in Seq(Mail), NEW i \in Int, IsIndex(s, i)
    PROVE  After(s, i, 0) = s
<1> DEFINE p == Place(s, i)
<1>0. Len(s) \in Nat
  OBVIOUS
<1>1. p \in Nat /\ 1 <= p /\ p <= Len(s)
  BY <1>0 DEF Place, IsIndex
<1>2. After(s, i, 0) =
          IF i >= 0 THEN SubSeq(s, 1, p - 1) \o SubSeq(s, p + 0, Len(s))
          ELSE SubSeq(s, 1, p - 0) \o SubSeq(s, p + 1, Len(s))
  BY DEF After
<1>. HIDE DEF p
<1>3. \A k \in 0..Len(s) : SubSeq(s, 1, k) \o SubSeq(s, k + 1, Len(s)) = s
  <2>1. ASSUME NEW k \in 0..Len(s)
        PROVE  SubSeq(s, 1, k) \o SubSeq(s, k + 1, Len(s)) = SubSeq(s, 1, Len(s))
    <3>1. 1 \in 1..Len(s) + 1 /\ k \in 1 - 1..Len(s) /\ Len(s) \in k..Len(s)
      BY <1>0
    <3>. QED  BY <3>1, ConcatAdjacentSubSeq
  <2>. QED  BY <2>1, SubSeqFull
<1>4. p - 1 \in 0..Len(s) /\ (p - 1) + 1 = p /\ p \in 0..Len(s)
  BY <1>0, <1>1
<1>5. p - 0 = p /\ p + 0 = p
  BY <1>1
<1>6. SubSeq(s, 1, p - 1) \o SubSeq(s, (p - 1) + 1, Len(s)) = s
  BY <1>3, <1>4
<1>7. SubSeq(s, 1, p) \o SubSeq(s, p + 1, Len(s)) = s
  BY <1>3, <1>4
<1>8. CASE i >= 0
  BY <1>2, <1>4, <1>5, <1>6, <1>8
<1>9. CASE ~(i >= 0)
  BY <1>2, <1>5, <1>7, <1>9
<1>. QED  BY <1>8, <1>9

Stops(s, i, k) == \/ ~IsIndex(After(s, i, k), i)
                  \/ At(After(s, i, k), i) \in wavs

LEMMA ExistingStops ==
    ASSUME NEW s \in Seq(Mail), Descends(s), NEW i \in Int, IsIndex(s, i)
    PROVE  \E k \in 0..Len(s) : /\ Existing(s, i) = After(s, i, k)
                                /\ \A j \in 0..(k - 1) : ~Stops(s, i, j)
<1> DEFINE D == {k \in 0..Len(s) : Stops(s, i, k)}
           Right(k) == /\ \A j \in 0..(k - 1) :
                             /\ IsIndex(After(s, i, j), i)
                             /\ At(After(s, i, j), i) \notin wavs
                       /\ \/ ~IsIndex(After(s, i, k), i)
                          \/ At(After(s, i, k), i) \in wavs
<1>1. D \in SUBSET Nat /\ Len(s) \in D
  <2>1. Len(s) \in 0..Len(s)
    OBVIOUS
  <2>2. Stops(s, i, Len(s))
    BY AfterAll DEF Stops
  <2>. QED  BY <2>1, <2>2
<1>2. PICK k \in D : \A n \in D : k <= n
  <2>. HIDE DEF D
  <2>. QED  BY <1>1, LeastNumber
<1>3. k \in 0..Len(s) /\ Stops(s, i, k)
  OBVIOUS
<1>4. \A j \in 0..(k - 1) : ~Stops(s, i, j)
  <2>1. \A j \in 0..(k - 1) : j \in 0..Len(s) /\ ~(k <= j)
    BY <1>3
  <2>. QED  BY <1>2, <2>1
<1>. HIDE DEF D
<1>5. Right(k)
  BY <1>3, <1>4 DEF Stops
<1> DEFINE m == CHOOSE n \in 0..Len(s) : Right(n)
<1>6. m \in 0..Len(s) /\ Right(m)
  <2>. HIDE DEF Right
  <2>. QED  BY <1>3, <1>5
<1>7. Existing(s, i) = After(s, i, m)
  BY DEF Existing
<1>. HIDE DEF m
<1>. QED  BY <1>6, <1>7 DEF Stops

(* What is left is a mailbox again.                                         *)
LEMMA ExistingBox ==
    ASSUME NEW s \in Seq(Mail), Descends(s), NEW i \in Int, IsIndex(s, i)
    PROVE  /\ Existing(s, i) \in Seq(Mail) /\ Descends(Existing(s, i))
           /\ Range(Existing(s, i)) \subseteq Range(s)
<1>1. PICK k \in 0..Len(s) : Existing(s, i) = After(s, i, k)
  BY ExistingStops
<1>2. PICK a \in Int, b \in Int : /\ a < b /\ 1 <= b /\ a <= Len(s)
                                  /\ Existing(s, i) = Cut(s, a, b)
  BY <1>1, AfterIsCut
<1>3. Leaves(Cut(s, a, b), s, a, b)
  BY <1>2, CutProperties
<1>. QED  BY SMTT(30), <1>2, <1>3, ListOfMail DEF Leaves

LEMMA ExistingAll ==
    ASSUME NEW s \in Seq(Mail), Descends(s), NEW i \in Int, IsIndex(s, i),
           Range(s) \subseteq wavs
    PROVE  Existing(s, i) = s
<1>1. PICK k \in 0..Len(s) : /\ Existing(s, i) = After(s, i, k)
                             /\ \A j \in 0..(k - 1) : ~Stops(s, i, j)
  BY ExistingStops
<1>2. After(s, i, 0) = s
  BY AfterNone
<1>3. Stops(s, i, 0)
  BY <1>2, WithoutOne DEF Stops
<1>4. k = 0
  BY <1>1, <1>3
<1>. QED  BY <1>1, <1>2, <1>4

(* A mailbox that has all the mails of another one is as long.              *)
LEMMA LongerBox ==
    ASSUME NEW s \in Seq(Mail), NEW t \in Seq(Mail), Descends(s), Descends(t),
           Range(s) \subseteq Range(t)
    PROVE  Len(s) <= Len(t)
<1> DEFINE D == {k \in 1..Len(s) : ~(k \in 1..Len(t) /\ t[k] >= s[k])}
<1>a. /\ \A i, l \in 1..Len(s) : i < l => s[i] > s[l]
      /\ \A i, l \in 1..Len(t) : i < l => t[i] > t[l]
      /\ \A i \in 1..Len(s) : s[i] \in Nat
      /\ \A i \in 1..Len(t) : t[i] \in Nat
      /\ Len(s) \in Nat /\ Len(t) \in Nat
  BY ListOfMail DEF Descends
<1>b. \A k \in 1..Len(s) : \E j \in 1..Len(t) : s[k] = t[j]
  BY ListOfMail
<1>1. D = {}
  <2>1. SUFFICES ASSUME D # {} PROVE FALSE
    OBVIOUS
  <2>2. D \in SUBSET Nat
    OBVIOUS
  <2>3. PICK k \in D : \A n \in D : k <= n
    <3>. HIDE DEF D
    <3>. QED  BY <2>1, <2>2, LeastNumber
  <2>4. k \in 1..Len(s) /\ ~(k \in 1..Len(t) /\ t[k] >= s[k])
    OBVIOUS
  <2>5. PICK j \in 1..Len(t) : s[k] = t[j]
    BY <2>4, <1>b
  <2>6. k <= j
    <3>1. CASE k = 1
      BY <3>1
    <3>2. CASE k # 1
      <4>1. k - 1 \in 1..Len(s) /\ k - 1 < k /\ ~(k <= k - 1)
        BY <2>4, <3>2, <1>a
      <4>2. k - 1 \notin D
        <5>. HIDE DEF D
        <5>. QED  BY <2>3, <4>1
      <4>3. k - 1 \in 1..Len(t) /\ t[k - 1] >= s[k - 1]
        BY <4>1, <4>2
      <4>4. s[k - 1] > t[j]
        BY <4>1, <2>4, <2>5, <1>a
      <4>5. ~(j <= k - 1)
        <5>1. t[k - 1] \in Nat /\ s[k - 1] \in Nat /\ t[j] \in Nat
          BY <4>1, <4>3, <1>a
        <5>2. t[k - 1] > t[j]
          BY <4>3, <4>4, <5>1
        <5>3. j < k - 1 => t[j] > t[k - 1]
          BY <4>3, <1>a
        <5>4. j = k - 1 => t[j] = t[k - 1]
          OBVIOUS
        <5>. QED  BY <5>1, <5>2, <5>3, <5>4, <4>3
      <4>. QED  BY <4>5, <2>4
    <3>. QED  BY <3>1, <3>2
  <2>7. k \in 1..Len(t) /\ (k < j => t[k] > t[j])
    BY <2>4, <2>6, <1>a
  <2>8. t[k] >= s[k]
    BY <2>5, <2>6, <2>7, <1>a
  <2>. QED  BY <2>4, <2>7, <2>8
<1>2. CASE Len(s) = 0
  BY <1>2, <1>a
<1>3. CASE Len(s) # 0
  <2>1. Len(s) \in 1..Len(s) /\ Len(s) \notin D
    <3>. HIDE DEF D
    <3>. QED  BY <1>1, <1>3, <1>a
  <2>2. Len(s) \in 1..Len(t)
    BY <2>1
  <2>. QED  BY <2>2, <1>a
<1>. QED  BY <1>2, <1>3

----------------------------------------------------------------------------
(*                              The steps                                   *)

(* An index of a mailbox is none of the values that stand for None.         *)
LEMMA BoxType ==
    ASSUME IInv, NEW c \in Callers
    PROVE  /\ caller[c] \in CallerType
           /\ caller[c].messages \in Seq(Mail) /\ Descends(caller[c].messages)
           /\ Range(caller[c].messages) \subseteq delivered
           /\ Len(caller[c].messages) \in 0..MaxMails
           /\ MaxMails \in Nat
<1>1. IsBox(caller[c].messages, caller[c].number)
  BY DEF IInv, Boxes
<1>2. caller[c].messages \in Seq(Mail) /\ Descends(caller[c].messages)
      /\ Range(caller[c].messages) \subseteq delivered
  BY <1>1 DEF IsBox
<1>3. Len(caller[c].messages) <= MaxMails
  BY <1>2, BoxLength
<1>4. MaxMails \in Nat /\ Len(caller[c].messages) \in Nat
  BY <1>2, MailAssumption
<1>. QED  BY <1>2, <1>3, <1>4 DEF IInv, Sound, TypeOK

LEMMA MailsType ==
    ASSUME IInv
    PROVE  \A k \in DOMAIN mails : mails[k].from \in Numbers /\ mails[k].to \in Numbers
<1>1. PICK R : R = [from : Numbers, to : Numbers]
  OBVIOUS
<1>2. mails \in Seq(R)
  BY <1>1 DEF IInv, Sound, TypeOK
<1>3. \A k \in DOMAIN mails : mails[k] \in R
  BY <1>2
<1>. QED  BY <1>1, <1>3

LEMMA InitIInv == Init => IInv
<1> SUFFICES ASSUME Init PROVE IInv
  OBVIOUS
<1>0. MaxMails \in Nat /\ MaxCalls \in Nat /\ MaxKeys \in Nat
  BY MailAssumption
<1>1. PICK n \in Numbers :
          caller = [c \in Callers |->
              [phase |-> "away", number |-> n, messages |-> << >>,
               icurrent |-> NoIndex, dialog |-> 0]]
  BY DEF Init
<1>2. \A c \in Callers : /\ caller[c].phase = "away" /\ caller[c].number = n
                         /\ caller[c].messages = << >> /\ caller[c].dialog = 0
  BY <1>1
<1>3. TypeOK
  <2>1. [phase |-> "away", number |-> n, messages |-> << >>,
         icurrent |-> NoIndex, dialog |-> 0] \in CallerType
    BY <1>0 DEF CallerType, NoIndex
  <2>2. caller \in [Callers -> CallerType]
    BY <1>1, <2>1
  <2>3. counts \in [calls : 0..MaxCalls, keys : 0..MaxKeys]
    BY <1>0 DEF Init
  <2>4. files \in [Numbers -> Seq(Mail)]
    BY DEF Init
  <2>5. mails \in Seq([from : Numbers, to : Numbers]) /\ Len(mails) <= MaxMails
    BY <1>0 DEF Init
  <2>. QED  BY <1>2, <2>2, <2>3, <2>4, <2>5 DEF TypeOK, Init
<1>4. Range(<< >>) = {} /\ \A k \in Numbers : IsBox(<< >>, k)
  BY DEF IsBox, Descends, Range
<1>5. Boxes
  BY <1>2, <1>4 DEF Init, Boxes
<1>6. Fine
  <2>1. UNION {Range(files[k]) : k \in Numbers} = {}
    BY <1>4 DEF Init
  <2>. QED  BY <1>2, <2>1 DEF Fine, MailKept, UpToDate, Recorded, InBoxes, Alone, Inside, Init
<1>. QED  BY <1>3, <1>5, <1>6 DEF IInv, Sound, Init

LEMMA StutterIInv ==
    ASSUME IInv, UNCHANGED vars
    PROVE  IInv'
BY DEF vars, IInv, Sound, TypeOK, CallerType, Boxes, IsBox, Descends, Fine,
       MailKept, UpToDate, Recorded, InBoxes, Alone, Inside

(* The number is read: what is read is what is there.                       *)
LEMMA LSTNIInv ==
    ASSUME IInv, NEW c \in Callers, LSTN(c)
    PROVE  IInv'
<1>1. PICK n \in Numbers :
        /\ caller' = [caller EXCEPT ![c] =
               [phase |-> "calling", number |-> n, messages |-> Reads(n),
                icurrent |-> NoIndex, dialog |-> 0]]
        /\ Troubled(TroubleIf(Arrived(n) # {}, "twins"))
  BY DEF LSTN
<1>2. /\ UNCHANGED <<files, wavs, mails, delivered, deleted, error>>
      /\ counts.calls < MaxCalls /\ counts' = [counts EXCEPT !.calls = @ + 1]
  BY DEF LSTN
<1>3. IsBox(files[n], n) /\ Reads(n) = files[n]
  <2>1. IsBox(files[n], n)
    BY DEF IInv, Boxes
  <2>. QED  BY <2>1, SortedAgain DEF IsBox, Reads
<1>4. /\ caller'[c] = [phase |-> "calling", number |-> n, messages |-> files[n],
                       icurrent |-> NoIndex, dialog |-> 0]
      /\ \A d \in Callers : d # c => caller'[d] = caller[d]
      /\ caller \in [Callers -> CallerType]
  BY <1>1, <1>3 DEF IInv, Sound, TypeOK
<1>5. /\ caller'[c].phase = "calling" /\ caller'[c].number = n
      /\ caller'[c].messages = files[n] /\ caller'[c].icurrent = NoIndex
      /\ caller'[c].dialog = 0
  BY <1>4
<1>6. TypeOK'
  <2>1. caller'[c] \in CallerType
    <3>1. files[n] \in Seq(Mail) /\ MaxMails \in Nat
      BY MailAssumption DEF IInv, Sound, TypeOK
    <3>. QED  BY <1>4, <3>1 DEF CallerType, NoIndex
  <2>2. caller' \in [Callers -> CallerType]
    BY <1>1, <1>4, <2>1
  <2>3. counts' \in [calls : 0..MaxCalls, keys : 0..MaxKeys]
    <3>1. counts \in [calls : 0..MaxCalls, keys : 0..MaxKeys] /\ MaxCalls \in Nat
      BY MailAssumption DEF IInv, Sound, TypeOK
    <3>2. counts.calls + 1 \in 0..MaxCalls
      BY <3>1, <1>2
    <3>. QED  BY <3>1, <3>2, <1>2
  <2>4. troubles' \subseteq Troubles
    BY <1>1 DEF Troubled, IInv, Sound, TypeOK
  <2>. QED  BY <1>2, <1>4, <1>5, <2>2, <2>3, <2>4 DEF IInv, Sound, TypeOK
<1>7. Boxes'
  <2>1. \A k \in Numbers : \A s : IsBox(s, k) => IsBox(s, k)'
    BY <1>2 DEF IsBox
  <2>2. \A d \in Callers : IsBox(caller'[d].messages, caller'[d].number)
    BY <1>3, <1>4, <1>5 DEF IInv, Boxes
  <2>3. \A d \in Callers : IsBox(caller[d].messages, caller[d].number)'
    BY <2>2, <1>2 DEF IsBox
  <2>. QED  BY <1>2, <1>4, <1>5, <2>3 DEF IInv, Boxes, IsBox
<1>8. troubles \subseteq troubles'
  BY <1>1 DEF Troubled
<1>9. ASSUME troubles' = {} PROVE Fine'
  <2>1. troubles = {} /\ Fine
    BY <1>8, <1>9 DEF IInv
  <2>2. \A d \in Callers : caller[d].phase # "away" => caller[d].number # n
    BY <1>1, <1>9 DEF Troubled, TroubleIf, Arrived
  <2>3. Alone'
    BY <1>4, <1>5, <2>1, <2>2 DEF Fine, Alone
  <2>4. Inside'
    BY <1>4, <1>5, <2>1 DEF Fine, Inside
  <2>5. UpToDate'
    BY <1>2, <1>4, <1>5, <2>1 DEF Fine, UpToDate
  <2>. QED  BY <1>2, <2>1, <2>3, <2>4, <2>5 DEF Fine, MailKept, Recorded, InBoxes
<1>. QED  BY <1>2, <1>6, <1>7, <1>8, <1>9 DEF IInv, Sound

LEMMA ACPTIInv ==
    ASSUME IInv, NEW c \in Callers, ACPT(c)
    PROVE  IInv'
<1>1. /\ caller[c].phase = "calling"
      /\ caller' = [caller EXCEPT ![c].phase = "online"]
      /\ UNCHANGED <<files, wavs, mails, delivered, deleted, counts, error, troubles>>
  BY DEF ACPT
<1>2. /\ caller \in [Callers -> CallerType]
      /\ caller'[c] = [caller[c] EXCEPT !.phase = "online"]
      /\ \A d \in Callers : d # c => caller'[d] = caller[d]
  BY <1>1 DEF IInv, Sound, TypeOK
<1>3. /\ \A d \in Callers : /\ caller'[d].number = caller[d].number
                            /\ caller'[d].messages = caller[d].messages
                            /\ caller'[d].icurrent = caller[d].icurrent
                            /\ caller'[d].dialog = caller[d].dialog
                            /\ caller'[d].phase = "away" <=> caller[d].phase = "away"
                            /\ d # c => caller'[d].phase = caller[d].phase
      /\ caller'[c].phase = "online" /\ caller'[c] \in CallerType
  BY <1>1, <1>2 DEF CallerType
<1>4. TypeOK'
  <2>1. caller' \in [Callers -> CallerType]
    BY <1>1, <1>2, <1>3
  <2>. QED  BY <1>1, <1>3, <2>1 DEF IInv, Sound, TypeOK
<1>5. Boxes'
  BY <1>1, <1>3 DEF IInv, Boxes, IsBox
<1>6. Fine => Fine'
  BY <1>1, <1>3 DEF Fine, MailKept, UpToDate, Recorded, InBoxes, Alone, Inside
<1>. QED  BY <1>1, <1>4, <1>5, <1>6 DEF IInv, Sound

(* A caller leaves with what he has read.                                   *)
LEMMA LeavesTheRest ==
    ASSUME IInv, NEW c \in Callers, Disconnected(c)
    PROVE  /\ caller' \in [Callers -> CallerType]
           /\ caller'[c].phase = "away" /\ caller'[c].dialog = 0
           /\ \A d \in Callers : /\ caller'[d].number = caller[d].number
                                 /\ caller'[d].messages = caller[d].messages
                                 /\ caller'[d].icurrent = caller[d].icurrent
                                 /\ d # c => caller'[d] = caller[d]
<1>1. /\ caller' = [caller EXCEPT ![c].phase = "away", ![c].dialog = 0]
      /\ caller \in [Callers -> CallerType] /\ MaxMails \in Nat
  BY MailAssumption DEF Disconnected, IInv, Sound, TypeOK
<1>2. caller'[c] = [caller[c] EXCEPT !.phase = "away", !.dialog = 0]
  BY <1>1
<1>3. caller[c] \in CallerType /\ 0 \in 0..MaxMails
  BY <1>1
<1>4. /\ caller'[c].phase = "away" /\ caller'[c].dialog = 0
      /\ caller'[c].number = caller[c].number
      /\ caller'[c].messages = caller[c].messages
      /\ caller'[c].icurrent = caller[c].icurrent
  BY <1>2, <1>3 DEF CallerType
<1>5. caller'[c] \in CallerType
  <2>1. [caller[c] EXCEPT !.phase = "away"] \in CallerType
    BY <1>3 DEF CallerType
  <2>. QED  BY <1>2, <1>3, <2>1 DEF CallerType
<1>6. caller' \in [Callers -> CallerType]
  BY <1>1, <1>2, <1>5
<1>. QED  BY <1>1, <1>4, <1>6

LEMMA RDISIInv ==
    ASSUME IInv, NEW c \in Callers, RDIS(c)
    PROVE  IInv'
<1>1. /\ Disconnected(c)
      /\ wavs' \in {wavs, wavs \cup ({caller[c].dialog} \ {0})}
      /\ Troubled(TroubleIf(caller[c].dialog # 0, "abandoned"))
      /\ UNCHANGED <<files, mails, delivered, deleted, counts, error>>
  BY DEF RDIS
<1>2. /\ caller' \in [Callers -> CallerType]
      /\ caller'[c].phase = "away" /\ caller'[c].dialog = 0
      /\ \A d \in Callers : /\ caller'[d].number = caller[d].number
                            /\ caller'[d].messages = caller[d].messages
                            /\ caller'[d].icurrent = caller[d].icurrent
                            /\ d # c => caller'[d] = caller[d]
  BY <1>1, LeavesTheRest
<1>3. TypeOK'
  <2>1. wavs' \subseteq Mail
    <3>1. caller[c].dialog \in 0..MaxMails /\ MaxMails \in Nat
      BY MailAssumption DEF IInv, Sound, TypeOK, CallerType
    <3>2. {caller[c].dialog} \ {0} \subseteq Mail
      BY <3>1 DEF Mail
    <3>. QED  BY <1>1, <3>2 DEF IInv, Sound, TypeOK
  <2>2. troubles' \subseteq Troubles
    BY <1>1 DEF Troubled, IInv, Sound, TypeOK
  <2>. QED  BY <1>1, <1>2, <2>1, <2>2 DEF IInv, Sound, TypeOK
<1>4. Boxes'
  BY <1>1, <1>2 DEF IInv, Boxes, IsBox
<1>5. troubles \subseteq troubles'
  BY <1>1 DEF Troubled
<1>6. ASSUME troubles' = {} PROVE Fine'
  <2>1. Fine
    BY <1>5, <1>6 DEF IInv
  <2>2. wavs' = wavs
    BY <1>1, <1>6 DEF Troubled, TroubleIf
  <2>3. UpToDate' /\ Alone' /\ Inside'
    BY <1>1, <1>2, <2>1 DEF Fine, UpToDate, Alone, Inside
  <2>. QED  BY <1>1, <2>1, <2>2, <2>3 DEF Fine, MailKept, Recorded, InBoxes
<1>. QED  BY <1>1, <1>3, <1>4, <1>5, <1>6 DEF IInv, Sound

(* A mail begins: its number is new.                                        *)
LEMMA StartsIInv ==
    ASSUME IInv, NEW c \in Callers, Listens(c), NEW to \in Numbers, NEW i,
           Starts(c, to, i),
           \/ i = caller[c].icurrent
           \/ i \in 0..(Len(caller[c].messages) - 1)
           \/ i \in (-Len(caller[c].messages))..(Len(caller[c].messages) - 1)
              /\ troubles # {},
           UNCHANGED <<files, wavs, delivered, deleted, error, troubles>>,
           counts' \in [calls : 0..MaxCalls, keys : 0..MaxKeys]
    PROVE  IInv'
<1> DEFINE m == Len(mails) + 1
<1>0. /\ caller \in [Callers -> CallerType] /\ caller[c] \in CallerType
      /\ mails \in Seq([from : Numbers, to : Numbers])
      /\ caller[c].number \in Numbers /\ MaxMails \in Nat /\ Len(mails) \in Nat
  BY SMTT(30), MailAssumption DEF IInv, Sound, TypeOK, CallerType
<1>1. /\ Len(mails) < MaxMails
      /\ mails' = Append(mails, [from |-> caller[c].number, to |-> to])
      /\ caller' = [caller EXCEPT ![c].dialog = m, ![c].icurrent = i]
  BY DEF Starts
<1>2. m \in 1..MaxMails
  BY <1>0, <1>1
<1>. HIDE DEF m
<1>3. i \in (-MaxMails - 1)..MaxMails
  <2>1. Len(caller[c].messages) \in 0..MaxMails
    BY BoxType
  <2>2. caller[c].icurrent \in (-MaxMails - 1)..MaxMails
    BY <1>0 DEF CallerType
  <2>. QED  BY <2>1, <2>2, <1>0
<1>4. /\ caller'[c].dialog = m /\ caller'[c].icurrent = i
      /\ caller'[c].phase = "online" /\ caller'[c] \in CallerType
      /\ \A d \in Callers : /\ caller'[d].number = caller[d].number
                            /\ caller'[d].messages = caller[d].messages
                            /\ caller'[d].phase = caller[d].phase
                            /\ d # c => caller'[d] = caller[d]
  <2>1. caller'[c] = [caller[c] EXCEPT !.dialog = m, !.icurrent = i]
    BY <1>0, <1>1
  <2>2. /\ caller'[c].dialog = m /\ caller'[c].icurrent = i
        /\ caller'[c].phase = caller[c].phase
        /\ caller'[c].number = caller[c].number
        /\ caller'[c].messages = caller[c].messages
    BY <2>1, <1>0 DEF CallerType
  <2>3. caller'[c] \in CallerType
    <3>0. m \in 0..MaxMails
      BY <1>0, <1>2
    <3>1. [caller[c] EXCEPT !.dialog = m] \in CallerType
      BY <1>0, <3>0 DEF CallerType
    <3>. QED  BY <2>1, <3>0, <3>1, <1>0, <1>3 DEF CallerType
  <2>. QED  BY <2>2, <2>3, <1>0, <1>1 DEF Listens
<1>5. /\ mails' \in Seq([from : Numbers, to : Numbers])
      /\ Len(mails') = m /\ DOMAIN mails = 1..(m - 1) /\ DOMAIN mails' = 1..m
      /\ \A k \in DOMAIN mails : mails'[k] = mails[k]
      /\ m \notin DOMAIN mails
  <2>1. [from |-> caller[c].number, to |-> to] \in [from : Numbers, to : Numbers]
    BY <1>0
  <2>. QED  BY <2>1, <1>0, <1>1 DEF m
<1>6. TypeOK'
  <2>1. caller' \in [Callers -> CallerType]
    BY <1>0, <1>1, <1>4
  <2>2. Len(mails') <= MaxMails
    BY <1>2, <1>5
  <2>. QED  BY <1>4, <1>5, <2>1, <2>2 DEF IInv, Sound, TypeOK
<1>7. /\ delivered \subseteq DOMAIN mails
      /\ \A k \in delivered : mails'[k] = mails[k]
      /\ \A d \in Callers : caller[d].dialog # m
      /\ \A d \in Callers : caller[d].dialog # 0 => caller[d].dialog \in DOMAIN mails
  <2>1. delivered \subseteq DOMAIN mails
    BY DEF IInv, Boxes
  <2>2. \A d \in Callers : caller[d].dialog # 0 => caller[d].dialog \in DOMAIN mails
    BY DEF IInv, Boxes
  <2>3. m # 0
    BY <1>2
  <2>. QED  BY <2>1, <2>2, <2>3, <1>5
<1>8. Boxes'
  <2>1. \A k \in Numbers : \A s : IsBox(s, k) => IsBox(s, k)'
    BY <1>7 DEF IsBox
  <2>2. \A n \in Numbers : IsBox(files[n], n)'
    BY <2>1 DEF IInv, Boxes
  <2>3. \A d \in Callers : IsBox(caller[d].messages, caller[d].number)'
    <3>1. \A d \in Callers : IsBox(caller[d].messages, caller[d].number)
      BY DEF IInv, Boxes
    <3>. QED  BY <3>1, <1>4, <1>7 DEF IsBox
  <2>4. DOMAIN mails \subseteq DOMAIN mails' /\ m \in DOMAIN mails' \ delivered
    BY <1>2, <1>5, <1>7
  <2>5. \A d \in Callers : caller'[d].dialog # 0 =>
            caller'[d].dialog \in DOMAIN mails' \ delivered'
    BY <1>4, <2>4 DEF IInv, Boxes
  <2>6. \A d, e \in Callers :
            d # e /\ caller'[d].dialog # 0 => caller'[d].dialog # caller'[e].dialog
    BY <1>2, <1>4, <1>7 DEF IInv, Boxes
  <2>. QED  BY <2>2, <2>3, <2>4, <2>5, <2>6, <1>7 DEF Boxes
<1>9. ASSUME troubles = {} PROVE Fine'
  <2>1. Fine
    BY <1>9 DEF IInv
  <2>2. Inside'
    <3>1. \/ caller'[c].icurrent = NoIndex
          \/ caller'[c].icurrent \in 0..(Len(caller'[c].messages) - 1)
      BY <1>4, <1>9, <2>1 DEF Listens, Fine, Inside
    <3>. QED  BY <1>4, <2>1, <3>1 DEF Fine, Inside
  <2>3. MailKept'
    <3>1. \A k \in delivered \ deleted : k \in Range(files[mails[k].to])
      BY <2>1 DEF Fine, MailKept
    <3>. QED  BY <3>1, <1>7 DEF MailKept
  <2>. QED  BY <1>4, <2>1, <2>2, <2>3 DEF Fine, UpToDate, Recorded, InBoxes, Alone
<1>. QED  BY <1>6, <1>8, <1>9 DEF IInv, Sound

LEMMA starhashIInv ==
    ASSUME IInv, NEW c \in Callers, starhash(c)
    PROVE  IInv'
<1>1. PICK to \in Numbers : Starts(c, to, caller[c].icurrent)
  BY DEF starhash
<1>2. counts' \in [calls : 0..MaxCalls, keys : 0..MaxKeys]
  BY DEF starhash, IInv, Sound, TypeOK
<1>. QED  BY <1>1, <1>2, StartsIInv DEF starhash

(* The mail is handed over: it goes into the file of its receiver, who has  *)
(* read that file if he is here.                                            *)
LEMMA MLCAIInv ==
    ASSUME IInv, NEW c \in Callers, MLCA(c)
    PROVE  IInv'
<1> DEFINE done == [caller EXCEPT ![c].dialog = 0]
           New(s, n) == /\ s \in Seq(Mail) /\ Descends(s)
                        /\ \A k \in Range(s) : k \in delivered' /\ mails'[k].to = n
           Box(d, m) == Sorted(Range(caller[d].messages) \cup {m})
<1>1. PICK m : m = caller[c].dialog
  OBVIOUS
<1>2. PICK to : to = mails[m].to
  OBVIOUS
<1>3. /\ m # 0
      /\ wavs' = wavs \cup {m} /\ delivered' = delivered \cup {m}
      /\ UNCHANGED <<mails, deleted, counts, error>>
      /\ \/ \E d \in Online(to) :
               /\ caller' = [done EXCEPT ![d].messages = Box(d, m)]
               /\ Writes(to, Box(d, m))
               /\ UNCHANGED troubles
         \/ /\ Online(to) = {} /\ caller' = done /\ Writes(to, <<m>>)
            /\ Troubled(TroubleIf(files[to] # << >>, "overwritten")
                        \cup TroubleIf(Arrived(to) # {}, "arriving"))
  BY <1>1, <1>2 DEF MLCA
<1>4. /\ caller \in [Callers -> CallerType] /\ caller[c] \in CallerType
      /\ files \in [Numbers -> Seq(Mail)] /\ MaxMails \in Nat
      /\ m \in DOMAIN mails \ delivered
      /\ caller[c].phase = "online"
      /\ mails \in Seq([from : Numbers, to : Numbers]) /\ Len(mails) <= MaxMails
      /\ delivered \subseteq DOMAIN mails
  BY <1>1, <1>3, MailAssumption DEF IInv, Sound, TypeOK, Boxes
<1>b. \A k \in DOMAIN mails : mails[k].to \in Numbers
  BY MailsType
<1>5. m \in Mail /\ to \in Numbers
  <2>1. m \in 1..Len(mails) /\ Len(mails) \in Nat
    BY <1>4
  <2>2. m \in 1..MaxMails
    BY <2>1, <1>4
  <2>. QED  BY <2>2, <1>2, <1>4, <1>b DEF Mail
<1>6. /\ done \in [Callers -> CallerType] /\ done[c].dialog = 0
      /\ \A d \in Callers : /\ done[d].number = caller[d].number
                            /\ done[d].messages = caller[d].messages
                            /\ done[d].phase = caller[d].phase
                            /\ done[d].icurrent = caller[d].icurrent
                            /\ d # c => done[d] = caller[d]
  <2>1. 0 \in 0..MaxMails
    BY <1>4
  <2>2. /\ [caller[c] EXCEPT !.dialog = 0] \in CallerType
        /\ [caller[c] EXCEPT !.dialog = 0].dialog = 0
        /\ [caller[c] EXCEPT !.dialog = 0].number = caller[c].number
        /\ [caller[c] EXCEPT !.dialog = 0].messages = caller[c].messages
        /\ [caller[c] EXCEPT !.dialog = 0].phase = caller[c].phase
        /\ [caller[c] EXCEPT !.dialog = 0].icurrent = caller[c].icurrent
    BY <2>1, <1>4 DEF CallerType
  <2>. QED  BY <2>2, <1>4
<1>7. wavs' \subseteq Mail /\ delivered' \subseteq Mail /\ deleted' \subseteq delivered'
  BY <1>3, <1>5 DEF IInv, Sound, TypeOK
<1>8. /\ \A n \in Numbers : New(files[n], n)
      /\ \A d \in Callers : New(caller[d].messages, caller[d].number)
  BY <1>3 DEF IInv, Boxes, IsBox
<1>9. /\ \A d \in Callers : done[d].dialog # 0 =>
             done[d].dialog \in DOMAIN mails' \ delivered'
      /\ \A d, e \in Callers :
             d # e /\ done[d].dialog # 0 => done[d].dialog # done[e].dialog
      /\ \A d \in Callers : done[d].dialog # 0 => done[d].phase = "online"
      /\ delivered' \subseteq DOMAIN mails'
  <2>1. \A d \in Callers : d # c => caller[d].dialog # m
    BY <1>1, <1>3 DEF IInv, Boxes
  <2>2. \A d \in Callers : caller[d].dialog # 0 =>
            /\ caller[d].dialog \in DOMAIN mails \ delivered
            /\ caller[d].phase = "online"
    BY DEF IInv, Boxes, Sound, TypeOK
  <2>3. \A d, e \in Callers :
            d # e /\ caller[d].dialog # 0 => caller[d].dialog # caller[e].dialog
    BY DEF IInv, Boxes
  <2>. HIDE DEF done
  <2>4. \A d \in Callers : done[d].dialog # 0 => d # c /\ done[d] = caller[d]
    BY <1>6
  <2>5. \A d \in Callers : done[d].dialog # 0 =>
            done[d].dialog \in DOMAIN mails \ (delivered \cup {m})
    BY <2>1, <2>2, <2>4
  <2>6. \A d \in Callers : done[d].dialog # 0 => done[d].phase = "online"
    BY <2>2, <2>4
  <2>7. \A d, e \in Callers :
            d # e /\ done[d].dialog # 0 => done[d].dialog # done[e].dialog
    <3>1. SUFFICES ASSUME NEW d \in Callers, NEW e \in Callers, d # e,
                          done[d].dialog # 0
                   PROVE  done[d].dialog # done[e].dialog
      OBVIOUS
    <3>2. d # c /\ done[d] = caller[d]
      BY <3>1, <2>4
    <3>3. CASE e = c
      BY <3>1, <3>3, <1>6
    <3>4. CASE e # c
      <4>1. done[e] = caller[e]
        BY <3>4, <1>6
      <4>. QED  BY <3>1, <3>2, <4>1, <2>3
    <3>. QED  BY <3>3, <3>4
  <2>8. mails' = mails /\ delivered' = delivered \cup {m}
    BY <1>3
  <2>. QED  BY <2>5, <2>6, <2>7, <2>8, <1>4
<1>a. (\A n \in Numbers : New(files'[n], n))
      /\ (\A d \in Callers : New(caller'[d].messages, caller'[d].number))
      /\ (\A d \in Callers : caller'[d].dialog = done[d].dialog)
      => Boxes'
  BY <1>9 DEF Boxes, IsBox
<1>. HIDE DEF done, New
<1>10. CASE \E d \in Online(to) :
               /\ caller' = [done EXCEPT ![d].messages = Box(d, m)]
               /\ Writes(to, Box(d, m))
               /\ UNCHANGED troubles
  <2>1. PICK d \in Callers :
               /\ caller[d].number = to /\ caller[d].phase = "online"
               /\ caller' = [done EXCEPT ![d].messages = Box(d, m)]
               /\ files' = [files EXCEPT ![to] = Box(d, m)]
               /\ UNCHANGED troubles
    BY <1>10 DEF Online, Arrived, Writes
  <2>2. PICK new : new = Box(d, m)
    OBVIOUS
  <2>3. IsBox(caller[d].messages, to)
    BY <2>1 DEF IInv, Boxes
  <2>4. /\ new \in Seq(Mail) /\ Descends(new)
        /\ Range(new) = Range(caller[d].messages) \cup {m}
    <3>1. Range(caller[d].messages) \subseteq Mail
      BY <2>3, ListOfMail DEF IsBox
    <3>2. Range(caller[d].messages) \cup {m} \in SUBSET Mail
      BY <3>1, <1>5
    <3>. QED  BY <3>2, <2>2, SortedBox
  <2>5. New(new, to)
    <3>1. \A k \in Range(new) : k \in delivered \cup {m} /\ mails[k].to = to
      BY <2>3, <2>4, <1>2 DEF IsBox
    <3>. QED  BY <3>1, <2>4, <1>3 DEF New
  <2>. HIDE DEF Box
  <2>6. /\ caller' \in [Callers -> CallerType] /\ caller'[d].messages = new
        /\ \A e \in Callers : /\ caller'[e].number = caller[e].number
                              /\ caller'[e].dialog = done[e].dialog
                              /\ caller'[e].phase = caller[e].phase
                              /\ caller'[e].icurrent = caller[e].icurrent
                              /\ e # d => caller'[e].messages = caller[e].messages
    <3>1. caller' = [done EXCEPT ![d].messages = new]
      BY <2>1, <2>2
    <3>2. done[d] \in CallerType
      BY <1>6
    <3>3. /\ [done[d] EXCEPT !.messages = new] \in CallerType
          /\ [done[d] EXCEPT !.messages = new].messages = new
          /\ [done[d] EXCEPT !.messages = new].number = done[d].number
          /\ [done[d] EXCEPT !.messages = new].dialog = done[d].dialog
          /\ [done[d] EXCEPT !.messages = new].phase = done[d].phase
          /\ [done[d] EXCEPT !.messages = new].icurrent = done[d].icurrent
      BY <2>4, <3>2 DEF CallerType
    <3>4. /\ caller'[d] = [done[d] EXCEPT !.messages = new]
          /\ \A e \in Callers : e # d => caller'[e] = done[e]
          /\ caller' \in [Callers -> CallerType]
      BY <3>1, <3>3, <1>6
    <3>. QED  BY ZenonT(30), <3>3, <3>4, <1>6
  <2>7. /\ files' \in [Numbers -> Seq(Mail)] /\ files'[to] = new
        /\ \A n \in Numbers : n # to => files'[n] = files[n]
    BY <2>1, <2>2, <2>4, <1>4, <1>5
  <2>8. TypeOK'
    BY <1>3, <1>7, <1>9, <2>1, <2>6, <2>7 DEF IInv, Sound, TypeOK
  <2>9. Boxes'
    BY <1>8, <1>a, <2>1, <2>5, <2>6, <2>7
  <2>10. ASSUME troubles' = {} PROVE Fine'
    <3>1. Fine /\ troubles = {}
      BY <2>1, <2>10 DEF IInv
    <3>2. /\ caller[d].messages = files[to]
          /\ \A e \in Callers : e # d /\ caller[e].phase # "away" => caller[e].number # to
      BY <2>1, <3>1 DEF Fine, UpToDate, Alone
    <3>3. Range(files'[to]) = Range(files[to]) \cup {m}
      BY <2>4, <2>7, <3>2
    <3>4. UpToDate'
      BY <2>1, <2>6, <2>7, <3>1, <3>2 DEF Fine, UpToDate
    <3>5. MailKept'
      <4>1. ASSUME NEW k \in delivered' \ deleted'
            PROVE  k \in Range(files'[mails'[k].to])
        <5>1. CASE k = m
          BY <5>1, <3>3, <1>2, <1>3
        <5>2. CASE k # m
          <6>1. k \in Range(files[mails[k].to])
            BY <4>1, <5>2, <1>3, <3>1 DEF Fine, MailKept
          <6>2. k \in delivered
            BY <4>1, <5>2, <1>3
          <6>3. mails[k].to \in Numbers
            BY <6>2, <1>4, <1>b
          <6>. QED  BY <6>1, <6>3, <3>3, <2>7, <1>3
        <5>. QED  BY <5>1, <5>2
      <4>. QED  BY <4>1 DEF MailKept
    <3>6. Recorded'
      <4>1. \A n \in Numbers : Range(files'[n]) =
                IF n = to THEN Range(files[n]) \cup {m} ELSE Range(files[n])
        BY <2>7, <3>3
      <4>2. \A k : k \in InBoxes' <=> k \in InBoxes \/ k = m
        BY <4>1, <1>5 DEF InBoxes
      <4>3. m \notin deleted
        BY <1>4 DEF IInv, Sound, TypeOK
      <4>. QED  BY <4>2, <4>3, <1>3, <3>1 DEF Fine, Recorded
    <3>7. Alone'
      BY <2>6, <3>1 DEF Fine, Alone
    <3>8. Inside'
      <4>1. Len(caller[d].messages) <= Len(new)
        BY <2>3, <2>4, LongerBox DEF IsBox
      <4>2. Len(caller[d].messages) \in Nat /\ Len(new) \in Nat
        BY <2>3, <2>4 DEF IsBox
      <4>. QED  BY <4>1, <4>2, <2>6, <3>1 DEF Fine, Inside
    <3>. QED  BY <3>4, <3>5, <3>6, <3>7, <3>8 DEF Fine
  <2>. QED  BY <1>3, <2>1, <2>8, <2>9, <2>10 DEF IInv, Sound
<1>11. CASE /\ Online(to) = {} /\ caller' = done /\ Writes(to, <<m>>)
            /\ Troubled(TroubleIf(files[to] # << >>, "overwritten")
                        \cup TroubleIf(Arrived(to) # {}, "arriving"))
  <2>1. /\ <<m>> \in Seq(Mail) /\ Descends(<<m>>) /\ Range(<<m>>) = {m}
    BY <1>5 DEF Descends, Range
  <2>2. New(<<m>>, to)
    BY <2>1, <1>2, <1>3 DEF New
  <2>3. /\ files' \in [Numbers -> Seq(Mail)] /\ files'[to] = <<m>>
        /\ \A n \in Numbers : n # to => files'[n] = files[n]
    BY <1>4, <1>5, <1>11, <2>1 DEF Writes
  <2>4. troubles \subseteq troubles' /\ troubles' \subseteq Troubles
    BY <1>11 DEF Troubled, IInv, Sound, TypeOK
  <2>5. TypeOK'
    BY <1>3, <1>6, <1>7, <1>9, <1>11, <2>3, <2>4 DEF IInv, Sound, TypeOK
  <2>6. Boxes'
    BY <1>6, <1>8, <1>a, <1>11, <2>2, <2>3
  <2>7. ASSUME troubles' = {} PROVE Fine'
    <3>1. Fine
      BY <2>4, <2>7 DEF IInv
    <3>2. files[to] = << >> /\ Arrived(to) = {}
      BY <1>11, <2>7 DEF Troubled, TroubleIf
    <3>3. \A d \in Callers : caller[d].phase # "away" => caller[d].number # to
      BY <3>2 DEF Arrived
    <3>4. Range(files'[to]) = Range(files[to]) \cup {m}
      <4>1. Range(<< >>) = {}
        BY DEF Range
      <4>2. Range(files'[to]) = {m} /\ Range(files[to]) = {}
        BY <4>1, <2>1, <2>3, <3>2
      <4>. QED  BY <4>2
    <3>5. UpToDate'
      <4>1. SUFFICES ASSUME NEW d \in Callers, caller'[d].phase # "away"
                     PROVE  caller'[d].messages = files'[caller'[d].number]
        BY DEF UpToDate
      <4>2. /\ caller[d].phase # "away" /\ caller'[d].number = caller[d].number
            /\ caller'[d].messages = caller[d].messages
        BY <1>6, <1>11, <4>1
      <4>3. caller[d].number \in Numbers /\ caller[d].number # to
        BY <1>4, <3>3, <4>2 DEF CallerType
      <4>4. caller[d].messages = files[caller[d].number]
        BY <3>1, <4>2 DEF Fine, UpToDate
      <4>. QED  BY <2>3, <4>2, <4>3, <4>4
    <3>6. MailKept'
      <4>1. ASSUME NEW k \in delivered' \ deleted'
            PROVE  k \in Range(files'[mails'[k].to])
        <5>1. CASE k = m
          BY <5>1, <3>4, <1>2, <1>3
        <5>2. CASE k # m
          <6>1. k \in Range(files[mails[k].to])
            BY <4>1, <5>2, <1>3, <3>1 DEF Fine, MailKept
          <6>2. k \in delivered
            BY <4>1, <5>2, <1>3
          <6>3. mails[k].to \in Numbers
            BY <6>2, <1>4, <1>b
          <6>. QED  BY <6>1, <6>3, <3>4, <2>3, <1>3
        <5>. QED  BY <5>1, <5>2
      <4>. QED  BY <4>1 DEF MailKept
    <3>7. Recorded'
      <4>1. \A n \in Numbers : Range(files'[n]) =
                IF n = to THEN Range(files[n]) \cup {m} ELSE Range(files[n])
        BY <2>3, <3>4
      <4>2. \A k : k \in InBoxes' <=> k \in InBoxes \/ k = m
        BY <4>1, <1>5 DEF InBoxes
      <4>3. m \notin deleted
        BY <1>4 DEF IInv, Sound, TypeOK
      <4>. QED  BY <4>2, <4>3, <1>3, <3>1 DEF Fine, Recorded
    <3>8. Alone' /\ Inside'
      BY <1>6, <1>11, <3>1 DEF Fine, Alone, Inside
    <3>. QED  BY <3>5, <3>6, <3>7, <3>8 DEF Fine
  <2>. QED  BY <1>3, <2>4, <2>5, <2>6, <2>7 DEF IInv, Sound
<1>. QED  BY <1>3, <1>10, <1>11

LEMMA resetIInv ==
    ASSUME IInv, NEW c \in Callers, reset(c)
    PROVE  IInv'
<1>1. /\ caller' = [caller EXCEPT ![c].icurrent = NoIndex]
      /\ UNCHANGED <<files, wavs, mails, delivered, deleted, counts, error, troubles>>
      /\ caller \in [Callers -> CallerType] /\ MaxMails \in Nat
  BY MailAssumption DEF reset, IInv, Sound, TypeOK
<1>2. /\ caller'[c] = [caller[c] EXCEPT !.icurrent = NoIndex]
      /\ \A d \in Callers : d # c => caller'[d] = caller[d]
      /\ caller[c] \in CallerType
  BY <1>1
<1>3. /\ \A d \in Callers : /\ caller'[d].number = caller[d].number
                            /\ caller'[d].messages = caller[d].messages
                            /\ caller'[d].dialog = caller[d].dialog
                            /\ caller'[d].phase = caller[d].phase
                            /\ d # c => caller'[d] = caller[d]
      /\ caller'[c].icurrent = NoIndex
  BY <1>2 DEF CallerType
<1>4. TypeOK'
  <2>1. NoIndex \in (-MaxMails - 1)..MaxMails
    BY <1>1 DEF NoIndex
  <2>2. caller'[c] \in CallerType
    BY <1>2, <2>1 DEF CallerType
  <2>3. caller' \in [Callers -> CallerType]
    BY <1>1, <1>2, <2>2
  <2>. QED  BY <1>1, <1>3, <2>3 DEF IInv, Sound, TypeOK
<1>5. Boxes'
  BY <1>1, <1>3 DEF IInv, Boxes, IsBox
<1>6. Fine => Fine'
  BY <1>1, <1>3 DEF Fine, MailKept, UpToDate, Recorded, InBoxes, Alone, Inside
<1>. QED  BY <1>1, <1>4, <1>5, <1>6 DEF IInv, Sound

(* A key is counted.                                                        *)
LEMMA PressesCounts ==
    ASSUME IInv, NEW c \in Callers, Presses(c)
    PROVE  counts' \in [calls : 0..MaxCalls, keys : 0..MaxKeys]
<1>1. /\ counts \in [calls : 0..MaxCalls, keys : 0..MaxKeys] /\ MaxKeys \in Nat
      /\ counts.keys < MaxKeys /\ counts' = [counts EXCEPT !.keys = @ + 1]
  BY MailAssumption DEF Presses, IInv, Sound, TypeOK
<1>2. counts.keys + 1 \in 0..MaxKeys
  BY <1>1
<1>. QED  BY <1>1, <1>2

(* Once a handler has raised there was trouble before.                      *)
Wrong == {"beyond", "wrapped", "twins"}

LEMMA RaisesIInv ==
    ASSUME IInv, NEW c \in Callers, Raises(c),
           UNCHANGED <<wavs, mails, delivered, deleted>>,
           troubles \cap Wrong # {}, troubles \subseteq troubles',
           troubles' \subseteq Troubles,
           counts' \in [calls : 0..MaxCalls, keys : 0..MaxKeys]
    PROVE  IInv'
<1>1. Disconnected(c) /\ error' = TRUE /\ UNCHANGED files
  BY DEF Raises
<1>2. /\ caller' \in [Callers -> CallerType]
      /\ caller'[c].phase = "away" /\ caller'[c].dialog = 0
      /\ \A d \in Callers : /\ caller'[d].number = caller[d].number
                            /\ caller'[d].messages = caller[d].messages
                            /\ caller'[d].icurrent = caller[d].icurrent
                            /\ d # c => caller'[d] = caller[d]
  BY <1>1, LeavesTheRest
<1>3. TypeOK'
  BY ZenonT(30), <1>1, <1>2 DEF IInv, Sound, TypeOK
<1>4. Boxes'
  BY <1>1, <1>2 DEF IInv, Boxes, IsBox
<1>5. troubles' # {} /\ troubles' \cap {"beyond", "wrapped", "twins"} # {}
  BY DEF Wrong
<1>. QED  BY <1>3, <1>4, <1>5 DEF IInv, Sound

LEMMA ReplyIInv ==
    ASSUME IInv, NEW c \in Callers, Reply(c), troubles \subseteq Wrong
    PROVE  IInv'
<1> DEFINE box == caller[c]
           i == current(box)
<1>1. /\ Presses(c) /\ box.messages # << >>
      /\ UNCHANGED <<wavs, delivered, deleted, troubles>>
      /\ \/ /\ IsIndex(box.messages, i)
            /\ Starts(c, mails[At(box.messages, i)].from, i)
            /\ UNCHANGED <<files, error>>
         \/ /\ ~IsIndex(box.messages, i) /\ Raises(c) /\ UNCHANGED mails
  BY DEF Reply
<1>2. /\ box \in CallerType /\ box.messages \in Seq(Mail) /\ Descends(box.messages)
      /\ Range(box.messages) \subseteq delivered
      /\ Len(box.messages) \in 0..MaxMails /\ MaxMails \in Nat
  BY BoxType
<1>3. i \in Int /\ Len(box.messages) \in Nat /\ Len(box.messages) # 0
  BY <1>1, <1>2 DEF current, CallerType, NoIndex
<1>4. troubles = {} => i \in 0..(Len(box.messages) - 1)
  <2>1. troubles = {} => \/ box.icurrent = NoIndex
                         \/ box.icurrent \in 0..(Len(box.messages) - 1)
    BY <1>1 DEF IInv, Fine, Inside, Presses, Listens
  <2>. QED  BY <1>3, <2>1 DEF current
<1>5. counts' \in [calls : 0..MaxCalls, keys : 0..MaxKeys]
  BY <1>1, PressesCounts
<1>6. CASE /\ IsIndex(box.messages, i)
           /\ Starts(c, mails[At(box.messages, i)].from, i)
           /\ UNCHANGED <<files, error>>
  <2>1. At(box.messages, i) \in delivered
    BY <1>2, <1>3, <1>6, WithoutOne
  <2>2. At(box.messages, i) \in DOMAIN mails
    BY <2>1 DEF IInv, Boxes
  <2>3. mails[At(box.messages, i)].from \in Numbers
    BY <2>2, MailsType
  <2>4. i \in (-Len(box.messages))..(Len(box.messages) - 1)
    BY <1>3, <1>6 DEF IsIndex
  <2>5. Listens(c)
    BY <1>1 DEF Presses
  <2>. HIDE DEF i
  <2>. QED  BY <1>1, <1>4, <1>5, <1>6, <2>3, <2>4, <2>5, StartsIInv
<1>7. CASE ~IsIndex(box.messages, i) /\ Raises(c) /\ UNCHANGED mails
  <2>1. troubles # {}
    BY <1>3, <1>4, <1>7 DEF IsIndex
  <2>2. troubles \cap Wrong # {}
    BY <2>1
  <2>3. troubles \subseteq Troubles
    BY DEF IInv, Sound, TypeOK
  <2>. QED  BY <1>1, <1>5, <1>7, <2>2, <2>3, RaisesIInv
<1>. QED  BY <1>1, <1>6, <1>7

(* The index of the mail that a key asks for.                               *)
LEMMA BrowsedIndex ==
    ASSUME IInv, NEW c \in Callers, caller[c].messages # << >>,
           NEW i \in {previous(caller[c]), current(caller[c]), next(caller[c])}
    PROVE  /\ i \in Int
           /\ (caller[c].icurrent = NoIndex
                   \/ caller[c].icurrent \in 0..(Len(caller[c].messages) - 1)) =>
                  \/ i = NoIndex
                  \/ i \in 0..(Len(caller[c].messages) - 1)
                  \/ i = -1 /\ caller[c].icurrent = 0
<1> DEFINE box == caller[c]
<1>1. /\ Len(box.messages) \in 0..MaxMails /\ MaxMails \in Nat
      /\ box \in CallerType /\ box.messages \in Seq(Mail)
  BY BoxType
<1>2. /\ box.icurrent \in Int /\ NoIndex \in Nat
      /\ Len(box.messages) \in Nat /\ Len(box.messages) # 0
  BY <1>1 DEF CallerType, NoIndex
<1>. HIDE DEF box
<1>3. CASE i = previous(box)
  BY <1>2, <1>3 DEF previous, box
<1>4. CASE i = current(box)
  BY <1>2, <1>4 DEF current, box
<1>5. CASE i = next(box)
  BY <1>2, <1>5 DEF next, box
<1>. QED  BY <1>3, <1>4, <1>5 DEF box

LEMMA browseIInv ==
    ASSUME IInv, NEW c \in Callers, browse(c), troubles \subseteq Wrong
    PROVE  IInv'
<1> DEFINE box == caller[c]
           rest(i) == Existing(box.messages, i)
<1>1. PICK i \in {previous(box), current(box), next(box)} :
        \/ /\ i = NoIndex
           /\ caller' = [caller EXCEPT ![c].icurrent = i]
           /\ UNCHANGED <<files, error>>
        \/ /\ i # NoIndex
           /\ \/ ~IsIndex(box.messages, i)
              \/ rest(i) # << >> /\ ~IsIndex(rest(i), i)
           /\ Raises(c)
        \/ /\ i # NoIndex /\ IsIndex(box.messages, i)
           /\ (rest(i) = << >> \/ IsIndex(rest(i), i))
           /\ caller' = [caller EXCEPT ![c].icurrent = i, ![c].messages = rest(i)]
           /\ IF rest(i) = << >> THEN UNCHANGED files ELSE Writes(box.number, rest(i))
           /\ UNCHANGED error
  BY DEF browse
<1>2. /\ Presses(c) /\ box.messages # << >>
      /\ Troubled(TroubleIf(box.icurrent = 0 /\ caller'[c].icurrent = -1, "wrapped"))
      /\ UNCHANGED <<wavs, mails, delivered, deleted>>
  BY DEF browse
<1>3. /\ caller \in [Callers -> CallerType] /\ box \in CallerType
      /\ box.messages \in Seq(Mail) /\ Descends(box.messages)
      /\ Range(box.messages) \subseteq delivered
      /\ Len(box.messages) \in 0..MaxMails /\ MaxMails \in Nat
      /\ files \in [Numbers -> Seq(Mail)] /\ box.number \in Numbers
      /\ box.phase = "online"
  BY <1>2, BoxType DEF IInv, Sound, TypeOK, CallerType, Presses, Listens
<1>4. /\ i \in Int
      /\ troubles = {} => \/ i = NoIndex
                          \/ i \in 0..(Len(box.messages) - 1)
                          \/ i = -1 /\ box.icurrent = 0
  <2>1. troubles = {} => \/ box.icurrent = NoIndex
                         \/ box.icurrent \in 0..(Len(box.messages) - 1)
    BY <1>3 DEF IInv, Fine, Inside
  <2>. QED  BY <1>2, <2>1, BrowsedIndex
<1>5. counts' \in [calls : 0..MaxCalls, keys : 0..MaxKeys]
  BY <1>2, PressesCounts
<1>6. troubles \subseteq troubles' /\ troubles' \subseteq Troubles
  BY <1>2 DEF Troubled, IInv, Sound, TypeOK
<1>7. troubles = {} =>
        /\ box.messages = files[box.number] /\ Range(box.messages) \subseteq wavs
        /\ IsIndex(box.messages, i) => rest(i) = box.messages
  <2>1. SUFFICES ASSUME troubles = {}
                 PROVE  /\ box.messages = files[box.number]
                        /\ Range(box.messages) \subseteq wavs
                        /\ IsIndex(box.messages, i) => rest(i) = box.messages
    OBVIOUS
  <2>2. box.messages = files[box.number]
    BY <1>3, <2>1 DEF IInv, Fine, UpToDate
  <2>3. Range(box.messages) \subseteq wavs
    BY <1>3, <2>1, <2>2 DEF IInv, Fine, Recorded, InBoxes
  <2>. QED  BY <2>2, <2>3, <1>3, <1>4, ExistingAll
<1>. HIDE DEF rest
<1>8. CASE /\ i = NoIndex
           /\ caller' = [caller EXCEPT ![c].icurrent = i]
           /\ UNCHANGED <<files, error>>
  <2>1. /\ caller'[c] = [box EXCEPT !.icurrent = NoIndex]
        /\ \A d \in Callers : d # c => caller'[d] = caller[d]
    BY <1>3, <1>8
  <2>2. /\ \A d \in Callers : /\ caller'[d].number = caller[d].number
                              /\ caller'[d].messages = caller[d].messages
                              /\ caller'[d].dialog = caller[d].dialog
                              /\ caller'[d].phase = caller[d].phase
                              /\ d # c => caller'[d] = caller[d]
        /\ caller'[c].icurrent = NoIndex
    BY <2>1, <1>3 DEF CallerType
  <2>3. TypeOK'
    <3>1. NoIndex \in (-MaxMails - 1)..MaxMails
      BY <1>3 DEF NoIndex
    <3>2. caller'[c] \in CallerType
      BY <1>3, <2>1, <3>1 DEF CallerType
    <3>3. caller' \in [Callers -> CallerType]
      BY <1>3, <1>8, <2>1, <3>2
    <3>. QED  BY <1>2, <1>5, <1>6, <1>8, <2>2, <3>3 DEF IInv, Sound, TypeOK
  <2>4. Boxes'
    BY <1>2, <1>8, <2>2 DEF IInv, Boxes, IsBox
  <2>5. Fine => Fine'
    BY <1>2, <1>8, <2>2 DEF Fine, MailKept, UpToDate, Recorded, InBoxes, Alone, Inside
  <2>. QED  BY <1>6, <1>8, <2>3, <2>4, <2>5 DEF IInv, Sound
<1>9. CASE /\ i # NoIndex
           /\ \/ ~IsIndex(box.messages, i)
              \/ rest(i) # << >> /\ ~IsIndex(rest(i), i)
           /\ Raises(c)
  <2>1. troubles # {}
    <3>1. SUFFICES ASSUME troubles = {} PROVE IsIndex(box.messages, i)
      BY <1>7, <1>9
    <3>2. Len(box.messages) \in Nat /\ Len(box.messages) # 0
      BY <1>2, <1>3
    <3>. QED  BY <1>4, <1>9, <3>1, <3>2 DEF IsIndex
  <2>2. troubles \cap Wrong # {}
    BY <2>1
  <2>. QED  BY <1>2, <1>5, <1>6, <1>9, <2>2, RaisesIInv
<1>10. CASE /\ i # NoIndex /\ IsIndex(box.messages, i)
            /\ caller' = [caller EXCEPT ![c].icurrent = i, ![c].messages = rest(i)]
            /\ IF rest(i) = << >> THEN UNCHANGED files ELSE Writes(box.number, rest(i))
            /\ UNCHANGED error
  <2>1. /\ rest(i) \in Seq(Mail) /\ Descends(rest(i))
        /\ Range(rest(i)) \subseteq Range(box.messages)
    BY <1>3, <1>4, <1>10, ExistingBox DEF rest
  <2>2. i \in (-MaxMails - 1)..MaxMails
    BY <1>3, <1>4, <1>10 DEF IsIndex
  <2>3. /\ caller'[c] = [box EXCEPT !.icurrent = i, !.messages = rest(i)]
        /\ \A d \in Callers : d # c => caller'[d] = caller[d]
    BY <1>3, <1>10
  <2>4. /\ caller'[c].icurrent = i /\ caller'[c].messages = rest(i)
        /\ \A d \in Callers : /\ caller'[d].number = caller[d].number
                              /\ caller'[d].dialog = caller[d].dialog
                              /\ caller'[d].phase = caller[d].phase
                              /\ d # c => caller'[d] = caller[d]
    BY <2>3, <1>3 DEF CallerType
  <2>5. \/ files' = files
        \/ files' = [files EXCEPT ![box.number] = rest(i)]
    BY <1>10 DEF Writes
  <2>6. files' \in [Numbers -> Seq(Mail)]
    BY <1>3, <2>1, <2>5
  <2>7. TypeOK'
    <3>1. caller'[c] \in CallerType
      <4>1. [box EXCEPT !.icurrent = i] \in CallerType
        BY <1>3, <2>2 DEF CallerType
      <4>. QED  BY <4>1, <1>3, <2>1, <2>2, <2>3 DEF CallerType
    <3>2. caller' \in [Callers -> CallerType]
      BY <1>3, <1>10, <2>3, <3>1
    <3>. QED  BY <1>2, <1>5, <1>6, <1>10, <2>4, <2>6, <3>2 DEF IInv, Sound, TypeOK
  <2>8. Boxes'
    <3>1. IsBox(box.messages, box.number)
      BY DEF IInv, Boxes
    <3>2. IsBox(rest(i), box.number)
      BY <2>1, <3>1 DEF IsBox
    <3>3. \A n \in Numbers : IsBox(files[n], n)
      BY DEF IInv, Boxes
    <3>4. \A d \in Callers : IsBox(caller[d].messages, caller[d].number)
      BY DEF IInv, Boxes
    <3>5. \A n \in Numbers : files'[n] \in Seq(Mail) /\ Descends(files'[n])
            /\ \A m \in Range(files'[n]) : m \in delivered /\ mails[m].to = n
      BY <1>3, <2>5, <3>2, <3>3 DEF IsBox
    <3>6. \A d \in Callers :
            /\ caller'[d].messages \in Seq(Mail) /\ Descends(caller'[d].messages)
            /\ \A m \in Range(caller'[d].messages) :
                   m \in delivered /\ mails[m].to = caller'[d].number
      BY <2>4, <3>2, <3>4 DEF IsBox
    <3>7. \A n \in Numbers : IsBox(files[n], n)'
      BY <1>2, <3>5 DEF IsBox
    <3>8. \A d \in Callers : IsBox(caller[d].messages, caller[d].number)'
      BY <1>2, <3>6 DEF IsBox
    <3>. QED  BY <1>2, <2>4, <3>7, <3>8 DEF IInv, Boxes
  <2>9. ASSUME troubles' = {} PROVE Fine'
    <3>1. troubles = {} /\ Fine
      BY <1>6, <2>9 DEF IInv
    <3>2. /\ caller'[c].messages = caller[c].messages
          /\ files' = files
      <4>1. rest(i) = box.messages /\ box.messages = files[box.number]
        BY <1>7, <1>10, <3>1
      <4>. QED  BY <1>3, <2>4, <2>5, <4>1
    <3>3. ~(box.icurrent = 0 /\ i = -1)
      BY <1>2, <2>4, <2>9 DEF Troubled, TroubleIf
    <3>4. i \in 0..(Len(box.messages) - 1)
      BY <1>4, <1>10, <3>1, <3>3
    <3>5. Inside'
      BY <2>4, <3>1, <3>2, <3>4 DEF Fine, Inside
    <3>. QED  BY <1>2, <2>4, <3>1, <3>2, <3>5 DEF Fine, MailKept, UpToDate, Recorded, InBoxes, Alone
  <2>. QED  BY <1>6, <1>10, <2>7, <2>8, <2>9 DEF IInv, Sound
<1>. QED  BY <1>1, <1>8, <1>9, <1>10

(* The mail goes, and its recording with it unless it plays; it is in no    *)
(* other mailbox.                                                           *)
LEMMA deleteIInv ==
    ASSUME IInv, NEW c \in Callers, delete_current(c), troubles \subseteq Wrong
    PROVE  IInv'
<1> DEFINE box == caller[c]
           i == box.icurrent
           m == At(box.messages, i)
           rest == Without(box.messages, i)
<1>1. /\ Presses(c) /\ i # NoIndex
      /\ UNCHANGED <<mails, delivered>>
      /\ \/ /\ IsIndex(box.messages, i)
            /\ caller' = [caller EXCEPT ![c].messages = rest]
            /\ Writes(box.number, rest) /\ Removes(m)
            /\ deleted' = deleted \cup {m}
            /\ Troubled(TroubleIf(~IsIndex(rest, i), "beyond"))
            /\ UNCHANGED error
         \/ /\ ~IsIndex(box.messages, i) /\ Raises(c)
            /\ UNCHANGED <<wavs, deleted, troubles>>
  BY DEF delete_current
<1>2. /\ caller \in [Callers -> CallerType] /\ box \in CallerType
      /\ box.messages \in Seq(Mail) /\ Descends(box.messages)
      /\ Range(box.messages) \subseteq delivered
      /\ Len(box.messages) \in 0..MaxMails /\ MaxMails \in Nat
      /\ files \in [Numbers -> Seq(Mail)] /\ box.number \in Numbers
      /\ box.phase = "online"
  BY <1>1, BoxType DEF IInv, Sound, TypeOK, CallerType, Presses, Listens
<1>a. i \in Int
  BY <1>2 DEF CallerType
<1>3. troubles = {} => i \in 0..(Len(box.messages) - 1)
  BY <1>1, <1>2 DEF IInv, Fine, Inside
<1>4. counts' \in [calls : 0..MaxCalls, keys : 0..MaxKeys]
  BY <1>1, PressesCounts
<1>. HIDE DEF i
<1>5. CASE ~IsIndex(box.messages, i) /\ Raises(c) /\ UNCHANGED <<wavs, deleted, troubles>>
  <2>1. troubles # {}
    BY <1>2, <1>a, <1>3, <1>5 DEF IsIndex
  <2>2. troubles \cap Wrong # {}
    BY <2>1
  <2>3. troubles \subseteq Troubles
    BY DEF IInv, Sound, TypeOK
  <2>. QED  BY <1>1, <1>4, <1>5, <2>2, <2>3, RaisesIInv
<1>6. CASE /\ IsIndex(box.messages, i)
           /\ caller' = [caller EXCEPT ![c].messages = rest]
           /\ Writes(box.number, rest) /\ Removes(m)
           /\ deleted' = deleted \cup {m}
           /\ Troubled(TroubleIf(~IsIndex(rest, i), "beyond"))
           /\ UNCHANGED error
  <2>1. /\ m \in Range(box.messages)
        /\ rest \in Seq(Mail) /\ Descends(rest)
        /\ Range(rest) = Range(box.messages) \ {m}
    BY <1>2, <1>a, <1>6, WithoutOne
  <2>. HIDE DEF m, rest
  <2>2. /\ caller'[c] = [box EXCEPT !.messages = rest]
        /\ \A d \in Callers : d # c => caller'[d] = caller[d]
    BY <1>2, <1>6
  <2>3. /\ caller'[c].messages = rest
        /\ \A d \in Callers : /\ caller'[d].number = caller[d].number
                              /\ caller'[d].dialog = caller[d].dialog
                              /\ caller'[d].phase = caller[d].phase
                              /\ caller'[d].icurrent = caller[d].icurrent
                              /\ d # c => caller'[d] = caller[d]
    BY <2>2, <1>2 DEF CallerType
  <2>4. /\ files' \in [Numbers -> Seq(Mail)] /\ files'[box.number] = rest
        /\ \A n \in Numbers : n # box.number => files'[n] = files[n]
    BY <1>2, <1>6, <2>1 DEF Writes
  <2>5. troubles \subseteq troubles' /\ troubles' \subseteq Troubles
    BY <1>6 DEF Troubled, IInv, Sound, TypeOK
  <2>6. wavs' \in {wavs, wavs \ {m}}
    BY <1>6 DEF Removes
  <2>7. TypeOK'
    <3>1. caller'[c] \in CallerType
      BY <1>2, <2>1, <2>2 DEF CallerType
    <3>2. caller' \in [Callers -> CallerType]
      BY <1>2, <1>6, <2>2, <3>1
    <3>3. deleted' \subseteq delivered' /\ wavs' \subseteq Mail
      BY <1>1, <1>2, <1>6, <2>1, <2>6 DEF IInv, Sound, TypeOK
    <3>. QED  BY <1>1, <1>4, <1>6, <2>3, <2>4, <2>5, <3>2, <3>3 DEF IInv, Sound, TypeOK
  <2>8. Boxes'
    <3>1. IsBox(box.messages, box.number)
      BY DEF IInv, Boxes
    <3>2. IsBox(rest, box.number)
      BY <2>1, <3>1 DEF IsBox
    <3>3. \A n \in Numbers : IsBox(files[n], n)
      BY DEF IInv, Boxes
    <3>4. \A d \in Callers : IsBox(caller[d].messages, caller[d].number)
      BY DEF IInv, Boxes
    <3>5. \A n \in Numbers : files'[n] \in Seq(Mail) /\ Descends(files'[n])
            /\ \A k \in Range(files'[n]) : k \in delivered /\ mails[k].to = n
      BY <2>4, <3>2, <3>3 DEF IsBox
    <3>6. \A d \in Callers :
            /\ caller'[d].messages \in Seq(Mail) /\ Descends(caller'[d].messages)
            /\ \A k \in Range(caller'[d].messages) :
                   k \in delivered /\ mails[k].to = caller'[d].number
      BY <2>3, <3>2, <3>4 DEF IsBox
    <3>7. \A n \in Numbers : IsBox(files[n], n)'
      BY <1>1, <3>5 DEF IsBox
    <3>8. \A d \in Callers : IsBox(caller[d].messages, caller[d].number)'
      BY <1>1, <3>6 DEF IsBox
    <3>. QED  BY <1>1, <2>3, <3>7, <3>8 DEF IInv, Boxes
  <2>9. ASSUME troubles' = {} PROVE Fine'
    <3>1. troubles = {} /\ Fine
      BY <2>5, <2>9 DEF IInv
    <3>2. /\ box.messages = files[box.number]
          /\ \A d \in Callers : d # c /\ caller[d].phase # "away" =>
                 caller[d].number # box.number
      BY <1>2, <3>1 DEF Fine, UpToDate, Alone
    <3>3. \A n \in Numbers : Range(files'[n]) = Range(files[n]) \ {m}
      <4>1. SUFFICES ASSUME NEW n \in Numbers, n # box.number
                     PROVE  m \notin Range(files[n])
        BY <2>1, <2>4, <3>2
      <4>2. mails[m].to = box.number
        BY <2>1 DEF IInv, Boxes, IsBox
      <4>. QED  BY <4>1, <4>2 DEF IInv, Boxes, IsBox
    <3>4. MailKept'
      <4>1. ASSUME NEW k \in delivered' \ deleted'
            PROVE  k \in Range(files'[mails'[k].to])
        <5>1. k \in delivered \ deleted /\ k # m
          BY <1>1, <1>6, <4>1
        <5>2. k \in Range(files[mails[k].to])
          BY <3>1, <5>1 DEF Fine, MailKept
        <5>3. mails[k].to \in Numbers
          BY <5>1, MailsType DEF IInv, Boxes
        <5>. QED  BY <1>1, <3>3, <5>1, <5>2, <5>3
      <4>. QED  BY <4>1 DEF MailKept
    <3>5. UpToDate'
      <4>1. SUFFICES ASSUME NEW d \in Callers, caller'[d].phase # "away"
                     PROVE  caller'[d].messages = files'[caller'[d].number]
        BY DEF UpToDate
      <4>2. CASE d = c
        BY <2>3, <2>4, <4>2
      <4>3. CASE d # c
        <5>1. /\ caller'[d] = caller[d] /\ caller[d].number # box.number
              /\ caller[d].number \in Numbers
          BY <1>2, <2>3, <3>2, <4>1, <4>3 DEF CallerType
        <5>2. caller[d].messages = files[caller[d].number]
          BY <3>1, <4>1, <5>1 DEF Fine, UpToDate
        <5>. QED  BY <2>4, <5>1, <5>2
      <4>. QED  BY <4>2, <4>3
    <3>6. Recorded'
      <4>1. \A k : k \in InBoxes' <=> k \in InBoxes /\ k # m
        BY <3>3 DEF InBoxes
      <4>. QED  BY <4>1, <1>6, <2>6, <3>1 DEF Fine, Recorded
    <3>7. Inside'
      <4>1. IsIndex(rest, i)
        BY <1>6, <2>9 DEF Troubled, TroubleIf
      <4>2. Len(rest) \in Nat
        BY <2>1
      <4>3. i \in 0..(Len(rest) - 1)
        BY <1>2, <1>a, <1>3, <3>1, <4>1, <4>2 DEF IsIndex
      <4>. QED  BY <2>3, <3>1, <4>3 DEF Fine, Inside, i
    <3>8. Alone'
      BY <2>3, <3>1 DEF Fine, Alone
    <3>. QED  BY <3>4, <3>5, <3>6, <3>7, <3>8 DEF Fine
  <2>. QED  BY <1>6, <2>5, <2>7, <2>8, <2>9 DEF IInv, Sound
<1>. QED  BY <1>1, <1>5, <1>6

----------------------------------------------------------------------------
(*                             The theorems                                 *)

LEMMA NextIInv == IInv /\ [Next]_vars => IInv'
<1> SUFFICES ASSUME IInv, [Next]_vars PROVE IInv'
  OBVIOUS
<1>1. CASE UNCHANGED vars
  BY <1>1, StutterIInv
<1>2. CASE Next
  <2>1. PICK c \in Callers :
            \/ ACPT(c) \/ RDIS(c) \/ MLCA(c)
            \/ LSTN(c) \/ starhash(c) \/ reset(c)
            \/ /\ troubles \subseteq Wrong
               /\ (browse(c) \/ Reply(c) \/ delete_current(c))
    BY <1>2 DEF Next, Wrong
  <2>2. CASE ACPT(c)
    BY <2>2, ACPTIInv
  <2>3. CASE RDIS(c)
    BY <2>3, RDISIInv
  <2>4. CASE MLCA(c)
    BY <2>4, MLCAIInv
  <2>5. CASE LSTN(c)
    BY <2>5, LSTNIInv
  <2>6. CASE starhash(c)
    BY <2>6, starhashIInv
  <2>7. CASE reset(c)
    BY <2>7, resetIInv
  <2>8. CASE troubles \subseteq Wrong /\ browse(c)
    BY <2>8, browseIInv
  <2>9. CASE troubles \subseteq Wrong /\ Reply(c)
    BY <2>9, ReplyIInv
  <2>10. CASE troubles \subseteq Wrong /\ delete_current(c)
    BY <2>10, deleteIInv
  <2>. QED
    BY <2>1, <2>2, <2>3, <2>4, <2>5, <2>6, <2>7, <2>8, <2>9, <2>10
<1>. QED  BY <1>1, <1>2

LEMMA IInvHolds == Spec => []IInv
<1>1. Init => IInv
  BY InitIInv
<1>2. IInv /\ [Next]_vars => IInv'
  BY NextIInv
<1>. QED  BY <1>1, <1>2, PTL DEF Spec

(* Types, and no key asks for a mail beyond a mailbox (C_Office.browse,     *)
(* delete_current) unless the index was wrapped or left behind, or a call   *)
(* with the same number deletes mail.                                       *)
THEOREM Soundness == Spec => []Sound
<1>1. IInv => Sound
  BY DEF IInv
<1>. QED  BY <1>1, IInvHolds, PTL

(* Mail that was handed over is in the file of its receiver until the       *)
(* receiver deletes it (MailDialog.MLCA, Mailbox.write), what callers       *)
(* browse is what is there, every mail has its recording, and what          *)
(* delete_current leaks never plays again.                                  *)
THEOREM NoMailIsLost == Spec => []NothingLost
<1>1. IInv => NothingLost
  BY DEF IInv, Fine, NothingLost, UpToDate, Recorded, InBoxes
<1>. QED  BY <1>1, IInvHolds, PTL
===================================================================================
