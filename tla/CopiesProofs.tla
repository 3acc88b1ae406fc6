---------------------------- MODULE CopiesProofs ----------------------------
(* Proofs about parts that keep a copy of something and answer from it: what risk control has in
   memory and in its file (RiskControl), the prices that are cached and the pauses that are
   remembered of a database (ReferencePrices), and what the page of traffic capture has of it
   (Capture). *)
EXTENDS RiskControl, ReferencePrices, Capture, FiniteSetTheorems, SequenceTheorems, WellFoundedInduction, NaturalsInduction, TLAPS

(* Every nonempty set of numbers has a least element. *)
LEMMA SomeIsLeast ==
    ASSUME NEW S \in SUBSET Nat, S # {}
    PROVE  \E m \in S : \A n \in S : m <= n
<1> DEFINE R == OpToRel(<, Nat)
<1>1. R = {p \in Nat \X Nat : p[1] < p[2]} BY DEF OpToRel
<1>2. IsWellFoundedOn(R, Nat) BY NatLessThanWellFounded
<1>3. PICK m \in S : \A n \in S : <<n, m>> \notin R
  <2> HIDE DEF R
  <2> QED BY <1>2, WFMin
<1>4. ASSUME NEW n \in S PROVE m <= n
  <2>1. <<n, m>> \in Nat \X Nat /\ <<n, m>>[1] = n /\ <<n, m>>[2] = m OBVIOUS
  <2>2. ~(n < m) BY <1>1, <1>3, <2>1
  <2> QED BY <2>2
<1> QED BY <1>4

RiskEvent == [age : Nat, reason : {"none", "hash", "keyword", "unread"},
              decision : {"blocked", "observed", "not_inspected"}]

\* Events are in the order they were recorded.
Ordered(e) == \A i, j \in 1..Len(e) : i <= j => e[j].age <= e[i].age

\* The newest events, counted from the last; what of them is still shown.
Nth(e, j) == e[Len(e) + 1 - j]
Fresh(e, j) == j \in 1..Len(e) /\ Nth(e, j).age <= Retention
SameShown(e, f, n) == \A j \in 1..n : /\ Fresh(e, j) <=> Fresh(f, j)
                                      /\ Fresh(e, j) => Nth(e, j) = Nth(f, j)
Shown(e, n) == Newest(Unexpired(e), n)

(* In order, the events that have not expired are the last ones. *)
LEMMA UnexpiredIsSuffix ==
    ASSUME NEW e \in Seq(RiskEvent), Ordered(e)
    PROVE  \E k \in 0..Len(e) :
             /\ Unexpired(e) \in Seq(RiskEvent) /\ Len(Unexpired(e)) = Len(e) - k
             /\ \A i \in 1..Len(e) : e[i].age <= Retention <=> i > k
             /\ \A i \in 1..(Len(e) - k) : Unexpired(e)[i] = e[k + i]
<1> DEFINE kept == {i \in DOMAIN e : e[i].age <= Retention}
<1>1. /\ Len(e) \in Nat /\ DOMAIN e = 1..Len(e) /\ Retention \in Nat
      /\ \A i \in 1..Len(e) : e[i] \in RiskEvent /\ e[i].age \in Nat
  <2>1. Len(e) \in Nat /\ DOMAIN e = 1..Len(e) /\ \A i \in 1..Len(e) : e[i] \in RiskEvent OBVIOUS
  <2>2. \A x \in RiskEvent : x.age \in Nat BY DEF RiskEvent
  <2> QED BY <2>1, <2>2, RiskAssumption
<1>2. PICK k \in 0..Len(e) : kept = (k + 1)..Len(e)
  <2>1. CASE kept = {} BY <1>1, <2>1
  <2>2. CASE kept # {}
    <3>1. kept \in SUBSET Nat BY <1>1
    <3>2. PICK m \in kept : \A i \in kept : m <= i
      <4> HIDE DEF kept
      <4> QED BY <2>2, <3>1, SomeIsLeast
    <3>3. m - 1 \in 0..Len(e) /\ \A i \in kept : i \in m..Len(e) BY <1>1, <3>2
    <3>4. ASSUME NEW i \in m..Len(e) PROVE i \in kept
      <4>1. m \in 1..Len(e) /\ i \in 1..Len(e) /\ m <= i /\ e[m].age <= Retention BY <1>1, <3>2
      <4>2. e[i].age <= e[m].age BY <4>1 DEF Ordered
      <4> QED BY <1>1, <4>1, <4>2
    <3>5. kept = ((m - 1) + 1)..Len(e)
      <4>1. kept = m..Len(e) BY <3>3, <3>4
      <4>2. (m - 1) + 1 = m BY <3>1, <3>2
      <4> QED BY <4>1, <4>2
    <3> QED BY <3>3, <3>5
  <2> QED BY <2>1, <2>2
<1>3. Cardinality(kept) = Len(e) - k
  <2>1. k + 1 \in Int /\ Len(e) \in Int /\ k \in Int /\ k <= Len(e) BY <1>1
  <2>2. Cardinality((k + 1)..Len(e)) = IF k + 1 > Len(e) THEN 0 ELSE Len(e) - (k + 1) + 1 BY <2>1, FS_Interval
  <2> HIDE DEF kept
  <2> QED BY <1>2, <2>1, <2>2
<1>4. ASSUME NEW n \in 1..(Len(e) - k) PROVE (CHOOSE i \in kept : Cardinality(kept \cap 1..i) = n) = k + n
  <2>1. ASSUME NEW i \in kept PROVE Cardinality(kept \cap 1..i) = i - k
    <3>1. kept \cap 1..i = (k + 1)..i BY <1>1, <1>2
    <3>2. k + 1 \in Int /\ i \in Int /\ k \in Int /\ k + 1 <= i BY <1>1, <1>2
    <3>3. Cardinality((k + 1)..i) = IF k + 1 > i THEN 0 ELSE i - (k + 1) + 1 BY <3>2, FS_Interval
    <3>4. Cardinality((k + 1)..i) = i - k BY <3>2, <3>3
    <3> HIDE DEF kept
    <3> QED BY <3>1, <3>4, Zenon
  <2>2. k + n \in kept BY <1>1, <1>2
  <2> HIDE DEF kept
  <2>3. \A i \in kept : i \in Int BY <1>1, <1>2
  <2> QED BY <1>1, <2>1, <2>2, <2>3
<1>5. Unexpired(e) = [n \in 1..(Len(e) - k) |-> e[k + n]]
  <2>1. Unexpired(e) = [n \in 1..Cardinality(kept) |-> e[CHOOSE i \in kept : Cardinality(kept \cap 1..i) = n]]
      BY DEF Unexpired
  <2> HIDE DEF kept
  <2> QED BY <1>3, <1>4, <2>1
<1>6. \A i \in 1..Len(e) : e[i].age <= Retention <=> i > k BY <1>1, <1>2
<1>7. \A n \in 1..(Len(e) - k) : e[k + n] \in RiskEvent BY <1>1
<1>8. Len(e) - k \in Nat BY <1>1
<1> HIDE DEF kept
<1>9. Unexpired(e) \in Seq(RiskEvent) BY <1>5, <1>7, <1>8, IsASeq
<1> QED BY <1>5, <1>6, <1>8, <1>9

(* What is shown: the newest that have not expired, as many as the policy keeps. *)
LEMMA ShownAre ==
    ASSUME NEW e \in Seq(RiskEvent), Ordered(e), NEW n \in Nat
    PROVE  LET p == Shown(e, n) IN
           /\ p \in Seq(RiskEvent) /\ Ordered(p) /\ Len(p) <= n /\ Len(p) <= Len(e)
           /\ \A j \in 1..n : Fresh(e, j) <=> j \in 1..Len(p)
           /\ \A j \in 1..Len(p) : Nth(p, j) = Nth(e, j)
<1>1. PICK k \in 0..Len(e) :
        /\ Unexpired(e) \in Seq(RiskEvent) /\ Len(Unexpired(e)) = Len(e) - k
        /\ \A i \in 1..Len(e) : e[i].age <= Retention <=> i > k
        /\ \A i \in 1..(Len(e) - k) : Unexpired(e)[i] = e[k + i]
    BY UnexpiredIsSuffix
<1>2. PICK u : u = Unexpired(e) OBVIOUS
<1>3. PICK p : p = Shown(e, n) OBVIOUS
<1> DEFINE s == IF Len(u) > n THEN Len(u) - n ELSE 0
<1>4. p = SubSeq(u, s + 1, Len(u)) BY <1>2, <1>3 DEF Shown, Newest
<1>5. Len(e) \in Nat /\ Len(u) = Len(e) - k /\ s \in 0..Len(u) /\ Len(u) - s <= n /\ (s > 0 => Len(u) - s = n)
    BY <1>1, <1>2
<1>6. \A i \in (s + 1)..Len(u) : u[i] \in RiskEvent BY <1>1, <1>2, <1>5
<1> HIDE DEF s
<1>7. /\ p \in Seq(RiskEvent) /\ Len(p) = Len(u) - s
      /\ \A i \in 1..Len(p) : p[i] = u[s + i]
  <2>1. s + 1 \in Int /\ Len(u) \in Int BY <1>5
  <2>2. /\ SubSeq(u, s + 1, Len(u)) \in Seq(RiskEvent)
        /\ Len(SubSeq(u, s + 1, Len(u))) = IF s + 1 <= Len(u) THEN Len(u) - (s + 1) + 1 ELSE 0
        /\ \A i \in 1..(Len(u) - (s + 1) + 1) : SubSeq(u, s + 1, Len(u))[i] = u[(s + 1) + i - 1]
      BY <1>6, <2>1, SubSeqProperties
  <2>3. p \in Seq(RiskEvent) /\ Len(p) = Len(u) - s
    <3>1. Len(p) = IF s + 1 <= Len(u) THEN Len(u) - (s + 1) + 1 ELSE 0 BY <1>4, <2>2
    <3>2. Len(u) \in Int /\ s \in Int /\ s <= Len(u) BY <1>5
    <3> QED BY <1>4, <2>2, <3>1, <3>2
  <2>4. ASSUME NEW i \in 1..Len(p) PROVE p[i] = u[s + i]
    <3>1. i \in 1..(Len(u) - (s + 1) + 1) /\ (s + 1) + i - 1 = s + i BY <1>5, <2>3
    <3> QED BY <1>4, <2>2, <3>1
  <2> QED BY <2>3, <2>4
<1>8. \A i \in 1..Len(p) : p[i] = e[k + s + i] /\ k + s + i \in 1..Len(e)
  <2> TAKE i \in 1..Len(p)
  <2>1. s + i \in 1..(Len(e) - k) BY <1>5, <1>7
  <2>2. u[s + i] = e[k + (s + i)] BY <1>1, <1>2, <2>1
  <2>3. k + (s + i) = k + s + i /\ k + s + i \in 1..Len(e) BY <1>5, <1>7
  <2> QED BY <1>7, <2>2, <2>3
<1>9. Ordered(p)
  <2> SUFFICES ASSUME NEW i \in 1..Len(p), NEW j \in 1..Len(p), i <= j PROVE p[j].age <= p[i].age
      BY DEF Ordered
  <2>1. k + s + i <= k + s + j BY <1>5
  <2> QED BY <1>8, <2>1 DEF Ordered
<1>10. ASSUME NEW j \in 1..n PROVE Fresh(e, j) <=> j \in 1..Len(p)
  <2>1. CASE j \in 1..Len(e)
    <3>1. Len(e) + 1 - j \in 1..Len(e) BY <1>5, <2>1
    <3>2. e[Len(e) + 1 - j].age <= Retention <=> Len(e) + 1 - j > k BY <1>1, <3>1
    <3>3. Len(e) + 1 - j > k <=> j <= Len(p) BY <1>5, <1>7, <2>1
    <3> QED BY <2>1, <3>2, <3>3, <1>5, <1>7 DEF Fresh, Nth
  <2>2. CASE j \notin 1..Len(e) BY <1>5, <1>7, <2>2 DEF Fresh
  <2> QED BY <2>1, <2>2
<1>11. ASSUME NEW j \in 1..Len(p) PROVE Nth(p, j) = Nth(e, j)
  <2>1. Len(p) + 1 - j \in 1..Len(p) /\ k + s + (Len(p) + 1 - j) = Len(e) + 1 - j BY <1>5, <1>7
  <2>2. p[Len(p) + 1 - j] = e[k + s + (Len(p) + 1 - j)] BY <1>8, <2>1
  <2> QED BY <2>1, <2>2 DEF Nth
<1>12. Len(p) <= n /\ Len(p) <= Len(e) BY <1>5, <1>7
<1> QED BY <1>3, <1>7, <1>9, <1>10, <1>11, <1>12

(* Two lists show the same when their newest events agree. *)
LEMMA ShownAgree ==
    ASSUME NEW e \in Seq(RiskEvent), Ordered(e), NEW f \in Seq(RiskEvent), Ordered(f), NEW n \in Nat
    PROVE  Shown(e, n) = Shown(f, n) <=> SameShown(e, f, n)
<1>1. PICK p : p = Shown(e, n) OBVIOUS
<1>2. PICK q : q = Shown(f, n) OBVIOUS
<1>3. /\ p \in Seq(RiskEvent) /\ Len(p) <= n
      /\ \A j \in 1..n : Fresh(e, j) <=> j \in 1..Len(p)
      /\ \A j \in 1..Len(p) : Nth(p, j) = Nth(e, j)
    BY <1>1, ShownAre
<1>4. /\ q \in Seq(RiskEvent) /\ Len(q) <= n
      /\ \A j \in 1..n : Fresh(f, j) <=> j \in 1..Len(q)
      /\ \A j \in 1..Len(q) : Nth(q, j) = Nth(f, j)
    BY <1>2, ShownAre
<1>5. Len(p) \in Nat /\ Len(q) \in Nat BY <1>3, <1>4
<1>6. p = q => SameShown(e, f, n) BY <1>3, <1>4 DEF SameShown
<1>7. ASSUME SameShown(e, f, n) PROVE p = q
  <2>1. \A j \in 1..n : j \in 1..Len(p) <=> j \in 1..Len(q) BY <1>3, <1>4, <1>7 DEF SameShown
  <2>2. Len(p) = Len(q)
    <3>1. Len(p) <= Len(q)
      <4>1. CASE Len(p) = 0 BY <1>5, <4>1
      <4>2. CASE Len(p) # 0 BY <1>3, <1>5, <2>1, <4>2
      <4> QED BY <4>1, <4>2
    <3>2. Len(q) <= Len(p)
      <4>1. CASE Len(q) = 0 BY <1>5, <4>1
      <4>2. CASE Len(q) # 0 BY <1>4, <1>5, <2>1, <4>2
      <4> QED BY <4>1, <4>2
    <3> QED BY <1>5, <3>1, <3>2
  <2>3. ASSUME NEW i \in 1..Len(p) PROVE p[i] = q[i]
    <3> DEFINE j == Len(p) + 1 - i
    <3>1. j \in 1..Len(p) BY <1>5
    <3>2. j \in 1..n /\ Len(p) + 1 - j = i /\ Len(q) + 1 - j = i BY <1>3, <1>5, <2>2, <3>1
    <3> HIDE DEF j
    <3>3. Nth(e, j) = Nth(f, j) BY <1>3, <1>7, <3>2 DEF SameShown
    <3>4. Nth(p, j) = Nth(q, j) BY <1>3, <1>4, <2>2, <3>1, <3>3
    <3> QED BY <3>2, <3>4 DEF Nth
  <2> QED BY <1>3, <1>4, <2>2, <2>3, SeqEqual
<1> QED BY <1>1, <1>2, <1>6, <1>7

LEMMA ShownAgain ==
    ASSUME NEW e \in Seq(RiskEvent), Ordered(e), NEW n \in Nat
    PROVE  Shown(Shown(e, n), n) = Shown(e, n)
<1>1. PICK p : p = Shown(e, n) OBVIOUS
<1>2. /\ p \in Seq(RiskEvent) /\ Ordered(p) /\ Len(p) <= n
      /\ \A j \in 1..n : Fresh(e, j) <=> j \in 1..Len(p)
      /\ \A j \in 1..Len(p) : Nth(p, j) = Nth(e, j)
    BY <1>1, ShownAre
<1>3. SameShown(p, e, n)
  <2> SUFFICES ASSUME NEW j \in 1..n
               PROVE  /\ Fresh(p, j) <=> Fresh(e, j)
                      /\ Fresh(p, j) => Nth(p, j) = Nth(e, j)
      BY DEF SameShown
  <2>1. CASE j \in 1..Len(p)
    <3>1. Nth(p, j) = Nth(e, j) /\ Fresh(e, j) BY <1>2, <2>1
    <3> QED BY <2>1, <3>1 DEF Fresh
  <2>2. CASE j \notin 1..Len(p) BY <1>2, <2>2 DEF Fresh
  <2> QED BY <2>1, <2>2
<1> QED BY <1>1, <1>2, <1>3, ShownAgree

LEMMA OlderEvents ==
    ASSUME NEW e \in Seq(RiskEvent), Ordered(e)
    PROVE  /\ Older(e) \in Seq(RiskEvent) /\ Len(Older(e)) = Len(e) /\ Ordered(Older(e))
           /\ \A i \in 1..Len(e) :
                Older(e)[i] = [e[i] EXCEPT !.age = IF e[i].age > Retention THEN e[i].age ELSE e[i].age + 1]
<1>1. Len(e) \in Nat /\ DOMAIN e = 1..Len(e) /\ Retention \in Nat /\ \A i \in 1..Len(e) : e[i] \in RiskEvent
    BY RiskAssumption
<1>2. PICK o : o = Older(e) OBVIOUS
<1>3. o = [i \in 1..Len(e) |-> [e[i] EXCEPT !.age = IF @ > Retention THEN @ ELSE @ + 1]] BY <1>1, <1>2 DEF Older
<1>4. \A i \in 1..Len(e) : o[i] = [e[i] EXCEPT !.age = IF e[i].age > Retention THEN e[i].age ELSE e[i].age + 1]
    BY <1>3
<1>5. \A x \in RiskEvent : [x EXCEPT !.age = IF x.age > Retention THEN x.age ELSE x.age + 1] \in RiskEvent
    BY <1>1 DEF RiskEvent
<1>6. \A i \in 1..Len(e) : o[i] \in RiskEvent BY <1>1, <1>4, <1>5
<1>7. o \in Seq(RiskEvent) /\ Len(o) = Len(e)
  <2>1. o = [i \in 1..Len(e) |-> o[i]] BY <1>3
  <2>2. [i \in 1..Len(e) |-> o[i]] \in Seq(RiskEvent) BY <1>1, <1>6, IsASeq
  <2>3. o \in Seq(RiskEvent) BY <2>1, <2>2
  <2>4. DOMAIN o = 1..Len(e) BY <1>3
  <2> QED BY <1>1, <2>3, <2>4
<1>8. Ordered(o)
  <2> SUFFICES ASSUME NEW i \in 1..Len(e), NEW j \in 1..Len(e), i <= j PROVE o[j].age <= o[i].age
      BY <1>7 DEF Ordered
  <2>1. e[j].age <= e[i].age /\ e[j].age \in Nat /\ e[i].age \in Nat BY <1>1 DEF Ordered, RiskEvent
  <2>2. /\ o[i].age = IF e[i].age > Retention THEN e[i].age ELSE e[i].age + 1
        /\ o[j].age = IF e[j].age > Retention THEN e[j].age ELSE e[j].age + 1
      BY <1>1, <1>4 DEF RiskEvent
  <2> QED BY <1>1, <2>1, <2>2
<1> QED BY <1>2, <1>4, <1>7, <1>8

(* Two lists that show the same show the same a day later. *)
LEMMA ShownADayLater ==
    ASSUME NEW e \in Seq(RiskEvent), Ordered(e), NEW f \in Seq(RiskEvent), Ordered(f), NEW n \in Nat,
           Shown(e, n) = Shown(f, n)
    PROVE  Shown(Older(e), n) = Shown(Older(f), n)
<1>1. SameShown(e, f, n) BY ShownAgree
<1>2. Retention \in Nat BY RiskAssumption
<1>3. ASSUME NEW g \in Seq(RiskEvent), Ordered(g), NEW j \in 1..n, j \in 1..Len(g)
      PROVE  /\ Nth(g, j) \in RiskEvent
             /\ Nth(Older(g), j) = [Nth(g, j) EXCEPT !.age = IF Nth(g, j).age > Retention THEN Nth(g, j).age
                                                                                         ELSE Nth(g, j).age + 1]
             /\ Fresh(Older(g), j) <=> Nth(g, j).age + 1 <= Retention
             /\ Fresh(g, j) <=> Nth(g, j).age <= Retention
  <2>1. Len(g) + 1 - j \in 1..Len(g) BY <1>3
  <2>2. Nth(g, j) \in RiskEvent BY <1>3, <2>1 DEF Nth
  <2>3. Nth(Older(g), j) = [Nth(g, j) EXCEPT !.age = IF Nth(g, j).age > Retention THEN Nth(g, j).age
                                                                                  ELSE Nth(g, j).age + 1]
      BY <1>3, <2>1, OlderEvents DEF Nth
  <2>4. Nth(Older(g), j).age = IF Nth(g, j).age > Retention THEN Nth(g, j).age ELSE Nth(g, j).age + 1
      BY <2>2, <2>3 DEF RiskEvent
  <2>5. Nth(g, j).age \in Nat BY <2>2 DEF RiskEvent
  <2>6. Len(Older(g)) = Len(g) BY <1>3, OlderEvents
  <2>7. Fresh(Older(g), j) <=> Nth(g, j).age + 1 <= Retention BY <1>2, <1>3, <2>4, <2>5, <2>6 DEF Fresh
  <2> QED BY <1>3, <2>2, <2>3, <2>7 DEF Fresh
<1>4. SameShown(Older(e), Older(f), n)
  <2> SUFFICES ASSUME NEW j \in 1..n
               PROVE  /\ Fresh(Older(e), j) <=> Fresh(Older(f), j)
                      /\ Fresh(Older(e), j) => Nth(Older(e), j) = Nth(Older(f), j)
      BY DEF SameShown
  <2>1. /\ Fresh(e, j) <=> Fresh(f, j)
        /\ Fresh(e, j) => Nth(e, j) = Nth(f, j)
      BY <1>1 DEF SameShown
  <2>2. Len(Older(e)) = Len(e) /\ Len(Older(f)) = Len(f) BY OlderEvents
  <2>3. CASE Fresh(e, j)
    <3>1. j \in 1..Len(e) /\ j \in 1..Len(f) /\ Nth(e, j) = Nth(f, j) BY <2>1, <2>3 DEF Fresh
    <3> QED BY <1>3, <3>1
  <2>4. CASE ~Fresh(e, j)
    <3>1. ASSUME NEW g \in Seq(RiskEvent), Ordered(g), Len(Older(g)) = Len(g), ~Fresh(g, j) PROVE ~Fresh(Older(g), j)
      <4>1. CASE j \in 1..Len(g)
        <5>1. Nth(g, j) \in RiskEvent BY <1>3, <3>1, <4>1
        <5>2. Nth(g, j).age \in Nat BY <5>1 DEF RiskEvent
        <5> QED BY <1>2, <1>3, <3>1, <4>1, <5>2
      <4>2. CASE j \notin 1..Len(g) BY <3>1, <4>2 DEF Fresh
      <4> QED BY <4>1, <4>2
    <3> QED BY <2>1, <2>2, <2>4, <3>1
  <2> QED BY <2>3, <2>4
<1> QED BY <1>4, OlderEvents, ShownAgree


RiskState ==
    [config : Policies \cup {DefaultPolicy}, events : {e \in Seq(RiskEvent) : Ordered(e)}, hashes : SUBSET Texts]
RiskTypeOK == riskPath \in Files /\ risk \in RiskState /\ riskFile \in [Files -> RiskState] /\ storageError \in BOOLEAN
RiskInv == RiskTypeOK /\ RiskSurvivesRestart

LEMMA PrunedStates ==
    ASSUME NEW s \in RiskState
    PROVE  /\ PrunedState(s) \in RiskState
           /\ PrunedState(s).config = s.config /\ PrunedState(s).hashes = s.hashes
           /\ PrunedState(s).events = Shown(s.events, s.config.maxEvents)
           /\ PrunedState(PrunedState(s)).events = PrunedState(s).events
<1>1. PrunedState(s) = [s EXCEPT !.events = Shown(s.events, s.config.maxEvents)] BY DEF PrunedState, Shown
<1>2. s.events \in Seq(RiskEvent) /\ Ordered(s.events) /\ s.config.maxEvents \in Nat BY RiskAssumption DEF RiskState
<1>3. PICK p : p = Shown(s.events, s.config.maxEvents) OBVIOUS
<1>4. p \in Seq(RiskEvent) /\ Ordered(p) BY <1>2, <1>3, ShownAre
<1>5. /\ PrunedState(s) \in RiskState
      /\ PrunedState(s).config = s.config /\ PrunedState(s).hashes = s.hashes
      /\ PrunedState(s).events = p
    BY <1>1, <1>3, <1>4 DEF RiskState
<1>6. PrunedState(PrunedState(s)).events = Shown(p, s.config.maxEvents)
  <2>1. PICK q \in RiskState : q = PrunedState(s) BY <1>5
  <2>2. PrunedState(q) = [q EXCEPT !.events = Shown(q.events, q.config.maxEvents)] BY DEF PrunedState, Shown
  <2> QED BY <1>5, <2>1, <2>2 DEF RiskState
<1>7. Shown(p, s.config.maxEvents) = p BY <1>2, <1>3, ShownAgain
<1> QED BY <1>3, <1>5, <1>6, <1>7

LEMMA EventAppended ==
    ASSUME NEW s \in RiskState, NEW reason \in {"none", "hash", "keyword", "unread"}, NEW text,
           NEW hashes \in SUBSET Texts
    PROVE  [s EXCEPT !.events = Append(@, EventOf(text, reason)), !.hashes = hashes] \in RiskState
<1> DEFINE e == EventOf(text, reason)
<1>1. e \in RiskEvent /\ e.age = 0 BY DEF EventOf, RiskEvent
<1>2. s.events \in Seq(RiskEvent) /\ Ordered(s.events) BY DEF RiskState
<1> HIDE DEF e
<1>3. PICK a : a = Append(s.events, e) OBVIOUS
<1>4. /\ a \in Seq(RiskEvent) /\ Len(a) = Len(s.events) + 1 /\ Len(s.events) \in Nat
      /\ \A i \in 1..Len(s.events) : a[i] = s.events[i] /\ s.events[i] \in RiskEvent
      /\ a[Len(s.events) + 1] = e
    BY <1>1, <1>2, <1>3, AppendProperties
<1>5. Ordered(a)
  <2> SUFFICES ASSUME NEW i \in 1..Len(a), NEW j \in 1..Len(a), i <= j PROVE a[j].age <= a[i].age
      BY DEF Ordered
  <2>1. \A x \in RiskEvent : x.age \in Nat BY DEF RiskEvent
  <2>2. a[i] \in RiskEvent BY <1>4
  <2>3. CASE j = Len(s.events) + 1 BY <1>1, <1>4, <2>1, <2>2, <2>3
  <2>4. CASE j # Len(s.events) + 1
    <3>1. i \in 1..Len(s.events) /\ j \in 1..Len(s.events) BY <1>4, <2>4
    <3>2. s.events[j].age <= s.events[i].age BY <1>2, <3>1 DEF Ordered
    <3> QED BY <1>4, <3>1, <3>2
  <2> QED BY <2>3, <2>4
<1>6. [s EXCEPT !.events = a, !.hashes = hashes] \in RiskState BY <1>4, <1>5 DEF RiskState
<1> QED BY <1>3, <1>6 DEF e

LEMMA Aged ==
    ASSUME NEW s \in RiskState, NEW t \in RiskState
    PROVE  LET a == [s EXCEPT !.events = Older(@)]
               b == [t EXCEPT !.events = Older(@)]
           IN /\ a \in RiskState /\ a.config = s.config /\ a.hashes = s.hashes
              /\ s.config = t.config /\ PrunedState(s).events = PrunedState(t).events =>
                    PrunedState(a).events = PrunedState(b).events
<1>1. ASSUME NEW u \in RiskState
      PROVE  LET a == [u EXCEPT !.events = Older(@)] IN
             /\ u.events \in Seq(RiskEvent) /\ Ordered(u.events) /\ u.config.maxEvents \in Nat
             /\ a \in RiskState /\ a.config = u.config /\ a.hashes = u.hashes
             /\ PrunedState(a).events = Shown(Older(u.events), u.config.maxEvents)
             /\ PrunedState(u).events = Shown(u.events, u.config.maxEvents)
  <2>1. PICK o : o = Older(u.events) OBVIOUS
  <2>2. u.events \in Seq(RiskEvent) /\ Ordered(u.events) /\ u.config.maxEvents \in Nat
      BY RiskAssumption DEF RiskState
  <2>3. o \in Seq(RiskEvent) /\ Ordered(o) BY <2>1, <2>2, OlderEvents
  <2>4. PICK a : a = [u EXCEPT !.events = o] OBVIOUS
  <2>5. a \in RiskState /\ a.config = u.config /\ a.hashes = u.hashes /\ a.events = o BY <2>3, <2>4 DEF RiskState
  <2> QED BY <2>1, <2>2, <2>4, <2>5, PrunedStates
<1>2. s.config = t.config /\ PrunedState(s).events = PrunedState(t).events =>
        Shown(Older(s.events), s.config.maxEvents) = Shown(Older(t.events), t.config.maxEvents)
  <2> SUFFICES ASSUME s.config = t.config, PrunedState(s).events = PrunedState(t).events
               PROVE  Shown(Older(s.events), s.config.maxEvents) = Shown(Older(t.events), t.config.maxEvents)
      OBVIOUS
  <2>1. /\ s.events \in Seq(RiskEvent) /\ Ordered(s.events) /\ s.config.maxEvents \in Nat
        /\ PrunedState(s).events = Shown(s.events, s.config.maxEvents)
      BY <1>1
  <2>2. /\ t.events \in Seq(RiskEvent) /\ Ordered(t.events)
        /\ PrunedState(t).events = Shown(t.events, s.config.maxEvents)
      BY <1>1
  <2>3. Shown(s.events, s.config.maxEvents) = Shown(t.events, s.config.maxEvents) BY <2>1, <2>2
  <2>4. Shown(Older(s.events), s.config.maxEvents) = Shown(Older(t.events), s.config.maxEvents)
      BY <2>1, <2>2, <2>3, ShownADayLater
  <2> QED BY <2>4
<1> QED BY <1>1, <1>2

LEMMA RiskInvInit == RiskInit => RiskInv
<1> SUFFICES ASSUME RiskInit PROVE RiskInv OBVIOUS
<1>1. riskPath \in Files BY RiskAssumption DEF RiskInit
<1>2. NoEvents \in RiskState
  <2>1. <<>> \in Seq(RiskEvent) /\ Len(<<>>) = 0 BY EmptySeq
  <2>2. Ordered(<<>>) BY <2>1 DEF Ordered
  <2> QED BY <2>1, <2>2 DEF NoEvents, RiskState
<1>3. risk = NoEvents /\ riskFile = [f \in Files |-> NoEvents] /\ storageError = FALSE /\ flagged = {}
    BY DEF RiskInit
<1> HIDE DEF NoEvents
<1> QED BY <1>1, <1>2, <1>3 DEF RiskInv, RiskTypeOK, RiskSurvivesRestart

(* An inspection records in memory and, unless its save failed, in the file. *)
LEMMA InspectedInv ==
    ASSUME RiskInv, NEW text, NEW reason \in {"none", "hash", "keyword", "unread"}, NEW hashes \in SUBSET Texts,
           risk.hashes \subseteq hashes, NEW written \in BOOLEAN,
           risk' = PrunedState([risk EXCEPT !.events = Append(@, EventOf(text, reason)), !.hashes = hashes]),
           storageError' = ~written, IF written THEN Write(risk') ELSE UNCHANGED riskFile,
           flagged' \subseteq hashes, riskPath' = riskPath
    PROVE  RiskInv'
<1>1. RiskTypeOK /\ RiskSurvivesRestart BY DEF RiskInv
<1>2. PICK s : s = [risk EXCEPT !.events = Append(@, EventOf(text, reason)), !.hashes = hashes] OBVIOUS
<1>3. s \in RiskState BY <1>1, <1>2, EventAppended DEF RiskTypeOK
<1>4. s.config = risk.config /\ s.hashes = hashes BY <1>1, <1>2 DEF RiskTypeOK, RiskState
<1>5. risk' \in RiskState /\ risk'.config = risk.config /\ risk'.hashes = hashes
    BY <1>2, <1>3, <1>4, PrunedStates
<1>6. CASE written
  <2>1. riskFile' = [riskFile EXCEPT ![riskPath] = risk'] BY <1>6 DEF Write
  <2>2. riskFile' \in [Files -> RiskState] /\ riskFile'[riskPath] = risk' BY <1>1, <1>5, <2>1 DEF RiskTypeOK
  <2> QED BY <1>1, <1>5, <1>6, <2>2 DEF RiskInv, RiskTypeOK, RiskSurvivesRestart
<1>7. CASE ~written
  <2>1. riskFile' = riskFile /\ storageError' = TRUE BY <1>7
  <2> QED BY <1>1, <1>5, <2>1 DEF RiskInv, RiskTypeOK, RiskSurvivesRestart
<1> QED BY <1>6, <1>7

LEMMA RiskInvStep == RiskInv /\ [RiskNext]_riskVars => RiskInv'
<1> SUFFICES ASSUME RiskInv, [RiskNext]_riskVars PROVE RiskInv' OBVIOUS
<1>1. RiskTypeOK /\ RiskSurvivesRestart BY DEF RiskInv
<1>2. ASSUME NEW written \in BOOLEAN, InspectUnread(written) PROVE RiskInv'
  <2>1. risk \in RiskState BY <1>1 DEF RiskTypeOK
  <2>2. risk.hashes \in SUBSET Texts BY <2>1 DEF RiskState
  <2>3. [risk EXCEPT !.events = Append(@, EventOf("", "unread"))] =
          [risk EXCEPT !.events = Append(@, EventOf("", "unread")), !.hashes = risk.hashes]
      BY <2>1 DEF RiskState
  <2>4. /\ risk' = PrunedState([risk EXCEPT !.events = Append(@, EventOf("", "unread")), !.hashes = risk.hashes])
        /\ storageError' = ~written /\ riskPath' = riskPath /\ flagged' = flagged
        /\ IF written THEN Write(risk') ELSE UNCHANGED riskFile
      BY <1>2, <2>3 DEF InspectUnread
  <2>5. flagged' \subseteq risk.hashes BY <1>1, <2>4 DEF RiskSurvivesRestart
  <2> QED BY <2>2, <2>4, <2>5, InspectedInv
<1>3. ASSUME NEW written \in BOOLEAN, NEW text \in Texts, Inspect(text, written) PROVE RiskInv'
  <2>1. risk \in RiskState BY <1>1 DEF RiskTypeOK
  <2>2. PICK reason \in {"none", "hash", "keyword"} : reason = Reason(text) BY DEF Reason
  <2>3. PICK hashes : hashes = IF Remembers(text, reason) THEN risk.hashes \cup {text} ELSE risk.hashes OBVIOUS
  <2>4. hashes \in SUBSET Texts /\ risk.hashes \subseteq hashes BY <2>1, <2>3 DEF RiskState
  <2>5. /\ risk' = PrunedState([risk EXCEPT !.events = Append(@, EventOf(text, reason)), !.hashes = hashes])
        /\ storageError' = ~written /\ riskPath' = riskPath
        /\ flagged' = IF Remembers(text, reason) THEN flagged \cup {text} ELSE flagged
        /\ IF written THEN Write(risk') ELSE UNCHANGED riskFile
      BY <1>3, <2>2, <2>3 DEF Inspect, Recorded
  <2>6. flagged' \subseteq hashes BY <1>1, <2>3, <2>5 DEF RiskSurvivesRestart
  <2> QED BY <2>2, <2>4, <2>5, <2>6, InspectedInv
<1>4. ASSUME NEW next \in RiskState, SaveCommand(next, TRUE), riskPath' = riskPath, flagged' \subseteq next.hashes
      PROVE  RiskInv'
  <2>1. /\ riskFile' = [riskFile EXCEPT ![riskPath] = next]
        /\ risk' = next /\ storageError' = FALSE
      BY <1>4 DEF SaveCommand, Write
  <2>2. riskFile' \in [Files -> RiskState] /\ riskFile'[riskPath] = next BY <1>1, <2>1 DEF RiskTypeOK
  <2> QED BY <1>1, <1>4, <2>1, <2>2 DEF RiskInv, RiskTypeOK, RiskSurvivesRestart
<1>5. ASSUME NEW written \in BOOLEAN, NEW policy \in Policies, SetRiskConfig(policy, written) PROVE RiskInv'
  <2>1. [risk EXCEPT !.config = policy] \in RiskState /\ [risk EXCEPT !.config = policy].hashes = risk.hashes
      BY <1>1 DEF RiskTypeOK, RiskState
  <2>2. SaveCommand([risk EXCEPT !.config = policy], TRUE) /\ riskPath' = riskPath /\ flagged' = flagged
      BY <1>5 DEF SetRiskConfig, SaveCommand
  <2>3. flagged' \subseteq risk.hashes BY <1>1, <2>2 DEF RiskSurvivesRestart
  <2> QED BY <1>4, <2>1, <2>2, <2>3
<1>6. ASSUME NEW written \in BOOLEAN, NEW hashes \in BOOLEAN, ClearRisk(hashes, written) PROVE RiskInv'
  <2>1. risk \in RiskState BY <1>1 DEF RiskTypeOK
  <2>2. CASE hashes
    <3>1. [risk EXCEPT !.hashes = {}] \in RiskState BY <2>1 DEF RiskState
    <3>2. SaveCommand([risk EXCEPT !.hashes = {}], TRUE) /\ riskPath' = riskPath /\ flagged' = {}
        BY <1>6, <2>2 DEF ClearRisk, SaveCommand
    <3> QED BY <1>4, <3>1, <3>2
  <2>3. CASE ~hashes
    <3>1. [risk EXCEPT !.events = <<>>] \in RiskState /\ [risk EXCEPT !.events = <<>>].hashes = risk.hashes
      <4>1. <<>> \in Seq(RiskEvent) /\ Len(<<>>) = 0 BY EmptySeq
      <4>2. Ordered(<<>>) BY <4>1 DEF Ordered
      <4> QED BY <2>1, <4>1, <4>2 DEF RiskState
    <3>2. SaveCommand([risk EXCEPT !.events = <<>>], TRUE) /\ riskPath' = riskPath /\ flagged' = flagged
        BY <1>6, <2>3 DEF ClearRisk, SaveCommand
    <3>3. flagged' \subseteq risk.hashes BY <1>1, <3>2 DEF RiskSurvivesRestart
    <3> QED BY <1>4, <3>1, <3>2, <3>3
  <2> QED BY <2>2, <2>3
<1>7. ASSUME GetRiskCenter PROVE RiskInv'
  <2>1. risk' = PrunedState(risk) /\ UNCHANGED <<riskPath, storageError, riskFile, flagged>>
      BY <1>7 DEF GetRiskCenter
  <2>2. risk' \in RiskState /\ risk'.config = risk.config /\ risk'.hashes = risk.hashes
        /\ PrunedState(risk').events = PrunedState(risk).events
      BY <1>1, <2>1, PrunedStates DEF RiskTypeOK
  <2> QED BY <1>1, <2>1, <2>2 DEF RiskInv, RiskTypeOK, RiskSurvivesRestart
<1>8. ASSUME NEW f \in Files, Load(f), UNCHANGED riskFile PROVE RiskInv'
    BY <1>1, <1>8 DEF Load, RiskInv, RiskTypeOK, RiskSurvivesRestart
<1>9. ASSUME DayPasses PROVE RiskInv'
  <2>1. /\ risk' = [risk EXCEPT !.events = Older(@)]
        /\ riskFile' = [f \in Files |-> [riskFile[f] EXCEPT !.events = Older(@)]]
        /\ UNCHANGED <<riskPath, storageError, flagged>>
      BY <1>9 DEF DayPasses
  <2>2. risk \in RiskState /\ riskFile[riskPath] \in RiskState /\ \A f \in Files : riskFile[f] \in RiskState
      BY <1>1 DEF RiskTypeOK
  <2>3. riskFile' \in [Files -> RiskState]
    <3>1. \A f \in Files : [riskFile[f] EXCEPT !.events = Older(@)] \in RiskState BY <2>2, Aged
    <3> QED BY <2>1, <3>1
  <2>4. riskFile'[riskPath] = [riskFile[riskPath] EXCEPT !.events = Older(@)] BY <1>1, <2>1 DEF RiskTypeOK
  <2>5. /\ risk' \in RiskState /\ risk'.config = risk.config /\ risk'.hashes = risk.hashes
        /\ riskFile'[riskPath].config = riskFile[riskPath].config
        /\ riskFile'[riskPath].hashes = riskFile[riskPath].hashes
        /\ risk.config = riskFile[riskPath].config /\ PrunedState(risk).events = PrunedState(riskFile[riskPath]).events =>
              PrunedState(risk').events = PrunedState(riskFile'[riskPath]).events
    <3>1. PICK s \in RiskState : s = risk BY <2>2
    <3>2. PICK t \in RiskState : t = riskFile[riskPath] BY <2>2
    <3>3. risk' = [s EXCEPT !.events = Older(@)] BY <2>1, <3>1
    <3>4. riskFile'[riskPath] = [t EXCEPT !.events = Older(@)] BY <2>4, <3>2
    <3>5. /\ risk' \in RiskState /\ risk'.config = s.config /\ risk'.hashes = s.hashes
          /\ s.config = t.config /\ PrunedState(s).events = PrunedState(t).events =>
                PrunedState(risk').events = PrunedState(riskFile'[riskPath]).events
        BY <3>3, <3>4, Aged
    <3>6. riskFile'[riskPath].config = t.config /\ riskFile'[riskPath].hashes = t.hashes BY <3>4, Aged
    <3> QED BY <3>1, <3>2, <3>5, <3>6
  <2> QED BY <1>1, <2>1, <2>3, <2>5 DEF RiskInv, RiskTypeOK, RiskSurvivesRestart
<1>10. CASE UNCHANGED riskVars BY <1>1, <1>10 DEF riskVars, RiskInv, RiskTypeOK, RiskSurvivesRestart
<1> QED BY <1>1, <1>2, <1>3, <1>5, <1>6, <1>7, <1>8, <1>9, <1>10 DEF RiskNext, RestartRisk, InstallRisk, RiskTypeOK

(* The policy in force is the saved one and, unless the page is shown a storage error, a restart
   forgets no remembered digest and brings back no event that is shown no longer: for any number of
   files, texts, policies and events. *)
THEOREM RiskSurvives == RiskSpec => []RiskSurvivesRestart
<1> USE DEF RiskInv
<1> QED BY RiskInvInit, RiskInvStep, PTL DEF RiskSpec
-----------------------------------------------------------------------------
(* What is known of an open manager, of its database and of a call; a manager that was closed
   answers nothing any more. *)
Rates == {NoRate} \cup {Match(doc, q) : doc \in Documents, q \in Queries}
CacheEntry == [query : Queries, rate : Rates]
PriceMeta == [version : Nat, fetched : Int, failures : Nat, retryAfter : Int]
PriceManager ==
    [db : Databases, meta : PriceMeta, closed : BOOLEAN, sequence : Nat, refresher : Callers \cup {NoCaller},
     error : BOOLEAN, storage : BOOLEAN, entries : Seq(CacheEntry)]
PriceCall ==
    [at : {"lookup", "fill", "refresh", "wait", "download", "failed", "finish", "settle"},
     query : Queries \cup {<<>>}, manager : Nat, refresh : BOOLEAN, again : BOOLEAN, force : BOOLEAN,
     rate : Rates, failed : BOOLEAN, observed : Nat, since : Nat]
PriceTypeOK ==
    /\ disk \in [Databases -> [log : Seq(Documents), meta : PriceMeta]]
    /\ managers \in Seq(PriceManager)
    /\ call \in [Callers -> {NoCall} \cup PriceCall]
    /\ clock \in Nat /\ quiet \in [Databases -> Int]

\* The pause a saved attempt left is still told by the metadata at hand, ...
Paced(meta, until) ==
    until <= clock \/ until <= meta.retryAfter \/ (meta.version > 0 /\ until <= meta.fetched + 60)
\* ... and no later attempt can shorten it.
Delayed(meta) == meta.retryAfter <= clock + (IF meta.failures = 0 THEN 0 ELSE RetryDelay(meta.failures))

DatabaseOK(db) ==
    LET d == disk[db] IN
    d.meta.version = Len(d.log) /\ Len(d.log) <= MaxVersions /\ Paced(d.meta, quiet[db]) /\ Delayed(d.meta)
ManagerOK(m) ==
    /\ m.meta.version = Len(disk[m.db].log)
    /\ Paced(m.meta, quiet[m.db]) /\ Delayed(m.meta)
    /\ \A n \in 1..Len(m.entries) :
         m.meta.version > 0 /\ m.entries[n].rate = Match(Stored(m.db), m.entries[n].query)
Witnessed(k, log) ==
    /\ k.since <= Len(log)
    /\ k.rate # NoRate => \E v \in k.since..Len(log) \cap 1..MaxVersions : Match(log[v], k.query) = k.rate
CallOK(k) ==
    LET m == managers[k.manager] IN
    /\ k.manager \in 1..Len(managers)
    /\ k.at = "fill" => ~m.closed /\ m.meta.version > 0 /\ k.rate = Match(Stored(m.db), k.query)
    /\ k.at \in {"lookup", "fill"} => k.query \in Queries
    /\ ~m.closed => Witnessed(k, disk[m.db].log)

\* No two open managers have the same database.
Opened ==
    /\ managers # <<>> /\ ~managers[Len(managers)].closed
    /\ \A i, j \in 1..Len(managers) :
         ~managers[i].closed /\ ~managers[j].closed /\ i # j => managers[i].db # managers[j].db

PriceInv ==
    /\ PriceTypeOK /\ Opened
    /\ \A db \in Databases : DatabaseOK(db)
    /\ \A i \in 1..Len(managers) : ~managers[i].closed => ManagerOK(managers[i])
    /\ \A c \in Callers : call[c] # NoCall => CallOK(call[c])

LEMMA DelaysGrow ==
    ASSUME NEW f \in Nat
    PROVE  /\ RetryDelay(f + 1) \in Nat
           /\ f # 0 => RetryDelay(f) <= RetryDelay(f + 1)
<1>1. CASE f > 6 BY <1>1 DEF RetryDelay
<1>2. CASE f <= 6
  <2>1. f \in {0, 1, 2, 3, 4, 5, 6} BY <1>2
  <2> QED BY <2>1 DEF RetryDelay
<1> QED BY <1>1, <1>2

(* A step that changes one manager and one call, and keeps the database, the clock and which
   managers are open. *)
LEMMA OneManagerOneCall ==
    ASSUME PriceInv, NEW i \in 1..Len(managers), NEW m \in PriceManager, NEW c \in Callers, NEW k \in {NoCall} \cup PriceCall,
           managers' = [managers EXCEPT ![i] = m], m.db = managers[i].db, m.closed <=> managers[i].closed,
           m.meta.version = managers[i].meta.version,
           ~m.closed => ManagerOK(m),
           call' = [call EXCEPT ![c] = k], k # NoCall => CallOK(k),
           UNCHANGED <<disk, clock, quiet>>
    PROVE  PriceInv'
<1>1. /\ PriceTypeOK /\ Opened
      /\ \A db \in Databases : DatabaseOK(db)
      /\ \A n \in 1..Len(managers) : ~managers[n].closed => ManagerOK(managers[n])
      /\ \A d \in Callers : call[d] # NoCall => CallOK(call[d])
    BY DEF PriceInv
<1>2. managers' \in Seq(PriceManager) /\ Len(managers') = Len(managers)
      /\ \A n \in 1..Len(managers) : managers'[n] = IF n = i THEN m ELSE managers[n]
    BY <1>1 DEF PriceTypeOK
<1>3. \A n \in 1..Len(managers) : /\ managers'[n].db = managers[n].db /\ (managers'[n].closed <=> managers[n].closed)
                                  /\ managers'[n].meta.version = managers[n].meta.version
    BY <1>2
<1>4. call' \in [Callers -> {NoCall} \cup PriceCall] BY <1>1 DEF PriceTypeOK
<1>5. PriceTypeOK' BY <1>1, <1>2, <1>4 DEF PriceTypeOK
<1>6. Opened'
  <2>1. Len(managers) \in Nat /\ Len(managers) # 0 BY <1>1 DEF PriceTypeOK, Opened
  <2>2. managers' # <<>> /\ Len(managers) \in 1..Len(managers) BY <1>2, <2>1
  <2>3. ~managers'[Len(managers)].closed BY <1>1, <1>3, <2>2 DEF Opened
  <2>4. \A n, o \in 1..Len(managers) :
           ~managers'[n].closed /\ ~managers'[o].closed /\ n # o => managers'[n].db # managers'[o].db
      BY <1>1, <1>3 DEF Opened
  <2> QED BY <1>2, <2>2, <2>3, <2>4 DEF Opened
<1>7. \A db \in Databases : DatabaseOK(db)'
  <2>1. \A db \in Databases : DatabaseOK(db)' <=> DatabaseOK(db) BY DEF DatabaseOK, Paced, Delayed
  <2> QED BY <1>1, <2>1
<1>8. \A n \in 1..Len(managers) : ~managers'[n].closed => ManagerOK(managers[n])'
  <2>1. ASSUME NEW x PROVE ManagerOK(x) => ManagerOK(x)' BY DEF ManagerOK, Paced, Delayed, Stored
  <2>2. ASSUME NEW n \in 1..Len(managers), ~managers'[n].closed PROVE ManagerOK(managers[n])'
    <3>1. PICK x : x = managers'[n] OBVIOUS
    <3>2. ManagerOK(x) BY <1>1, <1>2, <1>3, <2>2, <3>1
    <3>3. ManagerOK(x)' BY <2>1, <3>2
    <3> QED BY <3>1, <3>3 DEF ManagerOK
  <2> QED BY <2>2
<1>9. \A d \in Callers : call'[d] # NoCall => CallOK(call[d])'
  <2>1. ASSUME NEW x, CallOK(x) PROVE CallOK(x)'
    <3>1. x.manager \in 1..Len(managers) BY <2>1 DEF CallOK
    <3> QED BY <1>2, <1>3, <2>1, <3>1 DEF CallOK, Witnessed, Stored
  <2>2. ASSUME NEW d \in Callers, call'[d] # NoCall PROVE CallOK(call[d])'
    <3>1. PICK x : x = call'[d] OBVIOUS
    <3>2. CallOK(x) BY <1>1, <2>2, <3>1 DEF PriceTypeOK
    <3>3. CallOK(x)' BY <2>1, <3>2
    <3> QED BY <3>1, <3>3 DEF CallOK
  <2> QED BY <2>2
<1> QED BY <1>2, <1>5, <1>6, <1>7, <1>8, <1>9 DEF PriceInv

(* Most steps of a call change nothing else. *)
LEMMA OneCall ==
    ASSUME PriceInv, NEW c \in Callers, NEW k \in {NoCall} \cup PriceCall, k # NoCall => CallOK(k),
           call' = [call EXCEPT ![c] = k], UNCHANGED <<disk, managers, clock, quiet>>
    PROVE  PriceInv'
<1>1. managers \in Seq(PriceManager) /\ managers # <<>> BY DEF PriceInv, PriceTypeOK, Opened
<1>2. 1 \in 1..Len(managers) /\ managers[1] \in PriceManager BY <1>1
<1>3. managers' = [managers EXCEPT ![1] = managers[1]] BY <1>1, <1>2
<1>4. ~managers[1].closed => ManagerOK(managers[1]) BY <1>2 DEF PriceInv
<1> QED BY <1>2, <1>3, <1>4, OneManagerOneCall

LEMMA ActiveCall ==
    ASSUME PriceInv, NEW c \in Callers, call[c].at # "idle"
    PROVE  /\ call[c] \in PriceCall /\ CallOK(call[c])
           /\ call[c].manager \in 1..Len(managers) /\ Of(c) \in PriceManager
           /\ ~Of(c).closed => ManagerOK(Of(c))
<1>1. call[c] # NoCall BY DEF NoCall
<1>2. call[c] \in PriceCall /\ CallOK(call[c]) BY <1>1 DEF PriceInv, PriceTypeOK
<1>3. call[c].manager \in 1..Len(managers) BY <1>2 DEF CallOK
<1> QED BY <1>2, <1>3 DEF Of, PriceInv, PriceTypeOK

LEMMA IsNoCall == \A k \in PriceCall : k # NoCall /\ k.at # "idle"
BY DEF PriceCall, NoCall

(* What a call has found stays known while it goes on. *)
LEMMA MovedOn ==
    ASSUME NEW k, CallOK(k), NEW l, l.manager = k.manager, l.query = k.query, l.rate = k.rate, l.since = k.since,
           l.at # "fill", l.at = "lookup" => k.query \in Queries
    PROVE  CallOK(l)
BY DEF CallOK, Witnessed

LEMMA RefreshedOK ==
    ASSUME PriceInv, NEW c \in Callers, call[c].at # "idle", NEW error \in BOOLEAN, NEW storage \in BOOLEAN
    PROVE  LET k == Refreshed(c, error, storage) IN
           k \in {NoCall} \cup PriceCall /\ (k # NoCall => CallOK(k)) /\ k.at # "fill"
<1>1. call[c] \in PriceCall /\ CallOK(call[c]) BY ActiveCall
<1>2. PICK x \in PriceCall : x = call[c] BY <1>1
<1>3. CASE x.query = <<>> BY <1>2, <1>3 DEF Refreshed, NoCall
<1>4. CASE x.query # <<>>
  <2>1. x.query \in Queries BY <1>4 DEF PriceCall
  <2>2. CASE ~error
    <3>1. PICK k : k = [x EXCEPT !.at = "lookup", !.again = TRUE] OBVIOUS
    <3>2. /\ k \in PriceCall /\ k.manager = x.manager /\ k.query = x.query /\ k.rate = x.rate /\ k.since = x.since
          /\ k.at = "lookup"
        BY <3>1 DEF PriceCall
    <3>3. CallOK(k) BY <1>1, <1>2, <2>1, <3>2, MovedOn
    <3>4. Refreshed(c, error, storage) = k BY <1>2, <1>4, <2>2, <3>1 DEF Refreshed
    <3> QED BY <3>2, <3>3, <3>4
  <2>3. CASE error
    <3>1. PICK fails \in BOOLEAN : fails = (storage /\ x.rate = NoRate) OBVIOUS
    <3>2. PICK k : k = [x EXCEPT !.at = "settle", !.failed = fails] OBVIOUS
    <3>3. /\ k \in PriceCall /\ k.manager = x.manager /\ k.query = x.query /\ k.rate = x.rate /\ k.since = x.since
          /\ k.at = "settle"
        BY <3>2 DEF PriceCall
    <3>4. CallOK(k) BY <1>1, <1>2, <3>3, MovedOn
    <3>5. Refreshed(c, error, storage) = k
      <4>1. Refreshed(c, error, storage) = [x EXCEPT !.at = "settle", !.failed = (storage /\ x.rate = NoRate)]
          BY <1>2, <1>4, <2>3 DEF Refreshed
      <4> QED BY <3>1, <3>2, <4>1
    <3> QED BY <3>3, <3>4, <3>5
  <2> QED BY <2>2, <2>3
<1> QED BY <1>3, <1>4

(* A lookup's answer is that of the document stored now. *)
LEMMA LookedUpOK ==
    ASSUME PriceInv, NEW c \in Callers, call[c].at \in {"lookup", "fill"}, NEW rate \in Rates,
           ~Of(c).closed /\ rate # NoRate => Of(c).meta.version > 0 /\ rate = Match(Stored(Of(c).db), call[c].query)
    PROVE  LookedUp(c, rate, Of(c)) \in PriceCall /\ CallOK(LookedUp(c, rate, Of(c)))
<1>1. /\ call[c] \in PriceCall /\ CallOK(call[c]) /\ Of(c) \in PriceManager
      /\ ~Of(c).closed => ManagerOK(Of(c))
    BY ActiveCall
<1>2. PICK x \in PriceCall : x = call[c] BY <1>1
<1>3. PICK m \in PriceManager : m = Of(c) BY <1>1
<1>4. PICK k : k = LookedUp(c, rate, m) OBVIOUS
<1>5. \/ k = [x EXCEPT !.at = "refresh", !.rate = rate, !.observed = m.sequence]
      \/ k = [x EXCEPT !.at = "settle", !.rate = rate]
    BY <1>2, <1>4 DEF LookedUp
<1>6. m.sequence \in Nat BY DEF PriceManager
<1>7. /\ k \in PriceCall /\ k.manager = x.manager /\ k.query = x.query /\ k.since = x.since /\ k.rate = rate
      /\ k.at \in {"refresh", "settle"}
    BY <1>5, <1>6 DEF PriceCall
<1>8. CallOK(k)
  <2>1. k.manager \in 1..Len(managers) /\ managers[k.manager] = m BY <1>1, <1>2, <1>3, <1>7 DEF CallOK, Of
  <2>2. ASSUME ~m.closed PROVE Witnessed(k, disk[m.db].log)
    <3>1. DatabaseOK(m.db) /\ disk[m.db].log \in Seq(Documents) /\ x.since \in Nat
        BY DEF PriceInv, PriceTypeOK, PriceManager, PriceCall
    <3>2. PICK log \in Seq(Documents) : log = disk[m.db].log BY <3>1
    <3>3. x.since <= Len(log) BY <1>1, <1>2, <1>3, <2>2, <3>2 DEF CallOK, Witnessed, Of
    <3>4. m.meta.version = Len(log) /\ Len(log) <= MaxVersions BY <1>1, <1>3, <2>2, <3>1, <3>2 DEF ManagerOK, DatabaseOK
    <3>5. rate # NoRate => Len(log) > 0 /\ rate = Match(log[Len(log)], x.query)
        BY <1>2, <1>3, <2>2, <3>2, <3>4 DEF Stored
    <3>6. rate # NoRate => Len(log) \in x.since..Len(log) \cap 1..MaxVersions
      <4> HAVE rate # NoRate
      <4>1. Len(log) \in Nat /\ Len(log) > 0 /\ Len(log) <= MaxVersions BY <3>4, <3>5
      <4>2. Len(log) \in x.since..Len(log) BY <3>1, <3>3, <4>1
      <4>3. Len(log) \in 1..MaxVersions BY <4>1, PriceAssumption
      <4> QED BY <4>2, <4>3
    <3> QED BY <1>7, <3>2, <3>3, <3>5, <3>6 DEF Witnessed
  <2> QED BY <1>7, <2>1, <2>2 DEF CallOK
<1> QED BY <1>3, <1>4, <1>7, <1>8

LEMMA StartedOK ==
    ASSUME PriceInv, NEW c \in Callers, NEW at \in {"lookup", "refresh"}, NEW query \in Queries \cup {<<>>},
           at = "lookup" => query \in Queries, NEW refresh \in BOOLEAN, NEW force \in BOOLEAN, NEW observed \in Nat,
           NEW k, k = [at |-> at, query |-> query, manager |-> Current, refresh |-> refresh, again |-> FALSE,
                       force |-> force, rate |-> NoRate, failed |-> FALSE, observed |-> observed,
                       since |-> managers[Current].meta.version]
    PROVE  k \in PriceCall /\ CallOK(k)
<1>1. managers \in Seq(PriceManager) /\ managers # <<>> BY DEF PriceInv, PriceTypeOK, Opened
<1>2. Current \in 1..Len(managers) /\ Current \in Nat /\ managers[Current] \in PriceManager BY <1>1 DEF Current
<1>3. ~managers[Current].closed BY DEF PriceInv, Opened, Current
<1>4. ManagerOK(managers[Current]) BY <1>2, <1>3 DEF PriceInv
<1>5. PICK m \in PriceManager : m = managers[Current] BY <1>2
<1>6. m.meta.version \in Nat BY DEF PriceManager, PriceMeta
<1>7. NoRate \in Rates BY DEF Rates
<1>8. k \in PriceCall BY <1>2, <1>5, <1>6, <1>7 DEF PriceCall
<1>9. m.meta.version = Len(disk[m.db].log) BY <1>4, <1>5 DEF ManagerOK
<1>10. k.manager = Current /\ k.query = query /\ k.rate = NoRate /\ k.since = m.meta.version /\ k.at = at BY <1>5
<1>11. Witnessed(k, disk[m.db].log)
  <2>1. k.since = Len(disk[m.db].log) /\ k.since \in Nat BY <1>6, <1>9, <1>10
  <2> QED BY <1>10, <2>1 DEF Witnessed
<1>12. CallOK(k) BY <1>2, <1>5, <1>10, <1>11 DEF CallOK
<1> QED BY <1>8, <1>12

(* Steps of a call that change nothing but the call. *)
LEMMA CallSteps ==
    ASSUME PriceInv, NEW c \in Callers,
           \/ \E q \in Queries, refresh \in BOOLEAN : ResolvePrice(c, q, refresh)
           \/ \E force \in BOOLEAN : Ask(c, force)
           \/ LookupRead(c) \/ Join(c) \/ Wake(c) \/ WaitEnds(c) \/ FoundRefreshed(c) \/ Skip(c)
           \/ \E storage \in BOOLEAN : PublishFails(c, storage)
           \/ Settle(c)
    PROVE  PriceInv'
<1>1. ASSUME NEW k \in {NoCall} \cup PriceCall, k # NoCall => CallOK(k), call' = [call EXCEPT ![c] = k],
             UNCHANGED <<disk, managers, clock, quiet>>
      PROVE  PriceInv'
    BY <1>1, OneCall
<1>2. ASSUME NEW q \in Queries, NEW refresh \in BOOLEAN, ResolvePrice(c, q, refresh) PROVE PriceInv'
  <2>1. PICK k : k = [at |-> "lookup", query |-> q, manager |-> Current, refresh |-> refresh, again |-> FALSE,
                      force |-> FALSE, rate |-> NoRate, failed |-> FALSE, observed |-> 0,
                      since |-> managers[Current].meta.version]
      OBVIOUS
  <2>2. k \in PriceCall /\ CallOK(k) BY <2>1, StartedOK
  <2>3. call' = [call EXCEPT ![c] = k] /\ UNCHANGED <<disk, managers, clock, quiet>> BY <1>2, <2>1 DEF ResolvePrice
  <2> QED BY <1>1, <2>2, <2>3
<1>3. ASSUME NEW force \in BOOLEAN, Ask(c, force) PROVE PriceInv'
  <2>1. PICK k : k = [at |-> "refresh", query |-> <<>>, manager |-> Current, refresh |-> TRUE, again |-> FALSE,
                      force |-> force, rate |-> NoRate, failed |-> FALSE,
                      observed |-> managers[Current].sequence, since |-> managers[Current].meta.version]
      OBVIOUS
  <2>2. managers[Current].sequence \in Nat
    <3>1. Current \in 1..Len(managers) /\ managers \in Seq(PriceManager)
        BY DEF PriceInv, PriceTypeOK, Opened, Current
    <3>2. \A m \in PriceManager : m.sequence \in Nat BY DEF PriceManager
    <3>3. managers[Current] \in PriceManager BY <3>1
    <3> QED BY <3>2, <3>3
  <2>3. k \in PriceCall /\ CallOK(k) BY <2>1, <2>2, StartedOK
  <2>4. call' = [call EXCEPT ![c] = k] /\ UNCHANGED <<disk, managers, clock, quiet>> BY <1>3, <2>1 DEF Ask
  <2> QED BY <1>1, <2>3, <2>4
<1>4. ASSUME LookupRead(c) PROVE PriceInv'
  <2>0. call[c].at = "lookup" BY <1>4 DEF LookupRead
  <2>1. /\ call[c] \in PriceCall /\ CallOK(call[c]) /\ Of(c) \in PriceManager
        /\ ~Of(c).closed => ManagerOK(Of(c))
      BY <2>0, ActiveCall
  <2>2. PICK x \in PriceCall : x = call[c] BY <2>1
  <2>3. PICK k : k = IF Of(c).closed THEN [x EXCEPT !.at = "settle", !.failed = TRUE]
                     ELSE IF Of(c).meta.version = 0 THEN LookedUp(c, NoRate, Of(c))
                     ELSE [x EXCEPT !.at = "fill", !.rate = Match(Stored(Of(c).db), x.query)]
      OBVIOUS
  <2>4. call' = [call EXCEPT ![c] = k] /\ UNCHANGED <<disk, managers, clock, quiet>>
      BY <1>4, <2>2, <2>3 DEF LookupRead
  <2>5. CASE Of(c).closed
    <3>1. /\ k \in PriceCall /\ k.manager = x.manager /\ k.query = x.query /\ k.rate = x.rate /\ k.since = x.since
          /\ k.at = "settle"
        BY <2>3, <2>5 DEF PriceCall
    <3>2. CallOK(k) BY <2>1, <2>2, <3>1, MovedOn
    <3> QED BY <1>1, <2>4, <3>1, <3>2
  <2>6. CASE ~Of(c).closed /\ Of(c).meta.version = 0
    <3>1. k = LookedUp(c, NoRate, Of(c)) BY <2>3, <2>6
    <3>2. NoRate \in Rates BY DEF Rates
    <3>3. k \in PriceCall /\ CallOK(k) BY <2>0, <3>1, <3>2, LookedUpOK
    <3> QED BY <1>1, <2>4, <3>3
  <2>7. CASE ~Of(c).closed /\ Of(c).meta.version # 0
    <3>1. PICK m \in PriceManager : m = Of(c) BY <2>1
    <3>2. PICK log \in Seq(Documents) : log = disk[m.db].log BY DEF PriceInv, PriceTypeOK, PriceManager
    <3>3. m.meta.version = Len(log) /\ Len(log) <= MaxVersions /\ m.meta.version \in Nat
      <4>1. DatabaseOK(m.db) BY DEF PriceInv, PriceManager
      <4>2. m.meta.version \in Nat BY DEF PriceManager, PriceMeta
      <4> QED BY <2>1, <2>7, <3>1, <3>2, <4>1, <4>2 DEF ManagerOK, DatabaseOK
    <3>4. x.query \in Queries BY <2>0, <2>1, <2>2 DEF CallOK
    <3>5. Len(log) \in 1..Len(log) /\ log[Len(log)] \in Documents /\ Stored(m.db) = log[Len(log)]
        BY <2>7, <3>1, <3>2, <3>3 DEF Stored
    <3>6. Match(Stored(m.db), x.query) \in Rates BY <3>4, <3>5 DEF Rates
    <3>7. PICK rate \in Rates : rate = Match(Stored(m.db), x.query) BY <3>6
    <3>8. k = [x EXCEPT !.at = "fill", !.rate = rate] BY <2>3, <2>7, <3>1, <3>7
    <3>9. /\ k \in PriceCall /\ k.manager = x.manager /\ k.query = x.query /\ k.rate = rate /\ k.since = x.since
          /\ k.at = "fill"
        BY <3>8 DEF PriceCall
    <3>10. Witnessed(k, log)
      <4>1. x.since <= Len(log) /\ x.since \in Nat BY <2>1, <2>2, <2>7, <3>1, <3>2 DEF CallOK, Witnessed, Of, PriceCall
      <4>2. Len(log) \in x.since..Len(log) \cap 1..MaxVersions BY <3>3, <3>5, <4>1, PriceAssumption
      <4>3. Match(log[Len(log)], k.query) = k.rate BY <3>5, <3>7, <3>9
      <4> QED BY <3>9, <4>1, <4>2, <4>3 DEF Witnessed
    <3>11. k.manager \in 1..Len(managers) /\ managers[k.manager] = m
        BY <2>1, <2>2, <3>1, <3>9 DEF CallOK, Of
    <3>12. m.meta.version > 0 BY <2>7, <3>1, <3>3
    <3>13. CallOK(k) BY <2>7, <3>1, <3>2, <3>4, <3>7, <3>9, <3>10, <3>11, <3>12 DEF CallOK
    <3> QED BY <1>1, <2>4, <3>9, <3>13
  <2> QED BY <2>5, <2>6, <2>7
<1>5. ASSUME NEW k \in PriceCall, call[c].at # "idle", k.at \in {"wait", "failed", "settle"},
             k.manager = call[c].manager, k.query = call[c].query, k.rate = call[c].rate, k.since = call[c].since,
             call' = [call EXCEPT ![c] = k], UNCHANGED <<disk, managers, clock, quiet>>
      PROVE  PriceInv'
  <2>1. CallOK(call[c]) BY <1>5, ActiveCall
  <2>2. CallOK(k) BY <1>5, <2>1, MovedOn
  <2> QED BY <1>1, <1>5, <2>2
<1>6. ASSUME Join(c) PROVE PriceInv'
  <2>1. call[c].at = "refresh" BY <1>6 DEF Join
  <2>2. PICK x \in PriceCall : x = call[c] BY <2>1, ActiveCall
  <2>3. Of(c).sequence \in Nat BY <2>1, ActiveCall DEF PriceManager
  <2>4. PICK o \in Nat : o = Of(c).sequence BY <2>3
  <2>5. PICK k : k = [x EXCEPT !.at = "wait", !.observed = o] OBVIOUS
  <2>6. /\ k \in PriceCall /\ k.manager = x.manager /\ k.query = x.query /\ k.rate = x.rate /\ k.since = x.since
        /\ k.at = "wait"
      BY <2>5 DEF PriceCall
  <2>7. call' = [call EXCEPT ![c] = k] /\ UNCHANGED <<disk, managers, clock, quiet>>
      BY <1>6, <2>2, <2>4, <2>5 DEF Join
  <2> QED BY <1>5, <2>1, <2>2, <2>6, <2>7
<1>7. ASSUME NEW storage \in BOOLEAN, PublishFails(c, storage) PROVE PriceInv'
  <2>1. call[c].at = "download" BY <1>7 DEF PublishFails
  <2>2. PICK x \in PriceCall : x = call[c] BY <2>1, ActiveCall
  <2>3. PICK k : k = [x EXCEPT !.at = "failed", !.failed = storage] OBVIOUS
  <2>4. /\ k \in PriceCall /\ k.manager = x.manager /\ k.query = x.query /\ k.rate = x.rate /\ k.since = x.since
        /\ k.at = "failed"
      BY <2>3 DEF PriceCall
  <2>5. call' = [call EXCEPT ![c] = k] /\ UNCHANGED <<disk, managers, clock, quiet>>
      BY <1>7, <2>2, <2>3 DEF PublishFails
  <2> QED BY <1>5, <2>1, <2>2, <2>4, <2>5
<1>8. ASSUME NEW error \in BOOLEAN, NEW storage \in BOOLEAN, call[c].at # "idle",
             call' = [call EXCEPT ![c] = Refreshed(c, error, storage)], UNCHANGED <<disk, managers, clock, quiet>>
      PROVE  PriceInv'
  <2>1. PICK k : k = Refreshed(c, error, storage) OBVIOUS
  <2>2. k \in {NoCall} \cup PriceCall /\ (k # NoCall => CallOK(k)) BY <1>8, <2>1, RefreshedOK
  <2> QED BY <1>1, <1>8, <2>1, <2>2
<1>9. ASSUME Wake(c) \/ FoundRefreshed(c) PROVE PriceInv'
  <2>1. call[c].at # "idle" /\ call' = [call EXCEPT ![c] = Refreshed(c, Of(c).error, Of(c).storage)]
        /\ UNCHANGED <<disk, managers, clock, quiet>>
      BY <1>9 DEF Wake, FoundRefreshed
  <2>2. Of(c).error \in BOOLEAN /\ Of(c).storage \in BOOLEAN BY <2>1, ActiveCall DEF PriceManager
  <2> QED BY <1>8, <2>1, <2>2
<1>10. ASSUME WaitEnds(c) PROVE PriceInv' BY <1>8, <1>10 DEF WaitEnds
<1>11. ASSUME Skip(c) PROVE PriceInv' BY <1>8, <1>11 DEF Skip
<1>12. ASSUME Settle(c) PROVE PriceInv' BY <1>1, <1>12 DEF Settle
<1> QED BY <1>2, <1>3, <1>4, <1>6, <1>7, <1>9, <1>10, <1>11, <1>12

\* A sequence of some entries of another.
Taken(s, entries) ==
    s \in Seq(CacheEntry) /\ \A n \in 1..Len(s) : \E i \in 1..Len(entries) : s[n] = entries[i]

LEMMA PartTaken ==
    ASSUME NEW entries \in Seq(CacheEntry), NEW first \in 1..(Len(entries) + 1), NEW last \in 0..Len(entries)
    PROVE  Taken(SubSeq(entries, first, last), entries)
<1>1. PICK s : s = SubSeq(entries, first, last) OBVIOUS
<1>2. \A n \in first..last : entries[n] \in CacheEntry OBVIOUS
<1>3. /\ s \in Seq(CacheEntry)
      /\ Len(s) = IF first <= last THEN last - first + 1 ELSE 0
      /\ \A n \in 1..(last - first + 1) : s[n] = entries[first + n - 1]
    BY <1>1, <1>2, SubSeqProperties
<1>4. \A n \in 1..Len(s) : n \in 1..(last - first + 1) /\ first + n - 1 \in 1..Len(entries) BY <1>3
<1>5. \A n \in 1..Len(s) : \E i \in 1..Len(entries) : s[n] = entries[i] BY <1>3, <1>4
<1> QED BY <1>1, <1>3, <1>5 DEF Taken

LEMMA JoinTaken ==
    ASSUME NEW entries, NEW a, NEW b, Taken(a, entries), Taken(b, entries)
    PROVE  Taken(a \o b, entries)
<1>1. a \in Seq(CacheEntry) /\ b \in Seq(CacheEntry) /\ Len(a) \in Nat /\ Len(b) \in Nat BY DEF Taken
<1>2. /\ a \o b \in Seq(CacheEntry) /\ Len(a \o b) = Len(a) + Len(b)
      /\ \A n \in 1..Len(a) + Len(b) : (a \o b)[n] = IF n <= Len(a) THEN a[n] ELSE b[n - Len(a)]
    BY <1>1, ConcatProperties
<1>3. ASSUME NEW n \in 1..Len(a) + Len(b) PROVE \E i \in 1..Len(entries) : (a \o b)[n] = entries[i]
  <2>1. CASE n <= Len(a)
    <3>1. n \in 1..Len(a) BY <1>1, <2>1
    <3> QED BY <1>2, <2>1, <3>1 DEF Taken
  <2>2. CASE ~(n <= Len(a))
    <3>1. n - Len(a) \in 1..Len(b) BY <1>1, <2>2
    <3>2. (a \o b)[n] = b[n - Len(a)] BY <1>2, <2>2
    <3> QED BY <3>1, <3>2 DEF Taken
  <2> QED BY <2>1, <2>2
<1> QED BY <1>2, <1>3 DEF Taken

LEMMA EntriesButTaken ==
    ASSUME NEW entries \in Seq(CacheEntry), NEW i \in 1..Len(entries)
    PROVE  Taken(EntriesBut(entries, i), entries)
<1>1. /\ 1 \in 1..(Len(entries) + 1) /\ i - 1 \in 0..Len(entries)
      /\ i + 1 \in 1..(Len(entries) + 1) /\ Len(entries) \in 0..Len(entries)
    OBVIOUS
<1>2. Taken(SubSeq(entries, 1, i - 1), entries) BY <1>1, PartTaken
<1>3. Taken(SubSeq(entries, i + 1, Len(entries)), entries) BY <1>1, PartTaken
<1> QED BY <1>2, <1>3, JoinTaken DEF EntriesBut

\* Such a sequence with one more entry in front.
Fronted(front, e, entries) ==
    /\ front \in Seq(CacheEntry) /\ Len(front) > 0
    /\ \A n \in 1..Len(front) : front[n] = e \/ \E i \in 1..Len(entries) : front[n] = entries[i]

LEMMA FrontedOK ==
    ASSUME NEW entries, NEW others, Taken(others, entries), NEW e \in CacheEntry
    PROVE  Fronted(<<e>> \o others, e, entries)
<1>1. others \in Seq(CacheEntry) /\ Len(others) \in Nat BY DEF Taken
<1>2. <<e>> \in Seq(CacheEntry) /\ Len(<<e>>) = 1 /\ <<e>>[1] = e OBVIOUS
<1>3. PICK front : front = <<e>> \o others OBVIOUS
<1>4. /\ front \in Seq(CacheEntry) /\ Len(front) = 1 + Len(others)
      /\ \A n \in 1..1 + Len(others) : front[n] = IF n <= 1 THEN <<e>>[n] ELSE others[n - 1]
    BY <1>1, <1>2, <1>3, ConcatProperties
<1>5. ASSUME NEW n \in 1..Len(front) PROVE front[n] = e \/ \E i \in 1..Len(entries) : front[n] = entries[i]
  <2>1. n \in 1..1 + Len(others) BY <1>4
  <2>2. CASE n = 1
    <3>1. front[1] = <<e>>[1] BY <1>4, <2>1, <2>2
    <3> QED BY <1>2, <2>2, <3>1
  <2>3. CASE n # 1
    <3>1. n - 1 \in 1..Len(others) /\ ~(n <= 1) BY <1>1, <2>1, <2>3
    <3>2. front[n] = others[n - 1] BY <1>4, <2>1, <3>1
    <3> QED BY <3>1, <3>2 DEF Taken
  <2> QED BY <2>2, <2>3
<1>6. Len(front) > 0 BY <1>1, <1>4
<1>7. Fronted(front, e, entries) BY <1>4, <1>5, <1>6 DEF Fronted
<1> QED BY <1>3, <1>7

(* The cache of an open manager holds what the stored document says. *)
LEMMA CacheSteps ==
    ASSUME PriceInv, NEW c \in Callers, LookupHit(c) \/ LookupFill(c)
    PROVE  PriceInv'
<1>0. call[c].at \in {"lookup", "fill"} BY DEF LookupHit, LookupFill
<1>1. /\ call[c] \in PriceCall /\ CallOK(call[c]) /\ call[c].manager \in 1..Len(managers) /\ Of(c) \in PriceManager
      /\ ~Of(c).closed => ManagerOK(Of(c))
    BY <1>0, ActiveCall
<1>2. PICK x \in PriceCall : x = call[c] BY <1>1
<1>3. PICK i \in 1..Len(managers) : i = x.manager BY <1>1, <1>2
<1>4. PICK m \in PriceManager : m = managers[i] /\ m = Of(c) BY <1>1, <1>2, <1>3 DEF Of
<1>5. m.entries \in Seq(CacheEntry) BY DEF PriceManager
<1>6. ASSUME NEW entries \in Seq(CacheEntry), NEW rate \in Rates,
             ~m.closed => \A n \in 1..Len(entries) :
                            m.meta.version > 0 /\ entries[n].rate = Match(Stored(m.db), entries[n].query),
             ~m.closed /\ rate # NoRate => m.meta.version > 0 /\ rate = Match(Stored(m.db), x.query),
             managers' = [managers EXCEPT ![i].entries = entries],
             call' = [call EXCEPT ![c] = LookedUp(c, rate, Of(c))],
             UNCHANGED <<disk, clock, quiet>>
      PROVE  PriceInv'
  <2>1. PICK k : k = LookedUp(c, rate, Of(c)) OBVIOUS
  <2>2. k \in PriceCall /\ CallOK(k) BY <1>0, <1>2, <1>4, <1>6, <2>1, LookedUpOK
  <2>3. PICK w : w = [m EXCEPT !.entries = entries] OBVIOUS
  <2>4. /\ w \in PriceManager /\ w.db = m.db /\ (w.closed <=> m.closed) /\ w.meta = m.meta /\ w.entries = entries
      BY <1>6, <2>3 DEF PriceManager
  <2>5. ~w.closed => ManagerOK(w) BY <1>1, <1>4, <1>6, <2>4 DEF ManagerOK
  <2>6. managers' = [managers EXCEPT ![i] = w]
    <3>1. managers \in Seq(PriceManager) BY DEF PriceInv, PriceTypeOK
    <3> QED BY <1>4, <1>6, <2>3, <3>1
  <2>7. call' = [call EXCEPT ![c] = k] BY <1>6, <2>1
  <2>8. /\ w.db = managers[i].db /\ (w.closed <=> managers[i].closed) /\ w.meta.version = managers[i].meta.version
        /\ UNCHANGED <<disk, clock, quiet>>
      BY <1>4, <1>6, <2>4
  <2> QED BY <2>2, <2>4, <2>5, <2>6, <2>7, <2>8, OneManagerOneCall
<1>7. ASSUME LookupHit(c) PROVE PriceInv'
  <2>1. PICK n \in Cached(m, x.query) :
          /\ managers' = [managers EXCEPT ![i].entries = <<m.entries[n]>> \o EntriesBut(@, n)]
          /\ call' = [call EXCEPT ![c] = LookedUp(c, m.entries[n].rate, Of(c))]
          /\ UNCHANGED <<disk, clock, quiet>>
      BY <1>2, <1>3, <1>4, <1>7 DEF LookupHit
  <2>2. n \in 1..Len(m.entries) /\ m.entries[n].query = x.query BY <1>5 DEF Cached
  <2>3. PICK e \in CacheEntry : e = m.entries[n] BY <1>5, <2>2
  <2>4. PICK others : others = EntriesBut(m.entries, n) OBVIOUS
  <2>5. PICK front : front = <<e>> \o others OBVIOUS
  <2>6. /\ front \in Seq(CacheEntry)
        /\ \A o \in 1..Len(front) : front[o] = e \/ \E j \in 1..Len(m.entries) : front[o] = m.entries[j]
    <3>1. Taken(others, m.entries) BY <1>5, <2>2, <2>4, EntriesButTaken
    <3>2. Fronted(<<e>> \o others, e, m.entries) BY <3>1, FrontedOK
    <3> QED BY <2>5, <3>2 DEF Fronted
  <2>7. e.rate \in Rates BY DEF CacheEntry
  <2>8. ~m.closed => \A o \in 1..Len(m.entries) :
                       m.meta.version > 0 /\ m.entries[o].rate = Match(Stored(m.db), m.entries[o].query)
      BY <1>1, <1>4 DEF ManagerOK
  <2>9. ~m.closed => \A o \in 1..Len(front) :
                       m.meta.version > 0 /\ front[o].rate = Match(Stored(m.db), front[o].query)
    <3> SUFFICES ASSUME ~m.closed, NEW o \in 1..Len(front)
                 PROVE  m.meta.version > 0 /\ front[o].rate = Match(Stored(m.db), front[o].query)
        OBVIOUS
    <3>1. PICK j \in 1..Len(m.entries) : front[o] = m.entries[j] BY <2>2, <2>3, <2>6
    <3> QED BY <2>8, <3>1
  <2>10. ~m.closed => m.meta.version > 0 /\ e.rate = Match(Stored(m.db), x.query) BY <2>2, <2>3, <2>8
  <2>11. managers' = [managers EXCEPT ![i].entries = front]
    <3>1. managers \in Seq(PriceManager) BY DEF PriceInv, PriceTypeOK
    <3> QED BY <1>4, <2>1, <2>3, <2>4, <2>5, <3>1
  <2> QED BY <1>6, <2>1, <2>3, <2>6, <2>7, <2>9, <2>10, <2>11
<1>8. ASSUME LookupFill(c) PROVE PriceInv'
  <2>0. x.at = "fill" BY <1>2, <1>8 DEF LookupFill
  <2>1. ~m.closed /\ m.meta.version > 0 /\ x.rate = Match(Stored(m.db), x.query) /\ x.query \in Queries
      BY <1>1, <1>2, <1>3, <1>4, <2>0 DEF CallOK
  <2>2. PICK e : e = [query |-> x.query, rate |-> x.rate] OBVIOUS
  <2>3. x.rate \in Rates BY DEF PriceCall
  <2>4. e \in CacheEntry /\ e.query = x.query /\ e.rate = x.rate BY <2>1, <2>2, <2>3 DEF CacheEntry
  <2>5. PICK others : others = IF Cached(m, x.query) = {} THEN m.entries
                               ELSE EntriesBut(m.entries, CHOOSE n \in Cached(m, x.query) : TRUE)
      OBVIOUS
  <2>6. Taken(others, m.entries)
    <3>1. CASE Cached(m, x.query) = {}
      <4>1. others = m.entries BY <2>5, <3>1
      <4> QED BY <1>5, <4>1 DEF Taken
    <3>2. CASE Cached(m, x.query) # {}
      <4>1. Cached(m, x.query) \subseteq 1..Len(m.entries) BY <1>5 DEF Cached
      <4>2. PICK n : n = CHOOSE o \in Cached(m, x.query) : TRUE OBVIOUS
      <4>3. n \in 1..Len(m.entries) BY <3>2, <4>1, <4>2
      <4>4. others = EntriesBut(m.entries, n) BY <2>5, <3>2, <4>2
      <4> QED BY <1>5, <4>3, <4>4, EntriesButTaken
    <3> QED BY <3>1, <3>2
  <2>7. PICK front : front = <<e>> \o others OBVIOUS
  <2>8. /\ front \in Seq(CacheEntry) /\ Len(front) > 0
        /\ \A o \in 1..Len(front) : front[o] = e \/ \E j \in 1..Len(m.entries) : front[o] = m.entries[j]
    <3>1. Fronted(<<e>> \o others, e, m.entries) BY <2>4, <2>6, FrontedOK
    <3> QED BY <2>7, <3>1 DEF Fronted
  <2>9. PICK kept : kept = SubSeq(front, 1, Least(Len(front), Capacity)) OBVIOUS
  <2>10. /\ kept \in Seq(CacheEntry)
         /\ \A o \in 1..Len(kept) : \E p \in 1..Len(front) : kept[o] = front[p]
    <3>1. PICK cut : cut = Least(Len(front), Capacity) OBVIOUS
    <3>2. cut \in Nat /\ cut <= Len(front) /\ cut > 0 BY <2>8, <3>1, PriceAssumption DEF Least
    <3>3. \A o \in 1..cut : front[o] \in CacheEntry BY <2>8, <3>2
    <3>4. /\ SubSeq(front, 1, cut) \in Seq(CacheEntry)
          /\ Len(SubSeq(front, 1, cut)) = IF 1 <= cut THEN cut - 1 + 1 ELSE 0
          /\ \A o \in 1..(cut - 1 + 1) : SubSeq(front, 1, cut)[o] = front[1 + o - 1]
        BY <3>2, <3>3, SubSeqProperties
    <3>5. \A o \in 1..Len(kept) : o \in 1..(cut - 1 + 1) /\ 1 + o - 1 = o /\ o \in 1..Len(front)
        BY <2>9, <3>1, <3>2, <3>4
    <3> QED BY <2>9, <3>1, <3>4, <3>5
  <2>11. \A o \in 1..Len(m.entries) :
           m.meta.version > 0 /\ m.entries[o].rate = Match(Stored(m.db), m.entries[o].query)
      BY <1>1, <1>4, <2>1 DEF ManagerOK
  <2>12. \A p \in 1..Len(front) : front[p].rate = Match(Stored(m.db), front[p].query)
    <3> SUFFICES ASSUME NEW p \in 1..Len(front) PROVE front[p].rate = Match(Stored(m.db), front[p].query) OBVIOUS
    <3>1. CASE front[p] = e BY <2>1, <2>4, <3>1
    <3>2. CASE front[p] # e BY <2>8, <2>11, <3>2
    <3> QED BY <3>1, <3>2
  <2>13. \A o \in 1..Len(kept) : m.meta.version > 0 /\ kept[o].rate = Match(Stored(m.db), kept[o].query)
      BY <2>1, <2>10, <2>12
  <2>14. /\ managers' = [managers EXCEPT ![i].entries = kept]
         /\ call' = [call EXCEPT ![c] = LookedUp(c, x.rate, Of(c))]
         /\ UNCHANGED <<disk, clock, quiet>>
      BY <1>2, <1>3, <1>4, <1>8, <2>2, <2>5, <2>7, <2>9 DEF LookupFill
  <2> QED BY <1>6, <2>1, <2>3, <2>10, <2>13, <2>14
<1> QED BY <1>7, <1>8

(* The end of a download, of whatever outcome. *)
EndsAs(c, i, error, m, k) ==
    /\ managers' = [managers EXCEPT ![i] = m] /\ call' = [call EXCEPT ![c] = k]
    /\ m.db = managers[i].db /\ (m.closed <=> managers[i].closed) /\ m.entries = managers[i].entries
    /\ m.meta = (IF error THEN Failure(managers[i].meta) ELSE managers[i].meta)
    /\ m.meta.version = managers[i].meta.version
    /\ (k # NoCall => CallOK(k)) /\ k.at # "fill"

LEMMA EndedOK ==
    ASSUME PriceInv, NEW c \in Callers, call[c].at # "idle", NEW error \in BOOLEAN, NEW storage \in BOOLEAN,
           NEW i \in 1..Len(managers), i = call[c].manager, Ended(c, i, error, storage)
    PROVE  \E m \in PriceManager, k \in {NoCall} \cup PriceCall : EndsAs(c, i, error, m, k)
<1>1. managers \in Seq(PriceManager) /\ clock \in Nat BY DEF PriceInv, PriceTypeOK
<1>2. PICK o \in PriceManager : o = managers[i] BY <1>1
<1>3. o.meta \in PriceMeta /\ o.sequence \in Nat BY DEF PriceManager
<1>4. PICK meta : meta = IF error THEN Failure(o.meta) ELSE o.meta OBVIOUS
<1>5. meta \in PriceMeta /\ meta.version = o.meta.version
  <2>1. o.meta.failures \in Nat BY <1>3 DEF PriceMeta
  <2>2. RetryDelay(o.meta.failures + 1) \in Nat BY <2>1, DelaysGrow
  <2>3. PICK pause \in Int : pause = clock + RetryDelay(o.meta.failures + 1) BY <1>1, <2>2
  <2>4. PICK n \in Nat : n = o.meta.failures + 1 BY <2>1
  <2>5. PICK f : f = [o.meta EXCEPT !.failures = n, !.retryAfter = pause] OBVIOUS
  <2>6. f \in PriceMeta /\ f.version = o.meta.version BY <1>3, <2>5 DEF PriceMeta
  <2>7. Failure(o.meta) = f BY <2>3, <2>4, <2>5 DEF Failure
  <2> QED BY <1>3, <1>4, <2>6, <2>7
<1>s. PICK sequence \in Nat : sequence = o.sequence + 1 BY <1>3
<1>6. PICK m : m = [o EXCEPT !.meta = meta, !.sequence = sequence, !.refresher = NoCaller,
                             !.error = error, !.storage = storage]
    OBVIOUS
<1>7. /\ m \in PriceManager /\ m.db = o.db /\ (m.closed <=> o.closed) /\ m.entries = o.entries /\ m.meta = meta
    BY <1>5, <1>6 DEF PriceManager
<1>8. managers' = [managers EXCEPT ![i] = m]
  <2>1. m = [managers[i] EXCEPT !.meta = IF error THEN Failure(@) ELSE @, !.sequence = @ + 1,
                                !.refresher = NoCaller, !.error = error, !.storage = storage]
      BY <1>2, <1>4, <1>s, <1>6
  <2> QED BY <2>1 DEF Ended
<1>9. PICK k : k = Refreshed(c, error, storage) OBVIOUS
<1>10. k \in {NoCall} \cup PriceCall /\ (k # NoCall => CallOK(k)) /\ k.at # "fill" BY <1>9, RefreshedOK
<1>11. call' = [call EXCEPT ![c] = k] BY <1>9 DEF Ended
<1>12. EndsAs(c, i, error, m, k) BY <1>2, <1>4, <1>5, <1>7, <1>8, <1>10, <1>11 DEF EndsAs
<1> QED BY <1>7, <1>10, <1>12

\* A failure tells a pause no shorter than the one told before.
LEMMA FailurePaces ==
    ASSUME NEW meta \in PriceMeta, clock \in Nat, Delayed(meta)
    PROVE  LET f == Failure(meta) IN
           /\ f \in PriceMeta /\ f.version = meta.version /\ f.fetched = meta.fetched
           /\ f.retryAfter = clock + RetryDelay(f.failures) /\ meta.retryAfter <= f.retryAfter /\ Delayed(f)
<1>1. meta.failures \in Nat /\ meta.retryAfter \in Int BY DEF PriceMeta
<1>2. /\ RetryDelay(meta.failures + 1) \in Nat
      /\ meta.failures # 0 => RetryDelay(meta.failures) <= RetryDelay(meta.failures + 1)
    BY <1>1, DelaysGrow
<1>3. PICK pause \in Int : pause = clock + RetryDelay(meta.failures + 1) BY <1>2
<1>n. PICK n \in Nat : n = meta.failures + 1 BY <1>1
<1>4. PICK f : f = [meta EXCEPT !.failures = n, !.retryAfter = pause] OBVIOUS
<1>5. /\ f \in PriceMeta /\ f.version = meta.version /\ f.fetched = meta.fetched
      /\ f.failures = meta.failures + 1 /\ f.retryAfter = pause
    BY <1>n, <1>4 DEF PriceMeta
<1>6. Failure(meta) = f BY <1>3, <1>n, <1>4 DEF Failure
<1>7. meta.retryAfter <= pause
  <2>1. CASE meta.failures = 0
    <3>1. meta.retryAfter <= clock BY <2>1 DEF Delayed
    <3> QED BY <1>1, <1>2, <1>3, <3>1
  <2>2. CASE meta.failures # 0
    <3>1. RetryDelay(meta.failures) \in Nat
      <4>1. meta.failures - 1 \in Nat /\ (meta.failures - 1) + 1 = meta.failures BY <1>1, <2>2
      <4> QED BY <4>1, DelaysGrow
    <3>2. meta.retryAfter <= clock + RetryDelay(meta.failures) BY <2>2 DEF Delayed
    <3> QED BY <1>1, <1>2, <1>3, <2>2, <3>1, <3>2
  <2> QED BY <2>1, <2>2
<1>8. Delayed(f) BY <1>1, <1>3, <1>5 DEF Delayed
<1> QED BY <1>3, <1>5, <1>6, <1>7, <1>8

LEMMA DownloadSteps ==
    ASSUME PriceInv, NEW c \in Callers, StartDownload(c) \/ FailureUnsaved(c) \/ FinishDownload(c)
    PROVE  PriceInv'
<1>0. call[c].at # "idle" BY DEF StartDownload, FailureUnsaved, FinishDownload
<1>1. /\ call[c] \in PriceCall /\ CallOK(call[c]) /\ call[c].manager \in 1..Len(managers) /\ Of(c) \in PriceManager
      /\ ~Of(c).closed => ManagerOK(Of(c))
    BY <1>0, ActiveCall
<1>2. PICK i \in 1..Len(managers) : i = call[c].manager BY <1>1
<1>3. PICK o \in PriceManager : o = managers[i] /\ o = Of(c) BY <1>1, <1>2 DEF Of
<1>4. managers \in Seq(PriceManager) /\ clock \in Nat /\ quiet \in [Databases -> Int] BY DEF PriceInv, PriceTypeOK
<1>5. ASSUME StartDownload(c) PROVE PriceInv'
  <2>1. PICK x \in PriceCall : x = call[c] BY <1>1
  <2>2. PICK k : k = [x EXCEPT !.at = "download"] OBVIOUS
  <2>3. /\ k \in PriceCall /\ k.manager = x.manager /\ k.query = x.query /\ k.rate = x.rate /\ k.since = x.since
        /\ k.at = "download"
      BY <2>2 DEF PriceCall
  <2>4. CallOK(k) BY <1>1, <2>1, <2>3, MovedOn
  <2>5. PICK m : m = [o EXCEPT !.refresher = c] OBVIOUS
  <2>6. m \in PriceManager /\ m.db = o.db /\ (m.closed <=> o.closed) /\ m.entries = o.entries /\ m.meta = o.meta
      BY <2>5 DEF PriceManager
  <2>7. ~m.closed => ManagerOK(m) BY <1>1, <1>3, <2>6 DEF ManagerOK
  <2>8. managers' = [managers EXCEPT ![i] = m] BY <1>2, <1>3, <1>4, <1>5, <2>5 DEF StartDownload
  <2>9. call' = [call EXCEPT ![c] = k] /\ UNCHANGED <<disk, clock, quiet>> BY <1>5, <2>1, <2>2 DEF StartDownload
  <2> QED BY <1>3, <2>3, <2>4, <2>6, <2>7, <2>8, <2>9, OneManagerOneCall
<1>6. ASSUME NEW error \in BOOLEAN, NEW storage \in BOOLEAN, Ended(c, i, error, storage),
             UNCHANGED <<disk, clock, quiet>>
      PROVE  PriceInv'
  <2>0. PICK m \in PriceManager, k \in {NoCall} \cup PriceCall : EndsAs(c, i, error, m, k)
      BY <1>0, <1>2, <1>6, EndedOK
  <2>1. /\ managers' = [managers EXCEPT ![i] = m] /\ call' = [call EXCEPT ![c] = k]
        /\ m.db = managers[i].db /\ (m.closed <=> managers[i].closed) /\ m.entries = managers[i].entries
        /\ m.meta = (IF error THEN Failure(managers[i].meta) ELSE managers[i].meta)
        /\ m.meta.version = managers[i].meta.version
        /\ k # NoCall => CallOK(k)
      BY <2>0 DEF EndsAs
  <2>2. ASSUME ~m.closed PROVE ManagerOK(m)
    <3>1. ManagerOK(o) /\ o.meta \in PriceMeta /\ o.db \in Databases BY <1>1, <1>3, <2>1, <2>2 DEF PriceManager
    <3>2. CASE ~error BY <1>3, <2>1, <3>1, <3>2 DEF ManagerOK
    <3>3. CASE error
      <4>1. Delayed(o.meta) /\ Paced(o.meta, quiet[o.db]) BY <3>1 DEF ManagerOK
      <4>2. PICK f \in PriceMeta : /\ f = Failure(o.meta) /\ f.version = o.meta.version /\ f.fetched = o.meta.fetched
                                   /\ o.meta.retryAfter <= f.retryAfter /\ Delayed(f)
          BY <1>4, <3>1, <4>1, FailurePaces
      <4>3. o.meta.retryAfter \in Int /\ f.retryAfter \in Int /\ quiet[o.db] \in Int BY <1>4, <3>1 DEF PriceMeta
      <4>4. Paced(f, quiet[o.db]) BY <4>1, <4>2, <4>3 DEF Paced
      <4>5. m.meta = f /\ m.db = o.db /\ m.entries = o.entries BY <1>3, <2>1, <3>3, <4>2
      <4>6. m.meta.version = Len(disk[m.db].log) BY <3>1, <4>2, <4>5 DEF ManagerOK
      <4>7. Paced(m.meta, quiet[m.db]) /\ Delayed(m.meta) BY <4>2, <4>4, <4>5
      <4>8. \A n \in 1..Len(m.entries) :
              m.meta.version > 0 /\ m.entries[n].rate = Match(Stored(m.db), m.entries[n].query)
          BY <3>1, <4>2, <4>5 DEF ManagerOK
      <4> QED BY <4>6, <4>7, <4>8 DEF ManagerOK
    <3> QED BY <3>2, <3>3
  <2> QED BY <1>6, <2>1, <2>2, OneManagerOneCall
<1>7. ASSUME FailureUnsaved(c) PROVE PriceInv'
  <2>1. PICK storage \in BOOLEAN : storage = (call[c].failed \/ ~managers[i].closed) OBVIOUS
  <2>2. Ended(c, i, TRUE, storage) /\ UNCHANGED <<disk, clock, quiet>> BY <1>2, <1>7, <2>1 DEF FailureUnsaved
  <2> QED BY <1>6, <2>2
<1>8. ASSUME FinishDownload(c) PROVE PriceInv' BY <1>2, <1>6, <1>8 DEF FinishDownload
<1> QED BY <1>5, <1>7, <1>8

Longer(log, new) == Len(log) <= Len(new) /\ \A n \in 1..Len(log) : new[n] = log[n]

LEMMA StillWitnessed ==
    ASSUME NEW k \in PriceCall, NEW log \in Seq(Documents), NEW new \in Seq(Documents), Longer(log, new), Witnessed(k, log)
    PROVE  Witnessed(k, new)
<1>1. k.since \in Nat BY DEF PriceCall
<1>2. Len(log) \in Nat /\ Len(new) \in Nat /\ Len(log) <= Len(new) BY DEF Longer
<1>3. k.since <= Len(new) BY <1>1, <1>2 DEF Witnessed
<1>4. ASSUME k.rate # NoRate
      PROVE  \E v \in k.since..Len(new) \cap 1..MaxVersions : Match(new[v], k.query) = k.rate
  <2>1. PICK v \in k.since..Len(log) \cap 1..MaxVersions : Match(log[v], k.query) = k.rate BY <1>4 DEF Witnessed
  <2>2. v \in Nat /\ v >= 1 /\ v <= Len(log) /\ v >= k.since /\ v \in 1..MaxVersions BY <1>1, <1>2, <2>1, PriceAssumption
  <2>3. v \in 1..Len(log) /\ v \in k.since..Len(new) BY <1>1, <1>2, <2>2
  <2>4. new[v] = log[v] BY <2>3 DEF Longer
  <2> QED BY <2>1, <2>2, <2>3, <2>4
<1> QED BY <1>3, <1>4 DEF Witnessed

(* A step that saves something in the database of an open manager: its document and metadata. *)
Saves(i, m, log, until) ==
    /\ ~managers[i].closed /\ ~m.closed /\ m.db = managers[i].db /\ StorageFree(i)
    /\ Len(log) <= MaxVersions /\ Longer(disk[m.db].log, log)
    /\ m.meta.version = Len(log) /\ Paced(m.meta, until) /\ Delayed(m.meta)
    /\ \A n \in 1..Len(m.entries) :
         m.meta.version > 0 /\ m.entries[n].rate = Match(log[Len(log)], m.entries[n].query)
    /\ managers' = [managers EXCEPT ![i] = m]
    /\ disk' = [disk EXCEPT ![m.db] = [log |-> log, meta |-> m.meta]]
    /\ quiet' = [quiet EXCEPT ![m.db] = until] /\ clock' = clock

LEMMA OneDatabase ==
    ASSUME PriceInv, NEW i \in 1..Len(managers), NEW m \in PriceManager, NEW log \in Seq(Documents), NEW until \in Int,
           Saves(i, m, log, until), NEW c \in Callers, NEW k \in {NoCall} \cup PriceCall,
           call' = [call EXCEPT ![c] = k], k # NoCall => CallOK(k), k.at # "fill"
    PROVE  PriceInv'
<1>1. /\ disk \in [Databases -> [log : Seq(Documents), meta : PriceMeta]] /\ managers \in Seq(PriceManager)
      /\ call \in [Callers -> {NoCall} \cup PriceCall] /\ clock \in Nat /\ quiet \in [Databases -> Int] /\ Opened
    BY DEF PriceInv, PriceTypeOK
<1>2. m.db \in Databases /\ m.meta \in PriceMeta BY DEF PriceManager
<1>3. managers' \in Seq(PriceManager) /\ Len(managers') = Len(managers)
      /\ \A n \in 1..Len(managers) : managers'[n] = IF n = i THEN m ELSE managers[n]
    BY <1>1 DEF Saves
<1>4. PICK d \in [log : Seq(Documents), meta : PriceMeta] : d = [log |-> log, meta |-> m.meta] BY <1>2
<1>5. d.log = log /\ d.meta = m.meta BY <1>4
<1>6. /\ disk' \in [Databases -> [log : Seq(Documents), meta : PriceMeta]] /\ quiet' \in [Databases -> Int]
      /\ \A db \in Databases : /\ disk'[db] = IF db = m.db THEN d ELSE disk[db]
                               /\ quiet'[db] = IF db = m.db THEN until ELSE quiet[db]
    BY <1>1, <1>2, <1>4 DEF Saves
<1>7. call' \in [Callers -> {NoCall} \cup PriceCall] BY <1>1
<1>8. PriceTypeOK' BY <1>1, <1>3, <1>6, <1>7 DEF PriceTypeOK, Saves
<1>9. \A n \in 1..Len(managers) : managers'[n].db = managers[n].db /\ (managers'[n].closed <=> managers[n].closed)
    BY <1>3 DEF Saves
<1>10. Opened'
  <2>1. Len(managers) \in 1..Len(managers) /\ managers' # <<>> BY <1>1, <1>3 DEF Opened
  <2>2. ~managers'[Len(managers)].closed BY <1>1, <1>9, <2>1 DEF Opened
  <2>3. \A n, o \in 1..Len(managers) :
           ~managers'[n].closed /\ ~managers'[o].closed /\ n # o => managers'[n].db # managers'[o].db
      BY <1>1, <1>9 DEF Opened
  <2> QED BY <1>3, <2>1, <2>2, <2>3 DEF Opened
<1>11. \A db \in Databases : DatabaseOK(db)'
  <2>1. ASSUME NEW db \in Databases PROVE DatabaseOK(db)'
    <3>1. CASE db = m.db
      <4>1. disk'[db] = d /\ quiet'[db] = until /\ clock' = clock BY <1>6, <3>1 DEF Saves
      <4> QED BY <1>5, <4>1 DEF Saves, DatabaseOK, Paced, Delayed
    <3>2. CASE db # m.db
      <4>1. disk'[db] = disk[db] /\ quiet'[db] = quiet[db] /\ clock' = clock BY <1>6, <3>2 DEF Saves
      <4>2. DatabaseOK(db) BY DEF PriceInv
      <4> QED BY <4>1, <4>2 DEF DatabaseOK, Paced, Delayed
    <3> QED BY <3>1, <3>2
  <2> QED BY <2>1
<1>12. ASSUME NEW n \in 1..Len(managers), n # i, ~managers[n].closed
       PROVE  managers[n].db # m.db /\ managers[n].db \in Databases /\ ManagerOK(managers[n])
  <2>1. managers[n] \in PriceManager BY <1>1
  <2>2. managers[n].db # managers[i].db BY <1>1, <1>12 DEF Opened, Saves
  <2> QED BY <1>12, <2>1, <2>2 DEF Saves, PriceManager, PriceInv
<1>13. \A n \in 1..Len(managers) : ~managers'[n].closed => ManagerOK(managers[n])'
  <2>1. ASSUME NEW n \in 1..Len(managers), ~managers'[n].closed PROVE ManagerOK(managers[n])'
    <3>1. CASE n = i
      <4>1. managers'[n] = m BY <1>3, <3>1
      <4>2. disk'[m.db] = d /\ quiet'[m.db] = until /\ clock' = clock BY <1>2, <1>6 DEF Saves
      <4>3. ManagerOK(m)' BY <1>5, <4>2 DEF ManagerOK, Saves, Paced, Delayed, Stored
      <4> QED BY <4>1, <4>3 DEF ManagerOK
    <3>2. CASE n # i
      <4>1. PICK x : x = managers[n] OBVIOUS
      <4>2. managers'[n] = x BY <1>3, <3>2, <4>1
      <4>3. x.db # m.db /\ x.db \in Databases /\ ManagerOK(x) BY <1>9, <1>12, <2>1, <3>2, <4>1
      <4>4. disk'[x.db] = disk[x.db] /\ quiet'[x.db] = quiet[x.db] /\ clock' = clock BY <1>6, <4>3 DEF Saves
      <4>5. ManagerOK(x)' BY <4>3, <4>4 DEF ManagerOK, Paced, Delayed, Stored
      <4> QED BY <4>2, <4>5 DEF ManagerOK
    <3> QED BY <3>1, <3>2
  <2> QED BY <2>1
<1>14. ASSUME NEW x \in PriceCall, CallOK(x), ~(x.at = "fill" /\ x.manager = i) PROVE CallOK(x)'
  <2>1. x.manager \in 1..Len(managers) BY <1>14 DEF CallOK
  <2>2. CASE x.manager = i
    <3>1. managers'[x.manager] = m /\ managers[x.manager].db = m.db /\ ~managers[x.manager].closed
        BY <1>3, <2>1, <2>2 DEF Saves
    <3>2. disk'[m.db].log = log /\ disk[m.db].log \in Seq(Documents) BY <1>1, <1>2, <1>5, <1>6
    <3>3. Witnessed(x, disk[m.db].log) BY <1>14, <3>1 DEF CallOK
    <3>4. Longer(disk[m.db].log, log) BY DEF Saves
    <3>5. Witnessed(x, log) BY <3>2, <3>3, <3>4, StillWitnessed
    <3>6. x.at # "fill" /\ (x.at \in {"lookup", "fill"} => x.query \in Queries) BY <1>14, <2>2 DEF CallOK
    <3> QED BY <1>3, <2>1, <3>1, <3>2, <3>5, <3>6 DEF CallOK
  <2>3. CASE x.manager # i
    <3>1. PICK w : w = managers[x.manager] OBVIOUS
    <3>2. managers'[x.manager] = w BY <1>3, <2>1, <2>3, <3>1
    <3>3. CASE w.closed BY <1>3, <1>14, <2>1, <3>1, <3>2, <3>3 DEF CallOK
    <3>4. CASE ~w.closed
      <4>1. w.db # m.db /\ w.db \in Databases BY <1>12, <2>1, <2>3, <3>1, <3>4
      <4>2. disk'[w.db] = disk[w.db] BY <1>6, <4>1
      <4>3. x.at = "fill" => w.meta.version > 0 /\ x.rate = Match(Stored(w.db), x.query) BY <1>14, <3>1, <3>4 DEF CallOK
      <4>4. x.at \in {"lookup", "fill"} => x.query \in Queries BY <1>14 DEF CallOK
      <4>5. Witnessed(x, disk[w.db].log) BY <1>14, <3>1, <3>4 DEF CallOK
      <4>6. Stored(w.db)' = Stored(w.db) BY <4>2 DEF Stored
      <4> QED BY <1>3, <2>1, <3>2, <3>4, <4>2, <4>3, <4>4, <4>5, <4>6 DEF CallOK
    <3> QED BY <3>3, <3>4
  <2> QED BY <2>2, <2>3
<1>15. \A b \in Callers : call'[b] # NoCall => CallOK(call[b])'
  <2>1. ASSUME NEW b \in Callers, call'[b] # NoCall PROVE CallOK(call[b])'
    <3>1. PICK x : x = call'[b] OBVIOUS
    <3>2. x \in PriceCall /\ CallOK(x) /\ ~(x.at = "fill" /\ x.manager = i)
      <4>1. CASE b = c
        <5>1. x = k BY <1>1, <3>1, <4>1
        <5> QED BY <2>1, <3>1, <5>1
      <4>2. CASE b # c
        <5>1. x = call[b] /\ x # NoCall BY <1>1, <2>1, <3>1, <4>2
        <5>2. ~Holds(b, i) BY DEF Saves, StorageFree
        <5>3. x \in PriceCall /\ CallOK(x) BY <1>1, <5>1 DEF PriceInv
        <5> QED BY <5>1, <5>2, <5>3 DEF Holds
      <4> QED BY <4>1, <4>2
    <3>3. CallOK(x)' BY <1>14, <3>2
    <3> QED BY <3>1, <3>3 DEF CallOK
  <2> QED BY <2>1
<1> QED BY <1>3, <1>8, <1>10, <1>11, <1>13, <1>15 DEF PriceInv

LEMMA PublishKeeps ==
    ASSUME PriceInv, NEW c \in Callers, NEW doc \in Documents, Publish(c, doc)
    PROVE  PriceInv'
<1>0. call[c].at = "download" BY DEF Publish
<1>1. /\ call[c] \in PriceCall /\ CallOK(call[c]) /\ call[c].manager \in 1..Len(managers) /\ Of(c) \in PriceManager
      /\ ~Of(c).closed => ManagerOK(Of(c))
    BY <1>0, ActiveCall
<1>2. PICK x \in PriceCall : x = call[c] BY <1>1
<1>3. PICK i \in 1..Len(managers) : i = x.manager BY <1>1, <1>2
<1>4. PICK o \in PriceManager : o = managers[i] /\ o = Of(c) BY <1>1, <1>2, <1>3 DEF Of
<1>5. ~o.closed /\ ManagerOK(o) /\ StorageFree(i) BY <1>1, <1>2, <1>3, <1>4 DEF Publish
<1>6. /\ disk \in [Databases -> [log : Seq(Documents), meta : PriceMeta]] /\ managers \in Seq(PriceManager)
      /\ clock \in Nat /\ o.db \in Databases
    BY DEF PriceInv, PriceTypeOK, PriceManager
<1>7. PICK old \in Seq(Documents) : old = disk[o.db].log BY <1>6
<1>8. PICK unchanged \in BOOLEAN : unchanged <=> (old # <<>> /\ Stored(o.db) = doc) OBVIOUS
<1>9. PICK log : log = IF unchanged THEN old ELSE Append(old, doc) OBVIOUS
<1>10. log \in Seq(Documents) /\ Len(log) > 0 /\ Longer(old, log) BY <1>8, <1>9 DEF Longer
<1>11. PICK version \in Nat : version = Len(log) BY <1>10
<1>12. PICK next : next = [version |-> version, fetched |-> clock, failures |-> 0, retryAfter |-> NeverTried] OBVIOUS
<1>13. /\ next \in PriceMeta /\ next.version = Len(log) /\ next.fetched = clock /\ next.failures = 0
       /\ next.retryAfter = NeverTried
    BY <1>6, <1>11, <1>12 DEF PriceMeta, NeverTried
<1>14. PICK entries : entries = IF unchanged THEN o.entries ELSE <<>> OBVIOUS
<1>15. entries \in Seq(CacheEntry) BY <1>14 DEF PriceManager
<1>16. \A n \in 1..Len(entries) : entries[n].rate = Match(log[Len(log)], entries[n].query)
  <2>1. CASE unchanged
    <3>1. entries = o.entries /\ log = old BY <1>9, <1>14, <2>1
    <3> QED BY <1>5, <1>7, <3>1 DEF ManagerOK, Stored
  <2>2. CASE ~unchanged
    <3>1. entries = <<>> BY <1>14, <2>2
    <3> QED BY <3>1
  <2> QED BY <2>1, <2>2
<1>17. PICK m : m = [o EXCEPT !.meta = next, !.entries = entries] OBVIOUS
<1>18. /\ m \in PriceManager /\ m.db = o.db /\ (m.closed <=> o.closed) /\ m.meta = next /\ m.entries = entries
    BY <1>13, <1>15, <1>17 DEF PriceManager
<1>19. PICK until \in Int : until = clock + 60 BY <1>6
<1>20. Paced(next, until) /\ Delayed(next) BY <1>6, <1>10, <1>11, <1>13, <1>19 DEF Paced, Delayed, NeverTried
<1>21. /\ disk' = [disk EXCEPT ![o.db] = [log |-> log, meta |-> next]] /\ Len(log) <= MaxVersions
       /\ managers' = [managers EXCEPT ![i].meta = next, ![i].entries = IF unchanged THEN @ ELSE <<>>]
       /\ call' = [call EXCEPT ![c].at = "finish", ![c].failed = FALSE]
       /\ quiet' = [quiet EXCEPT ![o.db] = until] /\ clock' = clock
    BY <1>2, <1>3, <1>4, <1>7, <1>8, <1>9, <1>11, <1>12, <1>19 DEF Publish
<1>22. managers' = [managers EXCEPT ![i] = m] BY <1>4, <1>6, <1>14, <1>17, <1>21
<1>23. Saves(i, m, log, until)
  <2>1. ~managers[i].closed /\ ~m.closed /\ m.db = managers[i].db /\ StorageFree(i) BY <1>4, <1>5, <1>18
  <2>2. Len(log) <= MaxVersions /\ Longer(disk[m.db].log, log) /\ m.meta.version = Len(log)
      BY <1>7, <1>10, <1>13, <1>18, <1>21
  <2>3. Paced(m.meta, until) /\ Delayed(m.meta) BY <1>18, <1>20
  <2>4. \A n \in 1..Len(m.entries) :
          m.meta.version > 0 /\ m.entries[n].rate = Match(log[Len(log)], m.entries[n].query)
      BY <1>10, <1>13, <1>16, <1>18
  <2>5. /\ disk' = [disk EXCEPT ![m.db] = [log |-> log, meta |-> m.meta]]
        /\ quiet' = [quiet EXCEPT ![m.db] = until] /\ clock' = clock
      BY <1>18, <1>21
  <2> QED BY <1>22, <2>1, <2>2, <2>3, <2>4, <2>5 DEF Saves
<1>24. PICK k : k = [x EXCEPT !.at = "finish", !.failed = FALSE] OBVIOUS
<1>25. /\ k \in PriceCall /\ k.manager = x.manager /\ k.query = x.query /\ k.rate = x.rate /\ k.since = x.since
       /\ k.at = "finish"
    BY <1>24 DEF PriceCall
<1>26. CallOK(k) BY <1>1, <1>2, <1>25, MovedOn
<1>27. call' = [call EXCEPT ![c] = k] BY <1>2, <1>21, <1>24
<1> QED BY <1>10, <1>18, <1>23, <1>25, <1>26, <1>27, OneDatabase

LEMMA FailureSavedKeeps ==
    ASSUME PriceInv, NEW c \in Callers, FailureSaved(c)
    PROVE  PriceInv'
<1>0. call[c].at = "failed" BY DEF FailureSaved
<1>1. /\ call[c] \in PriceCall /\ call[c].manager \in 1..Len(managers) /\ Of(c) \in PriceManager
      /\ ~Of(c).closed => ManagerOK(Of(c))
    BY <1>0, ActiveCall
<1>2. PICK i \in 1..Len(managers) : i = call[c].manager BY <1>1
<1>3. PICK o \in PriceManager : o = managers[i] /\ o = Of(c) BY <1>1, <1>2 DEF Of
<1>4. ~o.closed /\ ManagerOK(o) /\ StorageFree(i) BY <1>1, <1>2, <1>3 DEF FailureSaved
<1>5. /\ disk \in [Databases -> [log : Seq(Documents), meta : PriceMeta]] /\ clock \in Nat
      /\ o.db \in Databases /\ o.meta \in PriceMeta
    BY DEF PriceInv, PriceTypeOK, PriceManager
<1>6. PICK f \in PriceMeta : /\ f = Failure(o.meta) /\ f.version = o.meta.version
                             /\ f.retryAfter = clock + RetryDelay(f.failures) /\ Delayed(f)
  <2>1. Delayed(o.meta) BY <1>4 DEF ManagerOK
  <2> QED BY <1>5, <2>1, FailurePaces
<1>7. PICK until \in Int : until = f.retryAfter BY DEF PriceMeta
<1>8. call[c].failed \in BOOLEAN BY <1>1 DEF PriceCall
<1>9. Ended(c, i, TRUE, call[c].failed) /\ disk' = [disk EXCEPT ![o.db].meta = f]
      /\ quiet' = [quiet EXCEPT ![o.db] = until] /\ clock' = clock
    BY <1>2, <1>3, <1>6, <1>7 DEF FailureSaved
<1>10. PICK m \in PriceManager, k \in {NoCall} \cup PriceCall : EndsAs(c, i, TRUE, m, k)
    BY <1>0, <1>2, <1>8, <1>9, EndedOK
<1>11. /\ managers' = [managers EXCEPT ![i] = m] /\ m.db = o.db /\ (m.closed <=> o.closed) /\ m.entries = o.entries
       /\ m.meta = f
    BY <1>3, <1>6, <1>10 DEF EndsAs
<1>12. PICK log \in Seq(Documents) : log = disk[o.db].log BY <1>5
<1>13. DatabaseOK(o.db) BY <1>5 DEF PriceInv
<1>14. Saves(i, m, log, until)
  <2>1. ~managers[i].closed /\ ~m.closed /\ m.db = managers[i].db /\ StorageFree(i) BY <1>3, <1>4, <1>11
  <2>2. Len(log) <= MaxVersions BY <1>12, <1>13 DEF DatabaseOK
  <2>3. Longer(disk[m.db].log, log) BY <1>11, <1>12 DEF Longer
  <2>4. m.meta.version = Len(log) BY <1>4, <1>6, <1>11, <1>12 DEF ManagerOK
  <2>5. Paced(m.meta, until) /\ Delayed(m.meta) BY <1>6, <1>7, <1>11 DEF Paced
  <2>6. \A n \in 1..Len(m.entries) :
          m.meta.version > 0 /\ m.entries[n].rate = Match(log[Len(log)], m.entries[n].query)
      BY <1>4, <1>6, <1>11, <1>12 DEF ManagerOK, Stored
  <2>7. disk' = [disk EXCEPT ![m.db] = [log |-> log, meta |-> m.meta]]
    <3>1. disk[o.db] \in [log : Seq(Documents), meta : PriceMeta] BY <1>5
    <3>2. [disk[o.db] EXCEPT !.meta = f] = [log |-> log, meta |-> f] BY <1>12, <3>1
    <3> QED BY <1>5, <1>9, <1>11, <3>2
  <2> QED BY <1>9, <1>11, <2>1, <2>2, <2>3, <2>4, <2>5, <2>6, <2>7 DEF Saves
<1> QED BY <1>10, <1>14, OneDatabase DEF EndsAs

(* The steps of the operator, of the configuration, of the process and of time. *)
LEMMA CustomKeeps ==
    ASSUME PriceInv, UNCHANGED <<disk, managers, call, clock, quiet>>
    PROVE  PriceInv'
<1>1. PriceTypeOK' BY DEF PriceInv, PriceTypeOK
<1>2. Opened' BY DEF PriceInv, Opened
<1>3. \A db \in Databases : DatabaseOK(db)' BY DEF PriceInv, DatabaseOK, Paced, Delayed
<1>4. \A i \in 1..Len(managers) : ~managers'[i].closed => ManagerOK(managers[i])'
    BY DEF PriceInv, ManagerOK, Paced, Delayed, Stored
<1>5. \A c \in Callers : call'[c] # NoCall => CallOK(call[c])' BY DEF PriceInv, CallOK, Witnessed, Stored
<1> QED BY <1>1, <1>2, <1>3, <1>4, <1>5 DEF PriceInv

LEMMA ElapseKeeps ==
    ASSUME PriceInv, NEW minutes \in Durations, Elapse(minutes)
    PROVE  PriceInv'
<1>1. minutes \in Nat BY PriceAssumption
<1>2. clock \in Nat /\ clock' = clock + minutes /\ UNCHANGED <<disk, managers, call, quiet>>
    BY DEF PriceInv, PriceTypeOK, Elapse
<1>3. ASSUME NEW meta \in PriceMeta, NEW until \in Int PROVE Paced(meta, until) => Paced(meta, until)'
    BY <1>1, <1>2 DEF Paced
<1>4. ASSUME NEW meta \in PriceMeta PROVE Delayed(meta) => Delayed(meta)'
  <2>1. meta.retryAfter \in Int /\ meta.failures \in Nat BY DEF PriceMeta
  <2>2. CASE meta.failures = 0 BY <1>1, <1>2, <2>1, <2>2 DEF Delayed
  <2>3. CASE meta.failures # 0
    <3>1. RetryDelay(meta.failures) \in Nat
      <4>1. meta.failures - 1 \in Nat /\ (meta.failures - 1) + 1 = meta.failures BY <2>1, <2>3
      <4> QED BY <4>1, DelaysGrow
    <3>2. PICK delay \in Nat : delay = RetryDelay(meta.failures) BY <3>1
    <3> QED BY <1>1, <1>2, <2>1, <2>3, <3>2 DEF Delayed
  <2> QED BY <2>2, <2>3
<1>5. PriceTypeOK' /\ Opened' BY <1>1, <1>2 DEF PriceInv, PriceTypeOK, Opened
<1>6. \A db \in Databases : DatabaseOK(db)'
  <2>1. ASSUME NEW db \in Databases PROVE DatabaseOK(db)'
    <3>1. disk[db].meta \in PriceMeta /\ quiet[db] \in Int /\ DatabaseOK(db) BY DEF PriceInv, PriceTypeOK
    <3>2. Paced(disk[db].meta, quiet[db]) /\ Delayed(disk[db].meta) BY <3>1 DEF DatabaseOK
    <3>3. Paced(disk[db].meta, quiet[db])' /\ Delayed(disk[db].meta)'
      <4>1. PICK meta \in PriceMeta, until \in Int : meta = disk[db].meta /\ until = quiet[db] BY <3>1
      <4>2. Paced(meta, until)' /\ Delayed(meta)' BY <1>3, <1>4, <3>2, <4>1
      <4> QED BY <1>2, <4>1, <4>2 DEF Paced, Delayed
    <3> QED BY <1>2, <3>1, <3>3 DEF DatabaseOK
  <2> QED BY <2>1
<1>7. \A i \in 1..Len(managers) : ~managers'[i].closed => ManagerOK(managers[i])'
  <2>1. ASSUME NEW i \in 1..Len(managers), ~managers'[i].closed PROVE ManagerOK(managers[i])'
    <3>1. PICK m \in PriceManager : m = managers[i] BY DEF PriceInv, PriceTypeOK
    <3>2. ManagerOK(m) /\ m.meta \in PriceMeta /\ quiet[m.db] \in Int
        BY <1>2, <2>1, <3>1 DEF PriceInv, PriceTypeOK, PriceManager
    <3>3. Paced(m.meta, quiet[m.db]) /\ Delayed(m.meta) BY <3>2 DEF ManagerOK
    <3>4. PICK meta \in PriceMeta, until \in Int : meta = m.meta /\ until = quiet[m.db] BY <3>2
    <3>5. Paced(meta, until)' /\ Delayed(meta)' BY <1>3, <1>4, <3>3, <3>4
    <3>6. Paced(m.meta, quiet[m.db])' /\ Delayed(m.meta)' BY <1>2, <3>4, <3>5 DEF Paced, Delayed
    <3>7. ManagerOK(m)' BY <1>2, <3>2, <3>6 DEF ManagerOK, Stored
    <3> QED BY <1>2, <3>1, <3>7 DEF ManagerOK
  <2> QED BY <2>1
<1>8. \A c \in Callers : call'[c] # NoCall => CallOK(call[c])' BY <1>2 DEF PriceInv, CallOK, Witnessed, Stored
<1> QED BY <1>2, <1>5, <1>6, <1>7, <1>8 DEF PriceInv

LEMMA CloseKeeps ==
    ASSUME PriceInv, NEW i \in 1..Current, CloseOld(i)
    PROVE  PriceInv'
<1>1. managers \in Seq(PriceManager) /\ Opened /\ Len(managers) \in Nat BY DEF PriceInv, PriceTypeOK
<1>2. i \in 1..Len(managers) /\ i < Len(managers) /\ StorageFree(i) /\ UNCHANGED <<disk, call, clock, quiet>>
    BY <1>1 DEF CloseOld, Current
<1>3. PICK o \in PriceManager : o = managers[i] BY <1>1, <1>2
<1>4. PICK m : m = [o EXCEPT !.closed = TRUE] OBVIOUS
<1>5. m \in PriceManager /\ m.closed /\ m.db = o.db BY <1>4 DEF PriceManager
<1>6. managers' = [managers EXCEPT ![i] = m] BY <1>1, <1>2, <1>3, <1>4 DEF CloseOld
<1>7. managers' \in Seq(PriceManager) /\ Len(managers') = Len(managers)
      /\ \A n \in 1..Len(managers) : managers'[n] = IF n = i THEN m ELSE managers[n]
    BY <1>1, <1>2, <1>5, <1>6
<1>8. PriceTypeOK' BY <1>2, <1>7 DEF PriceInv, PriceTypeOK
<1>9. Opened'
  <2>1. Len(managers) \in 1..Len(managers) /\ Len(managers) # i /\ managers' # <<>> BY <1>1, <1>2, <1>7
  <2>2. ~managers'[Len(managers)].closed BY <1>1, <1>7, <2>1 DEF Opened
  <2>3. \A n, p \in 1..Len(managers) :
           ~managers'[n].closed /\ ~managers'[p].closed /\ n # p => managers'[n].db # managers'[p].db
      BY <1>1, <1>5, <1>7 DEF Opened
  <2> QED BY <1>7, <2>1, <2>2, <2>3 DEF Opened
<1>10. \A db \in Databases : DatabaseOK(db)' BY <1>2 DEF PriceInv, DatabaseOK, Paced, Delayed
<1>11. \A n \in 1..Len(managers) : ~managers'[n].closed => ManagerOK(managers[n])'
  <2>1. ASSUME NEW n \in 1..Len(managers), ~managers'[n].closed PROVE ManagerOK(managers[n])'
    <3>1. PICK x : x = managers[n] OBVIOUS
    <3>2. managers'[n] = x /\ ~x.closed BY <1>5, <1>7, <2>1, <3>1
    <3>3. ManagerOK(x) BY <3>1, <3>2 DEF PriceInv
    <3>4. ManagerOK(x)' BY <1>2, <3>3 DEF ManagerOK, Paced, Delayed, Stored
    <3> QED BY <3>2, <3>4 DEF ManagerOK
  <2> QED BY <2>1
<1>12. \A c \in Callers : call'[c] # NoCall => CallOK(call[c])'
  <2>1. ASSUME NEW c \in Callers, call'[c] # NoCall PROVE CallOK(call[c])'
    <3>1. PICK x : x = call[c] OBVIOUS
    <3>2. CallOK(x) /\ x.manager \in 1..Len(managers) /\ call'[c] = x BY <1>2, <2>1, <3>1 DEF PriceInv, CallOK
    <3>3. ~(x.at = "fill" /\ x.manager = i) BY <1>2, <3>1 DEF StorageFree, Holds
    <3>4. CASE x.manager = i
      <4>1. managers'[x.manager] = m BY <1>7, <3>2, <3>4
      <4>2. CallOK(x)' BY <1>5, <1>7, <3>2, <3>3, <3>4, <4>1 DEF CallOK
      <4> QED BY <3>2, <4>2 DEF CallOK
    <3>5. CASE x.manager # i
      <4>1. managers'[x.manager] = managers[x.manager] BY <1>7, <3>2, <3>5
      <4>2. CallOK(x)' BY <1>2, <1>7, <3>2, <4>1 DEF CallOK, Witnessed, Stored
      <4> QED BY <3>2, <4>2 DEF CallOK
    <3> QED BY <3>4, <3>5
  <2> QED BY <2>1
<1> QED BY <1>7, <1>8, <1>9, <1>10, <1>11, <1>12 DEF PriceInv

\* What opening a database finds is what was saved in it.
LEMMA NewManagerOK ==
    ASSUME PriceInv, NEW db \in Databases
    PROVE  LET m == Manager(db, disk[db].meta) IN m \in PriceManager /\ ~m.closed /\ m.db = db /\ ManagerOK(m)
<1>1. disk[db] \in [log : Seq(Documents), meta : PriceMeta] /\ DatabaseOK(db) BY DEF PriceInv, PriceTypeOK
<1>2. PICK meta \in PriceMeta : meta = disk[db].meta BY <1>1
<1>3. PICK m : m = Manager(db, meta) OBVIOUS
<1>4. /\ m.db = db /\ m.meta = meta /\ m.closed = FALSE /\ m.entries = <<>> /\ m \in PriceManager
    BY <1>3 DEF Manager, PriceManager
<1>5. m.meta.version = Len(disk[m.db].log) /\ Paced(m.meta, quiet[m.db]) /\ Delayed(m.meta)
    BY <1>1, <1>2, <1>4 DEF DatabaseOK
<1>6. ManagerOK(m) BY <1>4, <1>5 DEF ManagerOK
<1> QED BY <1>2, <1>3, <1>4, <1>6

LEMMA SwitchKeeps ==
    ASSUME PriceInv, NEW db \in Databases, Switch(db)
    PROVE  PriceInv'
<1>1. managers \in Seq(PriceManager) /\ Opened /\ Len(managers) \in Nat BY DEF PriceInv, PriceTypeOK
<1>2. PICK m \in PriceManager : m = Manager(db, disk[db].meta) /\ ~m.closed /\ m.db = db /\ ManagerOK(m)
    BY NewManagerOK
<1>3. /\ managers' = Append(managers, m) /\ UNCHANGED <<disk, call, clock, quiet>>
      /\ db # managers[Len(managers)].db /\ \A i \in 1..(Len(managers) - 1) : managers[i].closed
    BY <1>2 DEF Switch, Current
<1>4. PICK last \in Nat : last = Len(managers) + 1 BY <1>1
<1>5. managers' \in Seq(PriceManager) /\ Len(managers') = last /\ managers'[last] = m
      /\ \A n \in 1..Len(managers) : managers'[n] = managers[n]
    BY <1>1, <1>3, <1>4
<1>6. \A n \in 1..last : n = last \/ n \in 1..Len(managers) BY <1>1, <1>4
<1>7. PriceTypeOK' BY <1>3, <1>5 DEF PriceInv, PriceTypeOK
<1>8. Opened'
  <2>1. \A n \in 1..Len(managers) : ~managers'[n].closed => n = Len(managers)
    <3>1. ASSUME NEW n \in 1..Len(managers), n # Len(managers) PROVE managers'[n].closed
      <4>1. n \in 1..(Len(managers) - 1) BY <1>1, <3>1
      <4> QED BY <1>3, <1>5, <4>1
    <3> QED BY <3>1
  <2>2. \A n \in 1..Len(managers) : ~managers'[n].closed => managers'[n].db # m.db BY <1>2, <1>3, <1>5, <2>1
  <2>3. ASSUME NEW n \in 1..last, NEW p \in 1..last, ~managers'[n].closed, ~managers'[p].closed, n # p
        PROVE  managers'[n].db # managers'[p].db
    <3>1. CASE n = last
      <4>1. p \in 1..Len(managers) BY <1>6, <2>3, <3>1
      <4> QED BY <1>5, <2>2, <2>3, <3>1, <4>1
    <3>2. CASE p = last
      <4>1. n \in 1..Len(managers) BY <1>6, <2>3, <3>2
      <4> QED BY <1>5, <2>2, <2>3, <3>2, <4>1
    <3>3. CASE n # last /\ p # last BY <1>6, <2>1, <2>3, <3>3
    <3> QED BY <3>1, <3>2, <3>3
  <2>4. managers' # <<>> /\ ~managers'[last].closed BY <1>2, <1>4, <1>5
  <2> QED BY <1>5, <2>3, <2>4 DEF Opened
<1>9. \A d \in Databases : DatabaseOK(d)' BY <1>3 DEF PriceInv, DatabaseOK, Paced, Delayed
<1>10. \A n \in 1..last : ~managers'[n].closed => ManagerOK(managers[n])'
  <2>1. ASSUME NEW n \in 1..last, ~managers'[n].closed PROVE ManagerOK(managers[n])'
    <3>1. PICK x : x = managers'[n] OBVIOUS
    <3>2. ManagerOK(x)
      <4>1. CASE n = last BY <1>2, <1>5, <3>1, <4>1
      <4>2. CASE n # last
        <5>1. n \in 1..Len(managers) /\ x = managers[n] BY <1>5, <1>6, <3>1, <4>2
        <5> QED BY <2>1, <3>1, <5>1 DEF PriceInv
      <4> QED BY <4>1, <4>2
    <3>3. ManagerOK(x)' BY <1>3, <3>2 DEF ManagerOK, Paced, Delayed, Stored
    <3> QED BY <3>1, <3>3 DEF ManagerOK
  <2> QED BY <2>1
<1>11. \A c \in Callers : call'[c] # NoCall => CallOK(call[c])'
  <2>1. ASSUME NEW c \in Callers, call'[c] # NoCall PROVE CallOK(call[c])'
    <3>1. PICK x : x = call[c] OBVIOUS
    <3>2. CallOK(x) /\ x.manager \in 1..Len(managers) /\ call'[c] = x BY <1>3, <2>1, <3>1 DEF PriceInv, CallOK
    <3>3. managers'[x.manager] = managers[x.manager] /\ x.manager \in 1..last BY <1>1, <1>4, <1>5, <3>2
    <3>4. CallOK(x)' BY <1>3, <1>5, <3>2, <3>3 DEF CallOK, Witnessed, Stored
    <3> QED BY <3>2, <3>4 DEF CallOK
  <2> QED BY <2>1
<1> QED BY <1>5, <1>7, <1>8, <1>9, <1>10, <1>11 DEF PriceInv

LEMMA RestartPricesKeeps ==
    ASSUME PriceInv, RestartPrices
    PROVE  PriceInv'
<1>1. managers \in Seq(PriceManager) /\ Opened /\ Len(managers) \in Nat /\ Len(managers) # 0
    BY DEF PriceInv, PriceTypeOK, Opened
<1>2. managers[Len(managers)].db \in Databases
  <2>1. managers[Len(managers)] \in PriceManager BY <1>1
  <2> QED BY <2>1 DEF PriceManager
<1>3. PICK m \in PriceManager : /\ m = Manager(managers[Len(managers)].db, disk[managers[Len(managers)].db].meta)
                                /\ ~m.closed /\ ManagerOK(m)
    BY <1>2, NewManagerOK
<1>4. PICK ended : ended = [i \in 1..Len(managers) |-> [managers[i] EXCEPT !.closed = TRUE]] OBVIOUS
<1>5. \A o \in PriceManager : [o EXCEPT !.closed = TRUE] \in PriceManager /\ [o EXCEPT !.closed = TRUE].closed
    BY DEF PriceManager
<1>6. ended \in Seq(PriceManager) /\ Len(ended) = Len(managers) /\ \A i \in 1..Len(managers) : ended[i].closed
  <2>1. \A i \in 1..Len(managers) : managers[i] \in PriceManager BY <1>1
  <2>2. \A i \in 1..Len(managers) : ended[i] = [managers[i] EXCEPT !.closed = TRUE] BY <1>4
  <2>3. \A i \in 1..Len(managers) : ended[i] \in PriceManager /\ ended[i].closed BY <1>5, <2>1, <2>2
  <2>4. DOMAIN ended = 1..Len(managers) BY <1>4
  <2>5. ended \in [1..Len(managers) -> PriceManager] BY <1>4, <2>3, <2>4
  <2> QED BY <1>1, <2>3, <2>5
<1>7. /\ managers' = Append(ended, m) /\ call' = [c \in Callers |-> NoCall]
      /\ UNCHANGED <<disk, clock, quiet>>
    BY <1>3, <1>4 DEF RestartPrices, Current
<1>8. PICK last \in Nat : last = Len(managers) + 1 BY <1>1
<1>9. managers' \in Seq(PriceManager) /\ Len(managers') = last /\ managers'[last] = m
      /\ \A n \in 1..Len(managers) : managers'[n] = ended[n]
    BY <1>6, <1>7, <1>8
<1>10. \A n \in 1..last : ~managers'[n].closed => n = last
  <2>1. \A n \in 1..last : n = last \/ n \in 1..Len(managers) BY <1>1, <1>8
  <2> QED BY <1>6, <1>9, <2>1
<1>11. PriceTypeOK' BY <1>7, <1>9 DEF PriceInv, PriceTypeOK
<1>12. Opened' BY <1>3, <1>8, <1>9, <1>10 DEF Opened
<1>13. \A d \in Databases : DatabaseOK(d)' BY <1>7 DEF PriceInv, DatabaseOK, Paced, Delayed
<1>14. \A n \in 1..last : ~managers'[n].closed => ManagerOK(managers[n])'
  <2>1. ManagerOK(m)' BY <1>3, <1>7 DEF ManagerOK, Paced, Delayed, Stored
  <2>2. ASSUME NEW n \in 1..last, ~managers'[n].closed PROVE ManagerOK(managers[n])'
    <3>1. managers'[n] = m BY <1>9, <1>10, <2>2
    <3> QED BY <2>1, <3>1 DEF ManagerOK
  <2> QED BY <2>2
<1>15. \A c \in Callers : call'[c] = NoCall BY <1>7
<1> QED BY <1>9, <1>11, <1>12, <1>13, <1>14, <1>15 DEF PriceInv

LEMMA PriceInvInit == PriceInit => PriceInv
<1> HAVE PriceInit
<1>1. PICK b \in Databases : managers = <<Manager(b, NoMeta)>> BY DEF PriceInit
<1>2. PICK meta \in PriceMeta : meta = NoMeta /\ meta.version = 0 /\ meta.failures = 0 /\ meta.retryAfter = -1
  <2>1. PICK never \in Int : never = -1 OBVIOUS
  <2>2. PICK meta : meta = [version |-> 0, fetched |-> never, failures |-> 0, retryAfter |-> never] OBVIOUS
  <2>3. meta \in PriceMeta /\ meta.version = 0 /\ meta.failures = 0 /\ meta.retryAfter = never BY <2>2 DEF PriceMeta
  <2>4. NoMeta = meta BY <2>1, <2>2 DEF NoMeta, NeverTried
  <2> QED BY <2>1, <2>3, <2>4
<1>3. PICK m : m = Manager(b, meta) OBVIOUS
<1>4. m \in PriceManager /\ m.db = b /\ m.meta = meta /\ ~m.closed /\ m.entries = <<>>
    BY <1>3 DEF Manager, PriceManager
<1>5. managers = <<m>> BY <1>1, <1>2, <1>3
<1>6. /\ \A db \in Databases : disk[db].log = <<>> /\ disk[db].meta = meta /\ quiet[db] = 0
      /\ disk \in [Databases -> [log : Seq(Documents), meta : PriceMeta]]
      /\ quiet \in [Databases -> Int] /\ clock = 0 /\ call = [c \in Callers |-> NoCall]
  <2>1. PICK d : d = [log |-> <<>>, meta |-> meta] OBVIOUS
  <2>2. d \in [log : Seq(Documents), meta : PriceMeta] /\ d.log = <<>> /\ d.meta = meta BY <2>1
  <2>3. disk = [db \in Databases |-> d] /\ quiet = [db \in Databases |-> 0] BY <1>2, <2>1 DEF PriceInit
  <2>4. clock = 0 /\ call = [c \in Callers |-> NoCall] BY DEF PriceInit
  <2> QED BY <2>2, <2>3, <2>4
<1>7. managers \in Seq(PriceManager) /\ Len(managers) = 1 /\ managers[1] = m BY <1>4, <1>5
<1>8. PriceTypeOK BY <1>6, <1>7 DEF PriceTypeOK
<1>9. Opened
  <2>1. \A i, j \in 1..Len(managers) : i = j BY <1>7
  <2>2. managers # <<>> /\ ~managers[Len(managers)].closed BY <1>4, <1>5, <1>7
  <2> QED BY <2>1, <2>2 DEF Opened
<1>10. Paced(meta, 0) /\ Delayed(meta) BY <1>2, <1>6 DEF Paced, Delayed
<1>11. \A db \in Databases : DatabaseOK(db)
  <2>1. 0 <= MaxVersions BY PriceAssumption
  <2>2. ASSUME NEW db \in Databases PROVE DatabaseOK(db)
    <3>1. disk[db].meta.version = Len(disk[db].log) /\ Len(disk[db].log) = 0 BY <1>2, <1>6
    <3>2. Paced(disk[db].meta, quiet[db]) /\ Delayed(disk[db].meta) BY <1>6, <1>10
    <3> QED BY <2>1, <3>1, <3>2 DEF DatabaseOK
  <2> QED BY <2>2
<1>12. ManagerOK(m)
  <2>1. m.meta.version = Len(disk[m.db].log) BY <1>2, <1>4, <1>6
  <2>2. Paced(m.meta, quiet[m.db]) /\ Delayed(m.meta) BY <1>4, <1>6, <1>10
  <2> QED BY <1>4, <2>1, <2>2 DEF ManagerOK
<1>13. \A c \in Callers : call[c] = NoCall BY <1>6
<1> QED BY <1>7, <1>8, <1>9, <1>11, <1>12, <1>13 DEF PriceInv

LEMMA PriceInvStep == PriceInv /\ [PriceNext]_priceVars => PriceInv'
<1> SUFFICES ASSUME PriceInv, [PriceNext]_priceVars PROVE PriceInv' OBVIOUS
<1>1. ASSUME NEW c \in Callers, CallerStep(c) PROVE PriceInv'
  <2>1. CASE \/ \E q \in Queries, refresh \in BOOLEAN : ResolvePrice(c, q, refresh)
             \/ \E force \in BOOLEAN : Ask(c, force)
             \/ LookupRead(c) \/ Join(c) \/ Wake(c) \/ WaitEnds(c) \/ FoundRefreshed(c) \/ Skip(c)
             \/ \E storage \in BOOLEAN : PublishFails(c, storage)
             \/ Settle(c)
      BY <2>1, CallSteps
  <2>2. CASE LookupHit(c) \/ LookupFill(c) BY <2>2, CacheSteps
  <2>3. CASE StartDownload(c) \/ FailureUnsaved(c) \/ FinishDownload(c) BY <2>3, DownloadSteps
  <2>4. CASE \E doc \in Documents : Publish(c, doc) BY <2>4, PublishKeeps
  <2>5. CASE FailureSaved(c) BY <2>5, FailureSavedKeeps
  <2> QED BY <1>1, <2>1, <2>2, <2>3, <2>4, <2>5 DEF CallerStep
<1>2. ASSUME NEW q \in Queries, NEW set \in BOOLEAN, SetCustom(q, set) PROVE PriceInv'
    BY <1>2, CustomKeeps DEF SetCustom
<1>3. ASSUME NEW db \in Databases, Switch(db) PROVE PriceInv' BY <1>3, SwitchKeeps
<1>4. ASSUME NEW i \in 1..Current, CloseOld(i) PROVE PriceInv' BY <1>4, CloseKeeps
<1>5. CASE RestartPrices BY <1>5, RestartPricesKeeps
<1>6. ASSUME NEW minutes \in Durations, Elapse(minutes) PROVE PriceInv' BY <1>6, ElapseKeeps
<1>7. CASE UNCHANGED priceVars BY <1>7, CustomKeeps DEF priceVars
<1> QED BY <1>1, <1>2, <1>3, <1>4, <1>5, <1>6, <1>7 DEF PriceNext

LEMMA PricesKept == PriceSpec => []PriceInv
BY PriceInvInit, PriceInvStep, PTL DEF PriceSpec

(* Every answer with a reference price was a price of the database in force during the call
   (billing/prices.go:142-186): whatever looks, fills, refreshes, failures and switches overlap,
   a cached price is that of the document stored, since the cache is emptied when another
   document is published and nothing that was read before can be filled in after. *)
THEOREM PricesResolvedInForce == PriceSpec => ResolvedInForce
<1>1. PriceInv => [\A c \in Callers :
         Answers(c, "reference") /\ Outcome(c).rate # NoRate =>
            /\ ~Switched(c)
            /\ call[c].query \notin custom
            /\ \E doc \in PublishedDuring(c) : Match(doc, call[c].query) = Outcome(c).rate]_priceVars
  <2> SUFFICES ASSUME PriceInv, NEW c \in Callers, Answers(c, "reference"), Outcome(c).rate # NoRate
               PROVE  /\ ~Switched(c)
                      /\ call[c].query \notin custom
                      /\ \E doc \in PublishedDuring(c) : Match(doc, call[c].query) = Outcome(c).rate
      OBVIOUS
  <2>1. call[c].at = "settle" /\ Outcome(c).is = "reference" BY DEF Answers
  <2>2. ~Switched(c) /\ call[c].query \notin custom /\ Outcome(c).rate = call[c].rate BY <2>1 DEF Outcome
  <2>3. CallOK(call[c]) /\ call[c].manager = Len(managers) BY <2>1, <2>2, ActiveCall DEF Switched, Current
  <2>4. ~Of(c).closed BY <2>3 DEF PriceInv, Opened, Of
  <2>5. Witnessed(call[c], disk[Of(c).db].log) BY <2>3, <2>4 DEF CallOK, Of
  <2>6. PICK v \in call[c].since..Len(disk[Of(c).db].log) \cap 1..MaxVersions :
               Match(disk[Of(c).db].log[v], call[c].query) = call[c].rate
      BY <2>2, <2>5 DEF Witnessed
  <2> QED BY <2>2, <2>6 DEF PublishedDuring
<1> QED BY <1>1, PricesKept, PTL DEF ResolvedInForce

\* Only a call that found the refresh due, or was told to make it, starts a download.
LEMMA OnlyStarts ==
    ASSUME PriceInv, [PriceNext]_priceVars, NEW c \in Callers, call[c].at = "refresh", call'[c].at = "download"
    PROVE  StartDownload(c)
<1>1. call \in [Callers -> {NoCall} \cup PriceCall] BY DEF PriceInv, PriceTypeOK
<1>2. call'[c] # call[c] BY Zenon
<1>3. ASSUME NEW d \in Callers, CallerStep(d) PROVE StartDownload(c)
  <2>1. d = c
    <3>1. PICK k : call' = [call EXCEPT ![d] = k]
        BY <1>3 DEF CallerStep, ResolvePrice, Ask, LookupHit, LookupRead, LookupFill, Join, Wake, WaitEnds,
                FoundRefreshed, Skip, StartDownload, Publish, PublishFails, FailureUnsaved, FailureSaved,
                FinishDownload, Ended, Settle
    <3> QED BY <1>1, <1>2, <3>1
  <2>2. Join(c) \/ FoundRefreshed(c) \/ Skip(c) \/ StartDownload(c)
      BY <1>3, <2>1 DEF CallerStep, ResolvePrice, Ask, LookupHit, LookupRead, LookupFill, Wake, WaitEnds, Publish,
                PublishFails, FailureUnsaved, FailureSaved, FinishDownload, Settle
  <2>3. PICK x \in PriceCall : x = call[c] BY ActiveCall
  <2>4. ~Join(c) BY <1>1, <2>3 DEF Join, PriceCall
  <2>5. ASSUME NEW error \in BOOLEAN, NEW storage, call' = [call EXCEPT ![c] = Refreshed(c, error, storage)]
        PROVE  FALSE
    <3>1. call'[c] = Refreshed(c, error, storage) BY <1>1, <2>5
    <3>2. Refreshed(c, error, storage).at \in {"idle", "lookup", "settle"}
        BY <2>3 DEF Refreshed, NoCall, PriceCall
    <3> QED BY <3>1, <3>2
  <2>6. ~FoundRefreshed(c)
    <3>1. Of(c).error \in BOOLEAN BY ActiveCall DEF PriceManager
    <3> QED BY <2>5, <3>1 DEF FoundRefreshed
  <2>7. ~Skip(c) BY <2>5 DEF Skip
  <2> QED BY <2>2, <2>4, <2>6, <2>7
<1>4. CASE RestartPrices
  <2>1. call'[c] = NoCall BY <1>4 DEF RestartPrices
  <2> QED BY <2>1 DEF NoCall
<1>5. CASE UNCHANGED call BY <1>2, <1>5
<1> QED BY <1>3, <1>4, <1>5 DEF PriceNext, SetCustom, Switch, CloseOld, Elapse, priceVars

(* The pause a saved attempt left outlives the call that left it, the manager and the process
   (billing/reference_prices.go:230-268): what tells it is kept with the database, is what an
   opening finds, and can be replaced only by a longer one. *)
THEOREM PausesOutlive == PriceSpec => PausesOutliveManagers
<1>1. PriceInv /\ [PriceNext]_priceVars =>
        [\A c \in Callers :
         (call[c].at = "refresh" /\ call'[c].at = "download" /\ ~call[c].force /\ ~Of(c).closed) =>
            clock >= quiet[Of(c).db]]_priceVars
  <2> SUFFICES ASSUME PriceInv, [PriceNext]_priceVars, NEW c \in Callers,
                      call[c].at = "refresh", call'[c].at = "download", ~call[c].force, ~Of(c).closed
               PROVE  clock >= quiet[Of(c).db]
      OBVIOUS
  <2>1. StartDownload(c) BY OnlyStarts
  <2>2. PICK m \in PriceManager : m = Of(c) /\ ManagerOK(m) BY ActiveCall
  <2>3. Due(c) BY <2>1 DEF StartDownload
  <2>4. PICK meta \in PriceMeta : meta = m.meta BY DEF PriceManager
  <2>5. meta.version \in Nat /\ meta.fetched \in Int /\ meta.retryAfter \in Int BY DEF PriceMeta
  <2>6. clock \in Nat /\ quiet[m.db] \in Int BY DEF PriceInv, PriceTypeOK, PriceManager
  <2>7. PICK until \in Int : until = quiet[m.db] BY <2>6
  <2>8. Paced(meta, until) BY <2>2, <2>4, <2>7 DEF ManagerOK
  <2>9. clock >= meta.retryAfter BY <2>2, <2>3, <2>4 DEF Due
  <2>10. meta.version = 0 \/ clock - meta.fetched > 60 BY <2>2, <2>3, <2>4, <2>5, <2>6 DEF Due, NeedsRefresh
  <2>11. clock >= until BY <2>5, <2>6, <2>8, <2>9, <2>10 DEF Paced
  <2> QED BY <2>2, <2>7, <2>11
<1> QED BY <1>1, PricesKept, PTL DEF PriceSpec, PausesOutliveManagers
-----------------------------------------------------------------------------
CapturedEntry ==
    [seq : Nat, revision : Nat, id : Requests, account : Upstreams, bytes : Int, request : Int, upstream : Int,
     response : Int, from : SUBSET Upstreams, moved : BOOLEAN, done : BOOLEAN]

(* The sums of the first entries; a sequence has exactly one such function. *)
SumsOf(f, e) == f[0] = 0 /\ \A n \in 1..Len(e) : f[n] = f[n - 1] + e[n].bytes

LEMMA SumsAgree ==
    ASSUME NEW e \in Seq(CapturedEntry), NEW f, NEW g, SumsOf(f, e), SumsOf(g, e)
    PROVE  \A n \in 0..Len(e) : f[n] = g[n]
<1> DEFINE W == {n \in 0..Len(e) : f[n] # g[n]}
<1> SUFFICES ASSUME W # {} PROVE FALSE OBVIOUS
<1>1. Len(e) \in Nat /\ W \in SUBSET Nat OBVIOUS
<1>2. PICK m \in W : \A n \in W : m <= n
  <2> HIDE DEF W
  <2> QED BY <1>1, SomeIsLeast
<1>3. m # 0 /\ m \in 1..Len(e) BY <1>1, <1>2 DEF SumsOf
<1>4. m - 1 \in 0..Len(e) /\ ~(m <= m - 1) BY <1>1, <1>3
<1>5. m - 1 \notin W
  <2> HIDE DEF W
  <2> QED BY <1>2, <1>4
<1>6. f[m - 1] = g[m - 1] BY <1>4, <1>5
<1>7. f[m] = g[m] BY <1>3, <1>6 DEF SumsOf
<1> QED BY <1>2, <1>7

LEMMA SumsExist ==
    ASSUME NEW e \in Seq(CapturedEntry)
    PROVE  \E f \in [0..Len(e) -> Int] : SumsOf(f, e)
<1> DEFINE Upto(f, m) == f[0] = 0 /\ \A n \in 1..m : f[n] = f[n - 1] + e[n].bytes
           W == {m \in 0..Len(e) : ~\E f \in [0..m -> Int] : Upto(f, m)}
<1>1. Len(e) \in Nat /\ W \in SUBSET Nat OBVIOUS
<1>2. W = {}
  <2> SUFFICES ASSUME W # {} PROVE FALSE OBVIOUS
  <2>1. PICK m \in W : \A n \in W : m <= n
    <3> HIDE DEF W
    <3> QED BY <1>1, SomeIsLeast
  <2>2. m # 0
    <3> SUFFICES ASSUME m = 0 PROVE FALSE OBVIOUS
    <3>1. PICK f : f = [n \in 0..0 |-> 0] OBVIOUS
    <3>2. f \in [0..0 -> Int] /\ Upto(f, 0) BY <3>1
    <3> QED BY <2>1, <3>2
  <2>3. m \in 1..Len(e) /\ m - 1 \in 0..Len(e) /\ ~(m <= m - 1) BY <1>1, <2>1, <2>2
  <2>4. m - 1 \notin W
    <3> HIDE DEF W
    <3> QED BY <2>1, <2>3
  <2>5. PICK f \in [0..(m - 1) -> Int] : Upto(f, m - 1) BY <2>3, <2>4
  <2>6. e[m].bytes \in Int
    <3>1. e[m] \in CapturedEntry BY <2>3
    <3> QED BY <3>1 DEF CapturedEntry
  <2>7. f[m - 1] \in Int BY <2>3, <2>5
  <2>8. PICK g : g = [n \in 0..m |-> IF n = m THEN f[m - 1] + e[m].bytes ELSE f[n]] OBVIOUS
  <2>9. \A n \in 0..m : n = m \/ n \in 0..(m - 1) BY <2>3
  <2>10. g \in [0..m -> Int] BY <2>5, <2>6, <2>7, <2>8, <2>9
  <2>11. Upto(g, m)
    <3>1. g[0] = 0 BY <2>3, <2>5, <2>8
    <3>2. ASSUME NEW n \in 1..m PROVE g[n] = g[n - 1] + e[n].bytes
      <4>1. n - 1 \in 0..(m - 1) /\ n - 1 # m /\ n - 1 \in 0..m /\ n \in 0..m BY <2>3
      <4>2. g[n - 1] = f[n - 1] BY <2>8, <4>1
      <4>3. CASE n = m BY <2>8, <4>1, <4>2, <4>3
      <4>4. CASE n # m
        <5>1. n \in 1..(m - 1) BY <2>3, <4>4
        <5>2. g[n] = f[n] BY <2>8, <4>1, <4>4
        <5> QED BY <2>5, <4>2, <5>1, <5>2
      <4> QED BY <4>3, <4>4
    <3> QED BY <3>1, <3>2
  <2> QED BY <2>1, <2>10, <2>11
<1>3. PICK f \in [0..Len(e) -> Int] : Upto(f, Len(e))
  <2>1. Len(e) \in 0..Len(e) BY <1>1
  <2>2. Len(e) \notin W
    <3> HIDE DEF W
    <3> QED BY <1>2
  <2> QED BY <2>1, <2>2
<1>4. SumsOf(f, e) BY <1>3 DEF SumsOf
<1> QED BY <1>4

LEMMA BytesAre ==
    ASSUME NEW e \in Seq(CapturedEntry), NEW f, SumsOf(f, e)
    PROVE  BytesOf(e) = f[Len(e)]
<1> DEFINE sum == CHOOSE sum : sum = [n \in 0..Len(e) |-> IF n = 0 THEN 0 ELSE sum[n - 1] + e[n].bytes]
<1>1. PICK g \in [0..Len(e) -> Int] : SumsOf(g, e) BY SumsExist
<1>2. Len(e) \in Nat OBVIOUS
<1>3. g = [n \in 0..Len(e) |-> IF n = 0 THEN 0 ELSE g[n - 1] + e[n].bytes]
  <2>1. \A n \in 0..Len(e) : g[n] = IF n = 0 THEN 0 ELSE g[n - 1] + e[n].bytes
    <3>1. ASSUME NEW n \in 0..Len(e) PROVE g[n] = IF n = 0 THEN 0 ELSE g[n - 1] + e[n].bytes
      <4>1. CASE n = 0 BY <1>1, <4>1 DEF SumsOf
      <4>2. CASE n # 0
        <5>1. n \in 1..Len(e) BY <1>2, <4>2
        <5> QED BY <1>1, <4>2, <5>1 DEF SumsOf
      <4> QED BY <4>1, <4>2
    <3> QED BY <3>1
  <2> QED BY <1>1, <2>1
<1>4. sum = [n \in 0..Len(e) |-> IF n = 0 THEN 0 ELSE sum[n - 1] + e[n].bytes] BY <1>3
<1>5. SumsOf(sum, e)
  <2> HIDE DEF sum
  <2>1. sum[0] = 0 BY <1>2, <1>4
  <2>2. \A n \in 1..Len(e) : n \in 0..Len(e) /\ n # 0 BY <1>2
  <2> QED BY <1>4, <2>1, <2>2 DEF SumsOf
<1>6. BytesOf(e) = sum[Len(e)] BY DEF BytesOf
<1> QED BY <1>2, <1>5, <1>6, SumsAgree

LEMMA NoBytes == BytesOf(<<>>) = 0
<1>1. PICK f : f = [n \in 0..0 |-> 0] OBVIOUS
<1>2. <<>> \in Seq(CapturedEntry) /\ Len(<<>>) = 0 OBVIOUS
<1>3. f[0] = 0 BY <1>1
<1>4. SumsOf(f, <<>>) BY <1>2, <1>3 DEF SumsOf
<1>5. PICK e \in Seq(CapturedEntry) : e = <<>> /\ Len(e) = 0 BY <1>2
<1>6. BytesOf(e) = f[Len(e)] BY <1>4, <1>5, BytesAre
<1> QED BY <1>3, <1>5, <1>6

LEMMA BytesNumber ==
    ASSUME NEW e \in Seq(CapturedEntry)
    PROVE  BytesOf(e) \in Int
<1>1. PICK f \in [0..Len(e) -> Int] : SumsOf(f, e) BY SumsExist
<1>2. Len(e) \in 0..Len(e) OBVIOUS
<1> QED BY <1>1, <1>2, BytesAre

LEMMA BytesAppended ==
    ASSUME NEW e \in Seq(CapturedEntry), NEW x \in CapturedEntry
    PROVE  BytesOf(Append(e, x)) = BytesOf(e) + x.bytes
<1>1. PICK f \in [0..Len(e) -> Int] : SumsOf(f, e) BY SumsExist
<1>2. PICK a \in Seq(CapturedEntry) : a = Append(e, x) BY AppendProperties
<1>3. PICK l \in Nat : l = Len(e) OBVIOUS
<1>4. Len(a) = l + 1 /\ a[l + 1] = x /\ \A n \in 1..l : a[n] = e[n] BY <1>2, <1>3, AppendProperties
<1>5. PICK g : g = [n \in 0..(l + 1) |-> IF n = l + 1 THEN f[l] + x.bytes ELSE f[n]] OBVIOUS
<1>6. SumsOf(g, a)
  <2>1. g[0] = 0 BY <1>1, <1>5 DEF SumsOf
  <2>2. ASSUME NEW n \in 1..(l + 1) PROVE g[n] = g[n - 1] + a[n].bytes
    <3>1. n - 1 \in 0..(l + 1) /\ n - 1 # l + 1 /\ n \in 0..(l + 1) OBVIOUS
    <3>2. g[n - 1] = f[n - 1] BY <1>5, <3>1
    <3>3. CASE n = l + 1 BY <1>4, <1>5, <3>1, <3>2, <3>3
    <3>4. CASE n # l + 1
      <4>1. n \in 1..l /\ g[n] = f[n] BY <1>5, <3>1, <3>4
      <4> QED BY <1>1, <1>3, <1>4, <3>2, <4>1 DEF SumsOf
    <3> QED BY <3>3, <3>4
  <2> QED BY <1>4, <2>1, <2>2 DEF SumsOf
<1>7. BytesOf(a) = g[l + 1] BY <1>4, <1>6, BytesAre
<1>8. BytesOf(e) = f[l] BY <1>1, <1>3, BytesAre
<1> QED BY <1>2, <1>5, <1>7, <1>8

LEMMA BytesReplaced ==
    ASSUME NEW e \in Seq(CapturedEntry), NEW k \in 1..Len(e), NEW x \in CapturedEntry
    PROVE  BytesOf([e EXCEPT ![k] = x]) = BytesOf(e) + (x.bytes - e[k].bytes)
<1>1. PICK f \in [0..Len(e) -> Int] : SumsOf(f, e) BY SumsExist
<1>2. PICK a \in Seq(CapturedEntry) : a = [e EXCEPT ![k] = x] OBVIOUS
<1>3. Len(a) = Len(e) /\ \A n \in 1..Len(e) : a[n] = IF n = k THEN x ELSE e[n] BY <1>2
<1>4. Len(e) \in Nat OBVIOUS
<1>6. x.bytes \in Int /\ e[k].bytes \in Int
  <2>1. e[k] \in CapturedEntry OBVIOUS
  <2> QED BY <2>1 DEF CapturedEntry
<1>5. PICK d \in Int : d = x.bytes - e[k].bytes BY <1>6
<1>7. PICK g : g = [n \in 0..Len(e) |-> IF n >= k THEN f[n] + d ELSE f[n]] OBVIOUS
<1>8. SumsOf(g, a)
  <2>1. 0 \in 0..Len(e) /\ ~(0 >= k) BY <1>4
  <2>2. g[0] = 0 BY <1>1, <1>7, <2>1 DEF SumsOf
  <2>3. ASSUME NEW n \in 1..Len(e) PROVE g[n] = g[n - 1] + a[n].bytes
    <3>1. n - 1 \in 0..Len(e) /\ n \in 0..Len(e) BY <1>4
    <3>2. f[n] = f[n - 1] + e[n].bytes /\ f[n] \in Int /\ f[n - 1] \in Int BY <1>1, <3>1 DEF SumsOf
    <3>3. g[n] = (IF n >= k THEN f[n] + d ELSE f[n]) /\ g[n - 1] = (IF n - 1 >= k THEN f[n - 1] + d ELSE f[n - 1])
        BY <1>7, <3>1
    <3>4. e[n].bytes \in Int
      <4>1. e[n] \in CapturedEntry OBVIOUS
      <4> QED BY <4>1 DEF CapturedEntry
    <3>5. CASE n = k BY <1>3, <1>5, <1>6, <3>2, <3>3, <3>5
    <3>6. CASE n < k BY <1>3, <3>2, <3>3, <3>6
    <3>7. CASE n > k BY <1>3, <1>5, <3>2, <3>3, <3>4, <3>7
    <3> QED BY <3>5, <3>6, <3>7
  <2> QED BY <1>3, <2>2, <2>3 DEF SumsOf
<1>9. BytesOf(a) = g[Len(e)] BY <1>3, <1>8, BytesAre
<1>10. g[Len(e)] = f[Len(e)] + d BY <1>4, <1>7
<1>11. BytesOf(e) = f[Len(e)] BY <1>1, BytesAre
<1> QED BY <1>2, <1>5, <1>9, <1>10, <1>11

LEMMA BytesSplit ==
    ASSUME NEW e \in Seq(CapturedEntry), NEW k \in 0..Len(e)
    PROVE  BytesOf(SubSeq(e, k + 1, Len(e))) = BytesOf(e) - BytesOf(SubSeq(e, 1, k))
<1>1. PICK f \in [0..Len(e) -> Int] : SumsOf(f, e) BY SumsExist
<1>2. PICK l \in Nat : l = Len(e) OBVIOUS
<1>3. \A n \in 1..l : e[n] \in CapturedEntry BY <1>2
<1>4. PICK a : a = SubSeq(e, 1, k) OBVIOUS
<1>5. a \in Seq(CapturedEntry) /\ Len(a) = k /\ \A n \in 1..k : a[n] = e[n]
  <2>1. \A n \in 1..k : e[n] \in CapturedEntry BY <1>2, <1>3
  <2>2. /\ a \in Seq(CapturedEntry) /\ Len(a) = IF 1 <= k THEN k - 1 + 1 ELSE 0
        /\ \A n \in 1..(k - 1 + 1) : a[n] = e[1 + n - 1]
      BY <1>4, <2>1, SubSeqProperties
  <2> QED BY <2>2
<1>6. PICK b : b = SubSeq(e, k + 1, l) OBVIOUS
<1>7. b \in Seq(CapturedEntry) /\ Len(b) = l - k /\ \A n \in 1..(l - k) : b[n] = e[k + n]
  <2>1. \A n \in (k + 1)..l : e[n] \in CapturedEntry BY <1>2, <1>3
  <2>2. /\ b \in Seq(CapturedEntry) /\ Len(b) = IF k + 1 <= l THEN l - (k + 1) + 1 ELSE 0
        /\ \A n \in 1..(l - (k + 1) + 1) : b[n] = e[(k + 1) + n - 1]
      BY <1>6, <2>1, SubSeqProperties
  <2>3. \A n \in 1..(l - k) : n \in 1..(l - (k + 1) + 1) /\ (k + 1) + n - 1 = k + n BY <1>2
  <2> QED BY <1>2, <2>2, <2>3
<1>8. SumsOf(f, a)
  <2>1. \A n \in 1..k : n \in 1..l BY <1>2
  <2> QED BY <1>1, <1>2, <1>5, <2>1 DEF SumsOf
<1>9. PICK g : g = [n \in 0..(l - k) |-> f[k + n] - f[k]] OBVIOUS
<1>10. SumsOf(g, b)
  <2>1. k \in 0..l /\ f[k] \in Int /\ 0 \in 0..(l - k) /\ k + 0 = k BY <1>1, <1>2
  <2>2. g[0] = 0 BY <1>9, <2>1
  <2>3. ASSUME NEW n \in 1..(l - k) PROVE g[n] = g[n - 1] + b[n].bytes
    <3>1. n \in 0..(l - k) /\ n - 1 \in 0..(l - k) /\ k + (n - 1) = (k + n) - 1 /\ k + n \in 1..l /\ (k + n) - 1 \in 0..l
        BY <1>2
    <3>2. f[k + n] = f[(k + n) - 1] + e[k + n].bytes BY <1>1, <1>2, <3>1 DEF SumsOf
    <3>3. f[k + n] \in Int /\ f[(k + n) - 1] \in Int BY <1>1, <1>2, <3>1
    <3>4. e[k + n].bytes \in Int BY <1>3, <3>1 DEF CapturedEntry
    <3>5. g[n] = f[k + n] - f[k] /\ g[n - 1] = f[(k + n) - 1] - f[k] BY <1>9, <3>1
    <3>6. b[n].bytes = e[k + n].bytes BY <1>7
    <3>7. PICK p \in Int, q \in Int, r \in Int, w \in Int :
                 p = f[k + n] /\ q = f[(k + n) - 1] /\ r = f[k] /\ w = e[k + n].bytes
        BY <2>1, <3>3, <3>4
    <3>8. p = q + w /\ g[n] = p - r /\ g[n - 1] = q - r /\ b[n].bytes = w BY <3>2, <3>5, <3>6, <3>7
    <3>9. p - r = (q - r) + w BY <3>8
    <3> QED BY <3>8, <3>9
  <2> QED BY <1>7, <2>2, <2>3 DEF SumsOf
<1>11. BytesOf(b) = g[l - k] BY <1>7, <1>10, BytesAre
<1>12. BytesOf(a) = f[k] BY <1>5, <1>8, BytesAre
<1>13. BytesOf(e) = f[l] BY <1>1, <1>2, BytesAre
<1>14. g[l - k] = f[l] - f[k]
  <2>1. l - k \in 0..(l - k) /\ k + (l - k) = l BY <1>2
  <2> QED BY <1>9, <2>1
<1> QED BY <1>2, <1>4, <1>6, <1>11, <1>12, <1>13, <1>14

(* A state of the capture, possibly with one entry that is still being written (loose; 0: none). *)
CaptureState ==
    [entries : Seq(CapturedEntry), inflight : [Requests -> Nat], listeners : [Upstreams -> {"off", "on", "paused"}],
     expired : BOOLEAN, seq : Nat, revision : Nat, total : Int]
Written(e, revision) == e.revision \in 1..revision /\ e.bytes = Kept(e) /\ e.from \subseteq {e.account}
Serves(e, seq, id) == e.seq = seq /\ e.id = id /\ ~e.moved
Booked(s, loose) ==
    /\ \A i \in 1..Len(s.entries) : s.entries[i].seq \in 1..s.seq
    /\ \A i \in 1..Len(s.entries) : i # loose => Written(s.entries[i], s.revision)
    /\ \A i, j \in 1..Len(s.entries) : s.entries[i].seq = s.entries[j].seq => i = j
    /\ \A id \in Requests : s.inflight[id] # 0 =>
         \E i \in 1..Len(s.entries) : Serves(s.entries[i], s.inflight[id], id)
    /\ s.total = BytesOf(s.entries)
Limited(s) == Len(s.entries) <= MaxEntries /\ (s.total <= MaxTotal \/ Len(s.entries) = 1)

Subset(t, s) == \A j \in 1..Len(t.entries) : \E i \in 1..Len(s.entries) : t.entries[j] = s.entries[i]
SameOtherwise(t, s) ==
    /\ t.seq = s.seq /\ t.listeners = s.listeners /\ (t.expired <=> s.expired)
    /\ \A id \in Requests : t.inflight[id] = 0 \/ t.inflight[id] = s.inflight[id]

LEMMA DropsSome ==
    ASSUME NEW s \in CaptureState, Len(s.entries) # 0
    PROVE  /\ Drops(s) \in 0..(Len(s.entries) - 1)
           /\ Drops(s) = Len(s.entries) - 1 \/ Fits(s, Drops(s))
<1> DEFINE D == {n \in 0..Len(s.entries) - 1 : n = Len(s.entries) - 1 \/ Fits(s, n)}
<1>1. s.entries \in Seq(CapturedEntry) BY DEF CaptureState
<1>2. PICK l \in Nat : l = Len(s.entries) BY <1>1
<1>3. l - 1 \in D BY <1>2
<1>4. D \in SUBSET Nat BY <1>2
<1>5. PICK m \in D : \A n \in D : m <= n
  <2> HIDE DEF D
  <2> QED BY <1>3, <1>4, SomeIsLeast
<1>6. Min(D) \in D
  <2> HIDE DEF D
  <2> QED BY <1>5 DEF Min
<1>7. Drops(s) = Min(D) BY DEF Drops
<1>8. Drops(s) \in D BY <1>6, <1>7
<1> QED BY <1>8

LEMMA EvictedOK ==
    ASSUME NEW s \in CaptureState, Len(s.entries) # 0, Booked(s, 0)
    PROVE  LET t == Evicted(s) IN
           /\ t \in CaptureState /\ Booked(t, 0) /\ Limited(t)
           /\ t.revision = s.revision /\ Subset(t, s) /\ SameOtherwise(t, s)
<1>1. /\ s.entries \in Seq(CapturedEntry) /\ s.inflight \in [Requests -> Nat] /\ s.total \in Int
      /\ s.seq \in Nat /\ s.revision \in Nat
    BY DEF CaptureState
<1>2. PICK l \in Nat : l = Len(s.entries) /\ l # 0 BY <1>1
<1>3. PICK n \in 0..(l - 1) : n = Drops(s) /\ (n = l - 1 \/ Fits(s, n)) BY <1>2, DropsSome
<1>4. PICK kept : kept = SubSeq(s.entries, n + 1, l) OBVIOUS
<1>5. kept \in Seq(CapturedEntry) /\ Len(kept) = l - n /\ \A j \in 1..(l - n) : kept[j] = s.entries[n + j]
  <2>1. \A i \in (n + 1)..l : s.entries[i] \in CapturedEntry BY <1>1, <1>2
  <2>2. /\ kept \in Seq(CapturedEntry) /\ Len(kept) = IF n + 1 <= l THEN l - (n + 1) + 1 ELSE 0
        /\ \A j \in 1..(l - (n + 1) + 1) : kept[j] = s.entries[(n + 1) + j - 1]
      BY <1>4, <2>1, SubSeqProperties
  <2>3. \A j \in 1..(l - n) : j \in 1..(l - (n + 1) + 1) /\ (n + 1) + j - 1 = n + j BY <1>2
  <2>4. Len(kept) = l - n BY <1>2, <2>2
  <2>5. \A j \in 1..(l - n) : kept[j] = s.entries[n + j]
    <3> TAKE j \in 1..(l - n)
    <3>1. j \in 1..(l - (n + 1) + 1) /\ (n + 1) + j - 1 = n + j BY <2>3
    <3>2. kept[j] = s.entries[(n + 1) + j - 1] BY <2>2, <3>1
    <3> QED BY <3>1, <3>2
  <2> QED BY <2>2, <2>4, <2>5
<1>6. PICK bytes : bytes = BytesOf(SubSeq(s.entries, 1, n)) OBVIOUS
<1>7. bytes \in Int
  <2>1. \A i \in 1..n : s.entries[i] \in CapturedEntry BY <1>1, <1>2
  <2>2. SubSeq(s.entries, 1, n) \in Seq(CapturedEntry) BY <2>1, SubSeqProperties
  <2> QED BY <1>6, <2>2, BytesNumber
<1>8. PICK gone : gone = {s.entries[i].seq : i \in 1..n} OBVIOUS
<1>9. PICK inflight : inflight = [id \in Requests |-> IF s.inflight[id] \in gone THEN 0 ELSE s.inflight[id]] OBVIOUS
<1>10. inflight \in [Requests -> Nat] BY <1>1, <1>9
<1>11. PICK total \in Int : total = s.total - bytes BY <1>1, <1>7
<1>12. PICK t : t = [s EXCEPT !.entries = kept, !.total = total, !.inflight = inflight] OBVIOUS
<1>13. /\ t \in CaptureState /\ t.entries = kept /\ t.total = total /\ t.inflight = inflight
       /\ t.seq = s.seq /\ t.revision = s.revision /\ t.listeners = s.listeners /\ (t.expired <=> s.expired)
    BY <1>5, <1>10, <1>12 DEF CaptureState
<1>14. Evicted(s) = t BY <1>2, <1>3, <1>4, <1>6, <1>8, <1>9, <1>11, <1>12 DEF Evicted
<1>15. \A j \in 1..(l - n) : n + j \in 1..l BY <1>2
<1>16. Subset(t, s) BY <1>2, <1>5, <1>13, <1>15 DEF Subset
<1>17. Booked(t, 0)
  <2>1. \A j \in 1..Len(kept) : kept[j].seq \in 1..t.seq BY <1>2, <1>5, <1>13, <1>15 DEF Booked
  <2>2. \A j \in 1..Len(kept) : Written(kept[j], t.revision)
    <3>1. ASSUME NEW j \in 1..Len(kept) PROVE Written(kept[j], t.revision)
      <4>1. n + j \in 1..l /\ n + j # 0 /\ kept[j] = s.entries[n + j] BY <1>2, <1>5, <1>15
      <4> QED BY <1>2, <1>13, <4>1 DEF Booked
    <3> QED BY <3>1
  <2>3. \A i, j \in 1..Len(kept) : kept[i].seq = kept[j].seq => i = j
    <3> SUFFICES ASSUME NEW i \in 1..Len(kept), NEW j \in 1..Len(kept), kept[i].seq = kept[j].seq PROVE i = j
        OBVIOUS
    <3>1. n + i \in 1..l /\ n + j \in 1..l /\ s.entries[n + i].seq = s.entries[n + j].seq BY <1>2, <1>5, <1>15
    <3>2. n + i = n + j BY <1>2, <3>1 DEF Booked
    <3> QED BY <1>5, <3>2
  <2>4. ASSUME NEW id \in Requests, inflight[id] # 0 PROVE \E j \in 1..Len(kept) : Serves(kept[j], inflight[id], id)
    <3>1. inflight[id] = s.inflight[id] /\ s.inflight[id] \notin gone /\ s.inflight[id] # 0 BY <1>9, <2>4
    <3>2. PICK i \in 1..l : Serves(s.entries[i], s.inflight[id], id) BY <1>2, <3>1 DEF Booked
    <3>3. i \notin 1..n BY <1>8, <3>1, <3>2 DEF Serves
    <3>4. PICK j \in 1..(l - n) : j = i - n BY <1>2, <3>3
    <3>5. kept[j] = s.entries[i]
      <4>1. n + j = i BY <1>2, <3>4
      <4> QED BY <1>5, <4>1
    <3> QED BY <1>5, <3>1, <3>2, <3>5
  <2>5. total = BytesOf(kept)
    <3>1. n \in 0..Len(s.entries) BY <1>2
    <3>2. BytesOf(kept) = BytesOf(s.entries) - bytes BY <1>1, <1>2, <1>4, <1>6, <3>1, BytesSplit
    <3> QED BY <1>11, <3>2 DEF Booked
  <2> QED BY <1>13, <2>1, <2>2, <2>3, <2>4, <2>5 DEF Booked
<1>18. Limited(t)
  <2>1. CASE n = l - 1
    <3>1. Len(kept) = 1 BY <1>2, <1>5, <2>1
    <3>2. 1 <= MaxEntries BY CaptureAssumption
    <3> QED BY <1>13, <3>1, <3>2 DEF Limited
  <2>2. CASE Fits(s, n)
    <3>1. l - n <= MaxEntries /\ total <= MaxTotal BY <1>2, <1>6, <1>11, <2>2 DEF Fits
    <3> QED BY <1>5, <1>13, <3>1 DEF Limited
  <2> QED BY <1>3, <2>1, <2>2
<1>19. SameOtherwise(t, s) BY <1>9, <1>13 DEF SameOtherwise
<1> QED BY <1>13, <1>14, <1>16, <1>17, <1>18, <1>19

(* An entry is written again, under the next revision; the request it serves, if any, is still
   its own. *)
Rewrites(s, k, e, delta) ==
    /\ k \in 1..Len(s.entries) /\ Booked(s, k)
    /\ e \in CapturedEntry /\ e.seq = s.entries[k].seq /\ e.bytes = s.entries[k].bytes
    /\ delta \in Int /\ e.bytes + delta = Kept(e) /\ e.from \subseteq {e.account}
    /\ \A id \in Requests : s.inflight[id] = e.seq => e.id = id /\ ~e.moved

LEMMA TouchedOK ==
    ASSUME NEW s \in CaptureState, NEW k, NEW e, NEW delta, Rewrites(s, k, e, delta)
    PROVE  LET t == Touched(s, e, delta) IN
           /\ t \in CaptureState /\ Booked(t, 0) /\ Limited(t) /\ SameOtherwise(t, s)
           /\ t.revision = s.revision + 1
           /\ \A j \in 1..Len(t.entries) : \/ t.entries[j].revision = s.revision + 1
                                           \/ \E i \in 1..Len(s.entries) : i # k /\ t.entries[j] = s.entries[i]
<1>1. /\ s.entries \in Seq(CapturedEntry) /\ s.inflight \in [Requests -> Nat] /\ s.total \in Int
      /\ s.seq \in Nat /\ s.revision \in Nat
    BY DEF CaptureState
<1>2. k \in 1..Len(s.entries) /\ Booked(s, k) /\ e \in CapturedEntry /\ delta \in Int /\ e.seq = s.entries[k].seq
    BY DEF Rewrites
<1>3. At(s.entries, e.seq) = k
  <2>1. k \in DOMAIN s.entries /\ \A i \in DOMAIN s.entries : s.entries[i].seq = e.seq => i = k
      BY <1>1, <1>2 DEF Booked
  <2> QED BY <1>2, <2>1 DEF At
<1>4. PICK revision \in Nat : revision = s.revision + 1 BY <1>1
<1>5. e.bytes \in Int BY <1>2 DEF CapturedEntry
<1>6. PICK bytes \in Int : bytes = e.bytes + delta BY <1>2, <1>5
<1>7. PICK w : w = [e EXCEPT !.bytes = bytes, !.revision = revision] OBVIOUS
<1>8. /\ w \in CapturedEntry /\ w.bytes = bytes /\ w.revision = revision /\ w.seq = e.seq /\ w.id = e.id
      /\ (w.moved <=> e.moved) /\ w.from = e.from /\ w.account = e.account /\ Kept(w) = Kept(e)
    BY <1>2, <1>7 DEF CapturedEntry, Kept
<1>9. PICK entries \in Seq(CapturedEntry) : entries = [s.entries EXCEPT ![k] = w]
  <2>1. PICK old \in Seq(CapturedEntry) : old = s.entries BY <1>1
  <2>2. k \in 1..Len(old) /\ w \in CapturedEntry BY <1>2, <1>8, <2>1
  <2>3. [old EXCEPT ![k] = w] \in Seq(CapturedEntry)
    <3> HIDE DEF CapturedEntry
    <3> QED BY <2>2
  <2> QED BY <2>1, <2>3
<1>10. Len(entries) = Len(s.entries) /\ \A i \in 1..Len(entries) : entries[i] = IF i = k THEN w ELSE s.entries[i]
    BY <1>1, <1>9
<1>11. PICK total \in Int : total = s.total + delta BY <1>1, <1>2
<1>12. PICK u : u = [s EXCEPT !.entries = entries, !.total = total, !.revision = revision] OBVIOUS
<1>13. /\ u \in CaptureState /\ u.entries = entries /\ u.total = total /\ u.revision = revision
       /\ u.inflight = s.inflight /\ u.seq = s.seq /\ u.listeners = s.listeners /\ (u.expired <=> s.expired)
    BY <1>12 DEF CaptureState
<1>14. Touched(s, e, delta) = Evicted(u)
  <2>1. w = [e EXCEPT !.bytes = @ + delta, !.revision = s.revision + 1] BY <1>4, <1>6, <1>7
  <2>2. u = [s EXCEPT !.entries[k] = w, !.total = @ + delta, !.revision = @ + 1] BY <1>4, <1>9, <1>11, <1>12
  <2> QED BY <1>3, <2>1, <2>2 DEF Touched
<1>15. Booked(u, 0)
  <2>1. \A i \in 1..Len(entries) : entries[i].seq = s.entries[i].seq BY <1>2, <1>8, <1>10
  <2>2. \A i \in 1..Len(entries) : entries[i].seq \in 1..u.seq BY <1>2, <1>10, <1>13, <2>1 DEF Booked
  <2>3. ASSUME NEW i \in 1..Len(entries) PROVE Written(entries[i], revision)
    <3>1. CASE i = k
      <4>1. entries[i] = w BY <1>10, <3>1
      <4>2. revision \in 1..revision BY <1>1, <1>4
      <4>3. bytes = Kept(e) /\ e.from \subseteq {e.account} BY <1>6 DEF Rewrites
      <4> QED BY <1>8, <4>1, <4>2, <4>3 DEF Written
    <3>2. CASE i # k
      <4>1. entries[i] = s.entries[i] /\ Written(s.entries[i], s.revision) BY <1>2, <1>10, <3>2 DEF Booked
      <4>2. 1..s.revision \subseteq 1..revision BY <1>1, <1>4
      <4> QED BY <4>1, <4>2 DEF Written
    <3> QED BY <3>1, <3>2
  <2>4. \A i, j \in 1..Len(entries) : entries[i].seq = entries[j].seq => i = j BY <1>2, <1>10, <2>1 DEF Booked
  <2>5. ASSUME NEW id \in Requests, s.inflight[id] # 0
        PROVE  \E i \in 1..Len(entries) : Serves(entries[i], s.inflight[id], id)
    <3>1. PICK i \in 1..Len(s.entries) : Serves(s.entries[i], s.inflight[id], id) BY <1>2, <2>5 DEF Booked
    <3>2. CASE i = k
      <4>1. s.inflight[id] = e.seq BY <1>2, <3>1, <3>2 DEF Serves
      <4>2. e.id = id /\ ~e.moved BY <4>1 DEF Rewrites
      <4>3. Serves(w, s.inflight[id], id) BY <1>8, <4>1, <4>2 DEF Serves
      <4> QED BY <1>2, <1>10, <4>3
    <3>3. CASE i # k BY <1>10, <3>1, <3>3
    <3> QED BY <3>2, <3>3
  <2>6. total = BytesOf(entries)
    <3>1. BytesOf(entries) = BytesOf(s.entries) + (bytes - s.entries[k].bytes)
        BY <1>1, <1>2, <1>8, <1>9, BytesReplaced
    <3>2. s.entries[k].bytes = e.bytes /\ s.total = BytesOf(s.entries) BY <1>2 DEF Rewrites, Booked
    <3>3. bytes - e.bytes = delta BY <1>2, <1>5, <1>6
    <3> QED BY <1>11, <3>1, <3>2, <3>3
  <2> QED BY <1>13, <2>2, <2>3, <2>4, <2>5, <2>6 DEF Booked
<1>16. Len(u.entries) # 0 BY <1>2, <1>10, <1>13
<1>17. PICK t : t = Evicted(u) OBVIOUS
<1>18. /\ t \in CaptureState /\ Booked(t, 0) /\ Limited(t)
       /\ t.revision = u.revision /\ Subset(t, u) /\ SameOtherwise(t, u)
    BY <1>13, <1>15, <1>16, <1>17, EvictedOK
<1>19. SameOtherwise(t, s) BY <1>13, <1>18 DEF SameOtherwise
<1>20. ASSUME NEW j \in 1..Len(t.entries)
       PROVE  \/ t.entries[j].revision = s.revision + 1
              \/ \E i \in 1..Len(s.entries) : i # k /\ t.entries[j] = s.entries[i]
  <2>1. PICK i \in 1..Len(entries) : t.entries[j] = entries[i] BY <1>13, <1>18 DEF Subset
  <2>2. CASE i = k BY <1>4, <1>8, <1>10, <2>1, <2>2
  <2>3. CASE i # k BY <1>10, <2>1, <2>3
  <2> QED BY <2>2, <2>3
<1> QED BY <1>4, <1>13, <1>14, <1>17, <1>18, <1>19, <1>20

(* What holds between any two operations of the capture, and what one may do to it: an entry that
   changes, or appears, has a revision above all those given out before. *)
Sound(s) == s \in CaptureState /\ Booked(s, 0) /\ Limited(s)
Moves(s, t) ==
    /\ s.revision <= t.revision
    /\ \A j \in 1..Len(t.entries) : \/ t.entries[j].revision > s.revision
                                    \/ \E i \in 1..Len(s.entries) : t.entries[j] = s.entries[i]

LEMMA MovesOn ==
    ASSUME NEW s \in CaptureState, NEW t \in CaptureState, NEW u \in CaptureState, Moves(s, t), Moves(t, u)
    PROVE  Moves(s, u)
<1>1. s.revision \in Nat /\ t.revision \in Nat /\ u.revision \in Nat BY DEF CaptureState
<1>2. s.revision <= t.revision /\ t.revision <= u.revision BY DEF Moves
<1>3. ASSUME NEW j \in 1..Len(u.entries)
      PROVE  \/ u.entries[j].revision > s.revision
             \/ \E i \in 1..Len(s.entries) : u.entries[j] = s.entries[i]
  <2>1. u.entries[j].revision \in Nat
    <3>1. u.entries \in Seq(CapturedEntry) BY DEF CaptureState
    <3>2. u.entries[j] \in CapturedEntry BY <3>1
    <3> QED BY <3>2 DEF CapturedEntry
  <2>2. CASE u.entries[j].revision > t.revision BY <1>1, <1>2, <2>1, <2>2
  <2>3. CASE \E i \in 1..Len(t.entries) : u.entries[j] = t.entries[i]
    <3>1. PICK i \in 1..Len(t.entries) : u.entries[j] = t.entries[i] BY <2>3
    <3> QED BY <3>1 DEF Moves
  <2> QED BY <2>2, <2>3 DEF Moves
<1>4. s.revision <= u.revision BY <1>1, <1>2
<1> QED BY <1>3, <1>4 DEF Moves

LEMMA SameBooks ==
    ASSUME NEW s \in CaptureState, NEW t \in CaptureState, t.entries = s.entries, t.inflight = s.inflight,
           t.seq = s.seq, t.revision = s.revision, t.total = s.total
    PROVE  Moves(s, t) /\ (Sound(s) => Sound(t))
<1>1. s.revision \in Nat BY DEF CaptureState
<1>2. Moves(s, t) BY <1>1 DEF Moves
<1>3. Sound(s) => Sound(t) BY DEF Sound, Booked, Limited
<1> QED BY <1>2, <1>3

LEMMA LeasedOK ==
    ASSUME NEW s \in CaptureState
    PROVE  /\ Leased(s) \in CaptureState /\ Moves(s, Leased(s)) /\ (Sound(s) => Sound(Leased(s)))
           /\ Leased(s).entries = s.entries /\ Leased(s).inflight = s.inflight /\ Leased(s).seq = s.seq
           /\ Leased(s).revision = s.revision /\ Leased(s).total = s.total
<1>1. PICK off \in [Upstreams -> {"off", "on", "paused"}] : off = [a \in Upstreams |-> "off"] OBVIOUS
<1>2. PICK t : t = [s EXCEPT !.listeners = off] OBVIOUS
<1>3. /\ t \in CaptureState /\ t.entries = s.entries /\ t.inflight = s.inflight /\ t.seq = s.seq
      /\ t.revision = s.revision /\ t.total = s.total
    BY <1>2 DEF CaptureState
<1>4. Leased(s) = IF s.expired THEN t ELSE s BY <1>1, <1>2 DEF Leased
<1>5. CASE s.expired BY <1>3, <1>4, <1>5, SameBooks
<1>6. CASE ~s.expired BY <1>4, <1>6, SameBooks
<1> QED BY <1>5, <1>6

(* The entry of a request in flight is the one with its number. *)
LEMMA InFlight ==
    ASSUME NEW s \in CaptureState, NEW loose, Booked(s, loose), NEW id \in Requests, s.inflight[id] # 0
    PROVE  \E k \in 1..Len(s.entries) :
             /\ At(s.entries, s.inflight[id]) = k /\ EntryOf(s, id) = s.entries[k]
             /\ Serves(s.entries[k], s.inflight[id], id)
             /\ s.entries[k] \in CapturedEntry
             /\ \A r \in Requests : s.inflight[r] = s.inflight[id] => r = id
<1>1. s.entries \in Seq(CapturedEntry) BY DEF CaptureState
<1>2. PICK k \in 1..Len(s.entries) : Serves(s.entries[k], s.inflight[id], id) BY DEF Booked
<1>3. \A i \in DOMAIN s.entries : s.entries[i].seq = s.inflight[id] => i = k BY <1>1, <1>2 DEF Booked, Serves
<1>4. k \in DOMAIN s.entries /\ s.entries[k].seq = s.inflight[id] BY <1>1, <1>2 DEF Serves
<1>5. At(s.entries, s.inflight[id]) = k BY <1>3, <1>4 DEF At
<1>6. ASSUME NEW r \in Requests, s.inflight[r] = s.inflight[id] PROVE r = id
  <2>1. PICK i \in 1..Len(s.entries) : Serves(s.entries[i], s.inflight[r], r) BY <1>6 DEF Booked
  <2>2. i = k BY <1>1, <1>3, <1>6, <2>1 DEF Serves
  <2> QED BY <1>2, <2>1, <2>2 DEF Serves
<1>7. s.entries[k] \in CapturedEntry BY <1>1
<1> QED BY <1>2, <1>5, <1>6, <1>7 DEF EntryOf

(* A state whose request has left its entry, which is then rewritten. *)
LEMMA LeftOK ==
    ASSUME NEW s, Sound(s), NEW id \in Requests, s.inflight[id] # 0, NEW e \in CapturedEntry,
           LET old == EntryOf(s, id) IN
             /\ e.seq = old.seq /\ e.bytes = old.bytes /\ Kept(e) = Kept(old)
             /\ e.from = old.from /\ e.account = old.account
    PROVE  LET t == Touched([s EXCEPT !.inflight[id] = 0], e, 0) IN
           /\ Sound(t) /\ Moves(s, t) /\ t.inflight[id] = 0
<1>1. s \in CaptureState /\ Booked(s, 0) BY DEF Sound
<1>2. PICK k \in 1..Len(s.entries) :
             /\ At(s.entries, s.inflight[id]) = k /\ EntryOf(s, id) = s.entries[k]
             /\ Serves(s.entries[k], s.inflight[id], id) /\ s.entries[k] \in CapturedEntry
             /\ \A r \in Requests : s.inflight[r] = s.inflight[id] => r = id
    BY <1>1, InFlight
<1>3. s.inflight \in [Requests -> Nat] /\ s.revision \in Nat BY <1>1 DEF CaptureState
<1>4. PICK inflight \in [Requests -> Nat] : inflight = [s.inflight EXCEPT ![id] = 0] BY <1>3
<1>5. PICK u : u = [s EXCEPT !.inflight = inflight] OBVIOUS
<1>6. /\ u \in CaptureState /\ u.entries = s.entries /\ u.inflight = inflight /\ u.seq = s.seq
      /\ u.revision = s.revision /\ u.total = s.total
    BY <1>1, <1>5 DEF CaptureState
<1>7. u = [s EXCEPT !.inflight[id] = 0] BY <1>4, <1>5
<1>8. \A r \in Requests : inflight[r] = IF r = id THEN 0 ELSE s.inflight[r] BY <1>3, <1>4
<1>9. Booked(u, k)
  <2>1. \A r \in Requests : u.inflight[r] # 0 =>
          \E i \in 1..Len(u.entries) : Serves(u.entries[i], u.inflight[r], r)
      BY <1>1, <1>6, <1>8 DEF Booked
  <2>2. \A i \in 1..Len(u.entries) : i # 0 => Written(u.entries[i], u.revision) BY <1>1, <1>6 DEF Booked
  <2>3. /\ \A i \in 1..Len(u.entries) : u.entries[i].seq \in 1..u.seq
        /\ \A i, j \in 1..Len(u.entries) : u.entries[i].seq = u.entries[j].seq => i = j
        /\ u.total = BytesOf(u.entries)
      BY <1>1, <1>6 DEF Booked
  <2>4. \A i \in 1..Len(u.entries) : i # k => Written(u.entries[i], u.revision) BY <2>2
  <2> QED BY <2>1, <2>3, <2>4 DEF Booked
<1>10. Written(s.entries[k], s.revision) BY <1>1, <1>2 DEF Booked
<1>11. PICK none : none = 0 /\ Rewrites(u, k, e, none)
  <2>1. e.bytes \in Int BY DEF CapturedEntry
  <2>2. e.bytes + 0 = Kept(e) /\ e.from \subseteq {e.account} BY <1>2, <1>10, <2>1 DEF Written
  <2>3. ASSUME NEW r \in Requests, u.inflight[r] = e.seq PROVE FALSE
    <3>1. e.seq = s.inflight[id] BY <1>2 DEF Serves
    <3>2. r # id BY <1>6, <1>8, <2>3, <3>1
    <3> QED BY <1>2, <1>6, <1>8, <2>3, <3>1, <3>2
  <2>4. e.seq = u.entries[k].seq /\ e.bytes = u.entries[k].bytes /\ k \in 1..Len(u.entries) BY <1>2, <1>6
  <2> QED BY <1>9, <2>2, <2>3, <2>4 DEF Rewrites
<1>12. PICK t : t = Touched(u, e, none) OBVIOUS
<1>13. /\ t \in CaptureState /\ Booked(t, 0) /\ Limited(t) /\ SameOtherwise(t, u)
       /\ t.revision = u.revision + 1
       /\ \A j \in 1..Len(t.entries) : \/ t.entries[j].revision = u.revision + 1
                                       \/ \E i \in 1..Len(u.entries) : i # k /\ t.entries[j] = u.entries[i]
    BY <1>6, <1>11, <1>12, TouchedOK
<1>14. Sound(t) BY <1>13 DEF Sound
<1>15. Moves(s, t)
  <2>1. u.revision + 1 > s.revision /\ s.revision <= t.revision BY <1>3, <1>6, <1>13
  <2> QED BY <1>6, <1>13, <2>1 DEF Moves
<1>16. t.inflight[id] = 0 BY <1>6, <1>8, <1>13 DEF SameOtherwise
<1> QED BY <1>7, <1>11, <1>12, <1>14, <1>15, <1>16

(* A retry keeps the entry of its request only when that one is of its account. *)
LEMMA MovedAwayOK ==
    ASSUME NEW s, Sound(s), NEW id \in Requests, NEW account \in Upstreams
    PROVE  LET t == MovedAway(s, id, account) IN
           /\ Sound(t) /\ Moves(s, t)
           /\ t.inflight[id] # 0 => EntryOf(t, id).account = account
<1>1. s \in CaptureState /\ Booked(s, 0) BY DEF Sound
<1>2. s.revision \in Nat BY <1>1 DEF CaptureState
<1>3. PICK t : t = MovedAway(s, id, account) OBVIOUS
<1>4. CASE s.inflight[id] # 0 /\ EntryOf(s, id).account # account
  <2>1. PICK old \in CapturedEntry : old = EntryOf(s, id) BY <1>1, <1>4, InFlight
  <2>2. PICK e : e = [old EXCEPT !.moved = TRUE] OBVIOUS
  <2>3. e \in CapturedEntry /\ e.seq = old.seq /\ e.bytes = old.bytes /\ e.from = old.from /\ e.account = old.account
        /\ Kept(e) = Kept(old)
      BY <2>2 DEF CapturedEntry, Kept
  <2>4. t = Touched([s EXCEPT !.inflight[id] = 0], e, 0) BY <1>3, <1>4, <2>1, <2>2 DEF MovedAway
  <2>5. Sound(t) /\ Moves(s, t) /\ t.inflight[id] = 0 BY <1>4, <2>1, <2>3, <2>4, LeftOK
  <2> QED BY <1>3, <2>5
<1>5. CASE s.inflight[id] = 0
  <2>1. t = s BY <1>3, <1>5 DEF MovedAway
  <2>2. Moves(s, t) BY <1>2, <2>1 DEF Moves
  <2> QED BY <1>3, <1>5, <2>1, <2>2
<1>6. CASE s.inflight[id] # 0 /\ EntryOf(s, id).account = account
  <2>1. t = s BY <1>3, <1>6 DEF MovedAway
  <2>2. Moves(s, t) BY <1>2, <2>1 DEF Moves
  <2> QED BY <1>3, <1>6, <2>1, <2>2
<1> QED BY <1>4, <1>5, <1>6

(* What the request is recorded with. *)
RequestEntry(old, id, account, answer) ==
    [BlankEntry(old.seq, id, account) EXCEPT !.bytes = old.bytes, !.request = 1, !.response = answer]

Rewritten(t, s, k) ==
    /\ Sound(t) /\ t.revision = s.revision + 1
    /\ \A j \in 1..Len(t.entries) : \/ t.entries[j].revision = s.revision + 1
                                    \/ \E i \in 1..Len(s.entries) : i # k /\ t.entries[j] = s.entries[i]

LEMMA RequestWritten ==
    ASSUME NEW s \in CaptureState, NEW k \in 1..Len(s.entries), Booked(s, k), NEW id \in Requests,
           s.inflight[id] # 0, s.entries[k].seq = s.inflight[id], NEW account \in Upstreams, NEW answer \in {0, 1}
    PROVE  LET old == EntryOf(s, id)
               t == Touched(s, RequestEntry(old, id, account, answer), 1 + answer - old.bytes)
           IN Rewritten(t, s, k)
<1>1. PICK i \in 1..Len(s.entries) :
             /\ At(s.entries, s.inflight[id]) = i /\ EntryOf(s, id) = s.entries[i]
             /\ Serves(s.entries[i], s.inflight[id], id) /\ s.entries[i] \in CapturedEntry
             /\ \A r \in Requests : s.inflight[r] = s.inflight[id] => r = id
    BY InFlight
<1>2. i = k BY <1>1 DEF Booked, Serves
<1>3. PICK old \in CapturedEntry : old = EntryOf(s, id) /\ old = s.entries[k] BY <1>1, <1>2
<1>4. old.bytes \in Int /\ old.seq \in Nat BY DEF CapturedEntry
<1>5. PICK e : e = RequestEntry(old, id, account, answer) OBVIOUS
<1>6. /\ e \in CapturedEntry /\ e.seq = old.seq /\ e.bytes = old.bytes /\ e.id = id /\ ~e.moved
      /\ e.from = {} /\ Kept(e) = 1 + answer
  <2>1. answer \in Int OBVIOUS
  <2>2. PICK b : b = BlankEntry(old.seq, id, account) OBVIOUS
  <2>3. b \in CapturedEntry BY <1>4, <2>2 DEF BlankEntry, CapturedEntry
  <2>4. b.seq = old.seq /\ b.id = id /\ ~b.moved /\ b.from = {} /\ b.upstream = 0 BY <2>2 DEF BlankEntry
  <2>5. PICK bytes \in Int : bytes = old.bytes BY <1>4
  <2>6. PICK one \in Int, n \in Int : one = 1 /\ n = answer BY <2>1
  <2>7. e = [b EXCEPT !.bytes = bytes, !.request = one, !.response = n] BY <1>5, <2>2, <2>5, <2>6 DEF RequestEntry
  <2>8. e \in CapturedEntry BY <2>3, <2>7 DEF CapturedEntry
  <2>9. /\ e.seq = b.seq /\ e.bytes = bytes /\ e.id = b.id /\ (e.moved <=> b.moved) /\ e.from = b.from
        /\ e.request = 1 /\ e.upstream = b.upstream /\ e.response = answer
      BY <2>3, <2>7, <2>6 DEF CapturedEntry
  <2>10. Kept(e) = 1 + answer BY <2>1, <2>4, <2>9 DEF Kept
  <2> QED BY <2>4, <2>5, <2>8, <2>9, <2>10
<1>7. PICK delta \in Int : delta = 1 + answer - old.bytes BY <1>4
<1>8. Rewrites(s, k, e, delta)
  <2>1. e.bytes + delta = Kept(e) BY <1>4, <1>6, <1>7
  <2>2. \A r \in Requests : s.inflight[r] = e.seq => e.id = r /\ ~e.moved BY <1>1, <1>3, <1>6
  <2>3. e.from \subseteq {e.account} BY <1>6
  <2> QED BY <1>3, <1>6, <2>1, <2>2, <2>3 DEF Rewrites
<1>9. PICK t : t = Touched(s, e, delta) OBVIOUS
<1>10. /\ t \in CaptureState /\ Booked(t, 0) /\ Limited(t) /\ SameOtherwise(t, s)
       /\ t.revision = s.revision + 1
       /\ \A j \in 1..Len(t.entries) : \/ t.entries[j].revision = s.revision + 1
                                       \/ \E n \in 1..Len(s.entries) : n # k /\ t.entries[j] = s.entries[n]
    BY <1>8, <1>9, TouchedOK
<1>11. Rewritten(t, s, k) BY <1>10 DEF Sound, Rewritten
<1> QED BY <1>3, <1>5, <1>7, <1>9, <1>11

(* A new entry, still blank: its request points at it. *)
OpenedFor(s, id, account) ==
    [s EXCEPT !.seq = @ + 1, !.entries = Append(@, BlankEntry(s.seq + 1, id, account)), !.inflight[id] = s.seq + 1]

LEMMA OpenedOK ==
    ASSUME NEW s, Sound(s), NEW id \in Requests, NEW account \in Upstreams
    PROVE  LET t == OpenedFor(s, id, account)
               k == Len(s.entries) + 1
           IN /\ t \in CaptureState /\ Booked(t, k) /\ Len(t.entries) = k /\ k \in 1..k
              /\ t.inflight[id] # 0 /\ t.entries[k].seq = t.inflight[id] /\ t.revision = s.revision
              /\ \A i \in 1..Len(t.entries) : i # k => i \in 1..Len(s.entries) /\ t.entries[i] = s.entries[i]
<1>1. /\ s \in CaptureState /\ Booked(s, 0) /\ s.entries \in Seq(CapturedEntry) /\ s.inflight \in [Requests -> Nat]
      /\ s.total \in Int /\ s.seq \in Nat /\ s.revision \in Nat
    BY DEF Sound, CaptureState
<1>2. PICK l \in Nat : l = Len(s.entries) BY <1>1
<1>3. PICK seq \in Nat : seq = s.seq + 1 BY <1>1
<1>4. PICK b : b = BlankEntry(seq, id, account) OBVIOUS
<1>5. b \in CapturedEntry /\ b.seq = seq /\ b.id = id /\ ~b.moved /\ b.bytes = 0
    BY <1>3, <1>4 DEF BlankEntry, CapturedEntry
<1>6. PICK entries \in Seq(CapturedEntry) : entries = Append(s.entries, b) BY <1>1, <1>5, AppendProperties
<1>7. Len(entries) = l + 1 /\ entries[l + 1] = b /\ \A i \in 1..l : entries[i] = s.entries[i]
    BY <1>1, <1>2, <1>5, <1>6, AppendProperties
<1>8. PICK inflight \in [Requests -> Nat] : inflight = [s.inflight EXCEPT ![id] = seq] BY <1>1, <1>3
<1>9. \A r \in Requests : inflight[r] = IF r = id THEN seq ELSE s.inflight[r] BY <1>1, <1>8
<1>10. PICK t : t = [s EXCEPT !.seq = seq, !.entries = entries, !.inflight = inflight] OBVIOUS
<1>11. /\ t \in CaptureState /\ t.entries = entries /\ t.inflight = inflight /\ t.seq = seq
       /\ t.revision = s.revision /\ t.total = s.total
    BY <1>1, <1>10 DEF CaptureState
<1>12. t = OpenedFor(s, id, account) BY <1>3, <1>4, <1>6, <1>8, <1>10 DEF OpenedFor
<1>13. \A i \in 1..Len(entries) : i = l + 1 \/ i \in 1..l BY <1>2, <1>7
<1>14. \A i \in 1..l : entries[i] = s.entries[i] /\ entries[i].seq \in 1..s.seq /\ entries[i].seq # seq
  <2>1. \A n \in 1..s.seq : n # seq BY <1>1, <1>3
  <2> QED BY <1>1, <1>2, <1>7, <2>1 DEF Booked
<1>15. Booked(t, l + 1)
  <2>1. \A i \in 1..Len(entries) : entries[i].seq \in 1..seq
    <3>1. seq \in 1..seq /\ 1..s.seq \subseteq 1..seq BY <1>1, <1>3
    <3> QED BY <1>5, <1>7, <1>13, <1>14, <3>1
  <2>2. ASSUME NEW i \in 1..Len(entries), i # l + 1 PROVE Written(entries[i], s.revision)
    <3>1. i \in 1..l /\ i # 0 BY <1>2, <1>13, <2>2
    <3> QED BY <1>1, <1>2, <1>14, <3>1 DEF Booked
  <2>3. ASSUME NEW i \in 1..Len(entries), NEW j \in 1..Len(entries), entries[i].seq = entries[j].seq PROVE i = j
    <3>1. CASE i \in 1..l /\ j \in 1..l BY <1>1, <1>2, <1>14, <2>3, <3>1 DEF Booked
    <3>2. CASE i = l + 1 /\ j \in 1..l BY <1>5, <1>7, <1>14, <2>3, <3>2
    <3>3. CASE j = l + 1 /\ i \in 1..l BY <1>5, <1>7, <1>14, <2>3, <3>3
    <3>4. CASE j = l + 1 /\ i = l + 1 BY <3>4
    <3> QED BY <1>13, <3>1, <3>2, <3>3, <3>4
  <2>4. ASSUME NEW r \in Requests, inflight[r] # 0 PROVE \E i \in 1..Len(entries) : Serves(entries[i], inflight[r], r)
    <3>1. CASE r = id
      <4>1. l + 1 \in 1..Len(entries) BY <1>2, <1>7
      <4>2. Serves(entries[l + 1], inflight[r], r) BY <1>5, <1>7, <1>9, <3>1 DEF Serves
      <4> QED BY <4>1, <4>2
    <3>2. CASE r # id
      <4>1. PICK i \in 1..l : Serves(s.entries[i], s.inflight[r], r) BY <1>1, <1>2, <1>9, <2>4, <3>2 DEF Booked
      <4>2. i \in 1..Len(entries) BY <1>2, <1>7
      <4> QED BY <1>9, <1>14, <3>2, <4>1, <4>2
    <3> QED BY <3>1, <3>2
  <2>5. t.total = BytesOf(entries)
    <3>1. BytesOf(entries) = BytesOf(s.entries) + b.bytes BY <1>1, <1>5, <1>6, BytesAppended
    <3>2. s.total = BytesOf(s.entries) BY <1>1 DEF Booked
    <3> QED BY <1>1, <1>5, <1>11, <3>1, <3>2
  <2> QED BY <1>11, <2>1, <2>2, <2>3, <2>4, <2>5 DEF Booked
<1>16. seq # 0 /\ inflight[id] = seq /\ l + 1 \in 1..(l + 1) BY <1>1, <1>3, <1>9
<1> QED BY <1>2, <1>5, <1>7, <1>11, <1>12, <1>13, <1>15, <1>16

LEMMA RequestKeepsBooks ==
    ASSUME Sound(capture), NEW id \in Requests, NEW account \in Upstreams, NEW rejected \in BOOLEAN,
           ObserveRequest(id, account, rejected)
    PROVE  Sound(capture') /\ Moves(capture, capture')
<1>1. PICK s : s = capture /\ Sound(s) /\ s \in CaptureState BY DEF Sound
<1>2. PICK met : met = MovedAway(s, id, account) OBVIOUS
<1>3. Sound(met) /\ met \in CaptureState /\ Booked(met, 0) /\ Moves(s, met) BY <1>1, <1>2, MovedAwayOK DEF Sound
<1>4. PICK answer \in {0, 1} : answer = IF rejected THEN 1 ELSE 0 OBVIOUS
<1>5. PICK next : next = capture' OBVIOUS
<1>6. CASE met.inflight[id] # 0
  <2>1. PICK k \in 1..Len(met.entries) : Serves(met.entries[k], met.inflight[id], id) BY <1>3, <1>6, InFlight
  <2>2. met.entries[k].seq = met.inflight[id] BY <2>1 DEF Serves
  <2>3. Booked(met, k) BY <1>3 DEF Booked
  <2>4. PICK t : t = Touched(met, RequestEntry(EntryOf(met, id), id, account, answer), 1 + answer - EntryOf(met, id).bytes)
      OBVIOUS
  <2>5. next = t BY <1>1, <1>2, <1>4, <1>5, <1>6, <2>4 DEF ObserveRequest, RequestEntry
  <2>6. Rewritten(t, met, k) BY <1>3, <1>6, <2>2, <2>3, <2>4, RequestWritten
  <2>7. /\ Sound(t) /\ t.revision = met.revision + 1
        /\ \A j \in 1..Len(t.entries) : \/ t.entries[j].revision = met.revision + 1
                                        \/ \E i \in 1..Len(met.entries) : i # k /\ t.entries[j] = met.entries[i]
      BY <2>6 DEF Rewritten
  <2>8. met.revision + 1 > met.revision /\ met.revision <= met.revision + 1
    <3>1. met.revision \in Nat BY <1>3 DEF CaptureState
    <3> QED BY <3>1
  <2>9. Moves(met, t) BY <2>7, <2>8 DEF Moves
  <2>10. t \in CaptureState BY <2>7 DEF Sound
  <2>11. Moves(s, t) BY <1>1, <1>3, <2>9, <2>10, MovesOn
  <2> QED BY <1>1, <1>5, <2>5, <2>7, <2>11
<1>7. CASE met.inflight[id] = 0
  <2>1. PICK active : active = Leased(met) OBVIOUS
  <2>2. /\ active \in CaptureState /\ Moves(met, active) /\ Sound(active) /\ active.inflight = met.inflight
      BY <1>3, <2>1, LeasedOK
  <2>3. Moves(s, active) BY <1>1, <1>3, <2>2, MovesOn
  <2>4. CASE active.listeners[account] # "on"
    <3>1. next = active BY <1>1, <1>2, <1>5, <1>7, <2>1, <2>4 DEF ObserveRequest
    <3> QED BY <1>1, <1>5, <2>2, <2>3, <3>1
  <2>5. CASE active.listeners[account] = "on"
    <3>1. PICK opened : opened = OpenedFor(active, id, account) OBVIOUS
    <3>2. PICK k : k = Len(active.entries) + 1 OBVIOUS
    <3>3. /\ opened \in CaptureState /\ Booked(opened, k) /\ Len(opened.entries) = k /\ k \in 1..k
          /\ opened.inflight[id] # 0 /\ opened.entries[k].seq = opened.inflight[id]
          /\ opened.revision = active.revision
          /\ \A i \in 1..Len(opened.entries) :
               i # k => i \in 1..Len(active.entries) /\ opened.entries[i] = active.entries[i]
        BY <2>2, <3>1, <3>2, OpenedOK
    <3>4. PICK t : t = Touched(opened, RequestEntry(EntryOf(opened, id), id, account, answer),
                               1 + answer - EntryOf(opened, id).bytes)
        OBVIOUS
    <3>5. next = t BY <1>1, <1>2, <1>4, <1>5, <1>7, <2>1, <2>5, <3>1, <3>4 DEF ObserveRequest, RequestEntry, OpenedFor
    <3>6. Rewritten(t, opened, k) BY <3>3, <3>4, RequestWritten
    <3>7. /\ Sound(t) /\ t.revision = opened.revision + 1
          /\ \A j \in 1..Len(t.entries) : \/ t.entries[j].revision = opened.revision + 1
                                          \/ \E i \in 1..Len(opened.entries) : i # k /\ t.entries[j] = opened.entries[i]
        BY <3>6 DEF Rewritten
    <3>8. active.revision + 1 > active.revision /\ active.revision <= active.revision + 1
      <4>1. active.revision \in Nat BY <2>2 DEF CaptureState
      <4> QED BY <4>1
    <3>9. Moves(active, t) BY <3>3, <3>7, <3>8 DEF Moves
    <3>10. t \in CaptureState BY <3>7 DEF Sound
    <3>11. Moves(s, t) BY <1>1, <2>2, <2>3, <3>9, <3>10, MovesOn
    <3> QED BY <1>1, <1>5, <3>5, <3>7, <3>11
  <2> QED BY <2>4, <2>5
<1> QED BY <1>6, <1>7

LEMMA ResponseKeepsBooks ==
    ASSUME Sound(capture), NEW id \in Requests, NEW account \in Upstreams \cup {NoUpstream}, NEW stream \in BOOLEAN,
           ObserveResponse(id, account, stream)
    PROVE  Sound(capture') /\ Moves(capture, capture')
<1>1. PICK s : s = capture /\ Sound(s) /\ s \in CaptureState /\ Booked(s, 0) BY DEF Sound
<1>2. s.inflight[id] # 0 BY <1>1 DEF ObserveResponse
<1>3. PICK k \in 1..Len(s.entries) :
             /\ At(s.entries, s.inflight[id]) = k /\ EntryOf(s, id) = s.entries[k]
             /\ Serves(s.entries[k], s.inflight[id], id) /\ s.entries[k] \in CapturedEntry
             /\ \A r \in Requests : s.inflight[r] = s.inflight[id] => r = id
    BY <1>1, <1>2, InFlight
<1>4. PICK old \in CapturedEntry : old = s.entries[k] BY <1>3
<1>5. /\ old.bytes \in Int /\ old.request \in Int /\ old.upstream \in Int /\ old.response \in Int
      /\ old.from \in SUBSET Upstreams /\ old.account \in Upstreams
    BY DEF CapturedEntry
<1>6. PICK upstream \in Int : upstream = IF old.upstream = 0 THEN 1 ELSE old.upstream BY <1>5
<1>7. PICK response \in Int : response = IF stream THEN SmallerOf(old.response + 1, MaxBody) ELSE 1
  <2>1. MaxBody \in Int BY CaptureAssumption
  <2> QED BY <1>5, <2>1 DEF SmallerOf
<1>8. FromItsAccount(old, account) BY <1>1, <1>3, <1>4 DEF ObserveResponse
<1>9. PICK from : from = old.from \cup ({account} \ {NoUpstream}) OBVIOUS
<1>10. from \in SUBSET Upstreams BY <1>5, <1>9
<1>11. PICK e : e = [old EXCEPT !.upstream = upstream, !.response = response, !.from = from] OBVIOUS
<1>12. /\ e \in CapturedEntry /\ e.seq = old.seq /\ e.id = old.id /\ (e.moved <=> old.moved) /\ e.bytes = old.bytes
       /\ e.request = old.request /\ e.upstream = upstream /\ e.response = response /\ e.from = from
       /\ e.account = old.account
    BY <1>10, <1>11 DEF CapturedEntry
<1>13. PICK delta \in Int : delta = upstream + response - old.upstream - old.response BY <1>5
<1>14. Written(old, s.revision)
  <2>1. k # 0 BY <1>3
  <2> QED BY <1>1, <1>4, <2>1 DEF Booked
<1>15. Rewrites(s, k, e, delta)
  <2>1. e.bytes + delta = Kept(e)
    <3>1. PICK req \in Int, up \in Int, resp \in Int : req = old.request /\ up = old.upstream /\ resp = old.response
        BY <1>5
    <3>2. e.bytes = req + up + resp /\ delta = upstream + response - up - resp /\ Kept(e) = req + upstream + response
        BY <1>12, <1>13, <1>14, <3>1 DEF Written, Kept
    <3> QED BY <3>2
  <2>2. e.from \subseteq {e.account} BY <1>8, <1>9, <1>12, <1>14 DEF Written, FromItsAccount
  <2>3. ASSUME NEW r \in Requests, s.inflight[r] = e.seq PROVE e.id = r /\ ~e.moved
    <3>1. r = id BY <1>3, <1>4, <1>12, <2>3 DEF Serves
    <3> QED BY <1>3, <1>4, <1>12, <3>1 DEF Serves
  <2>4. Booked(s, k) BY <1>1 DEF Booked
  <2> QED BY <1>4, <1>12, <2>1, <2>2, <2>3, <2>4 DEF Rewrites
<1>16. PICK t : t = Touched(s, e, delta) OBVIOUS
<1>17. /\ t \in CaptureState /\ Booked(t, 0) /\ Limited(t) /\ SameOtherwise(t, s)
       /\ t.revision = s.revision + 1
       /\ \A j \in 1..Len(t.entries) : \/ t.entries[j].revision = s.revision + 1
                                       \/ \E i \in 1..Len(s.entries) : i # k /\ t.entries[j] = s.entries[i]
    BY <1>1, <1>15, <1>16, TouchedOK
<1>18. s.revision + 1 > s.revision /\ s.revision <= s.revision + 1
  <2>1. s.revision \in Nat BY <1>1 DEF CaptureState
  <2> QED BY <2>1
<1>19. Moves(s, t) BY <1>17, <1>18 DEF Moves
<1>20. PICK next : next = capture' OBVIOUS
<1>21. next = t BY <1>1, <1>3, <1>4, <1>6, <1>7, <1>9, <1>11, <1>13, <1>16, <1>20 DEF ObserveResponse
<1>22. Sound(t) BY <1>17 DEF Sound
<1> QED BY <1>1, <1>19, <1>20, <1>21, <1>22

LEMMA CompletionKeepsBooks ==
    ASSUME Sound(capture), NEW id \in Requests, ObserveCompletion(id)
    PROVE  Sound(capture') /\ Moves(capture, capture')
<1>1. PICK s : s = capture /\ Sound(s) /\ s \in CaptureState /\ Booked(s, 0) BY DEF Sound
<1>2. s.inflight[id] # 0 BY <1>1 DEF ObserveCompletion
<1>3. PICK old \in CapturedEntry : old = EntryOf(s, id) BY <1>1, <1>2, InFlight
<1>4. PICK e : e = [old EXCEPT !.done = TRUE] OBVIOUS
<1>5. e \in CapturedEntry /\ e.seq = old.seq /\ e.bytes = old.bytes /\ e.from = old.from /\ e.account = old.account
      /\ Kept(e) = Kept(old)
    BY <1>4 DEF CapturedEntry, Kept
<1>6. PICK t : t = Touched([s EXCEPT !.inflight[id] = 0], e, 0) OBVIOUS
<1>7. Sound(t) /\ Moves(s, t) BY <1>1, <1>2, <1>3, <1>5, <1>6, LeftOK
<1>8. PICK next : next = capture' OBVIOUS
<1>9. next = t BY <1>1, <1>3, <1>4, <1>6, <1>8 DEF ObserveCompletion
<1> QED BY <1>1, <1>7, <1>8, <1>9

LEMMA EmptyCapture == <<>> \in Seq(CapturedEntry) /\ Len(<<>>) = 0
OBVIOUS

LEMMA CommandKeepsBooks ==
    ASSUME Sound(capture), Command \/ Expire
    PROVE  Sound(capture') /\ Moves(capture, capture')
<1>1. PICK s : s = capture /\ Sound(s) /\ s \in CaptureState BY DEF Sound
<1>2. PICK next : next = capture' OBVIOUS
<1>3. ASSUME NEW t \in CaptureState, t.entries = s.entries, t.inflight = s.inflight, t.seq = s.seq,
             t.revision = s.revision, t.total = s.total
      PROVE  Sound(t) /\ Moves(s, t)
    BY <1>1, <1>3, SameBooks
<1>4. ASSUME NEW account \in Upstreams, NEW paused \in BOOLEAN, Watch(account, paused)
      PROVE  Sound(next) /\ Moves(s, next)
  <2>1. PICK active \in CaptureState : /\ active = Leased(s) /\ active.entries = s.entries
                                       /\ active.inflight = s.inflight /\ active.seq = s.seq
                                       /\ active.revision = s.revision /\ active.total = s.total
      BY <1>1, LeasedOK
  <2>2. active.listeners \in [Upstreams -> {"off", "on", "paused"}] BY DEF CaptureState
  <2>3. PICK how \in {"off", "on", "paused"} : how = IF paused THEN "paused" ELSE "on" OBVIOUS
  <2>4. PICK listeners \in [Upstreams -> {"off", "on", "paused"}] : listeners = [active.listeners EXCEPT ![account] = how]
      BY <2>2
  <2>5. next = [active EXCEPT !.listeners = listeners, !.expired = FALSE] BY <1>1, <1>2, <1>4, <2>1, <2>3, <2>4 DEF Watch
  <2>6. /\ next \in CaptureState /\ next.entries = active.entries /\ next.inflight = active.inflight
        /\ next.seq = active.seq /\ next.revision = active.revision /\ next.total = active.total
      BY <2>5 DEF CaptureState
  <2> QED BY <1>3, <2>1, <2>6
<1>5. ASSUME NEW accounts \in SUBSET Upstreams, StopWatching(accounts)
      PROVE  Sound(next) /\ Moves(s, next)
  <2>1. s.listeners \in [Upstreams -> {"off", "on", "paused"}] BY <1>1 DEF CaptureState
  <2>2. PICK listeners \in [Upstreams -> {"off", "on", "paused"}] :
               listeners = [a \in Upstreams |-> IF a \in accounts THEN "off" ELSE s.listeners[a]]
      BY <2>1
  <2>3. PICK u : u = [s EXCEPT !.listeners = listeners] OBVIOUS
  <2>4. /\ u \in CaptureState /\ u.entries = s.entries /\ u.inflight = s.inflight /\ u.seq = s.seq
        /\ u.revision = s.revision /\ u.total = s.total
      BY <1>1, <2>3 DEF CaptureState
  <2>5. next = Leased(u) BY <1>1, <1>2, <1>5, <2>2, <2>3 DEF StopWatching
  <2>6. /\ next \in CaptureState /\ next.entries = u.entries /\ next.inflight = u.inflight /\ next.seq = u.seq
        /\ next.revision = u.revision /\ next.total = u.total
      BY <2>4, <2>5, LeasedOK
  <2> QED BY <1>3, <2>4, <2>6
<1>6. ASSUME Clear PROVE Sound(next) /\ Moves(s, next)
  <2>1. PICK none \in Seq(CapturedEntry) : none = <<>> /\ Len(none) = 0 BY EmptyCapture
  <2>2. PICK inflight \in [Requests -> Nat] : inflight = [id \in Requests |-> 0] OBVIOUS
  <2>3. s.revision \in Nat BY <1>1 DEF CaptureState
  <2>4. PICK revision \in Nat : revision = s.revision + 1 BY <2>3
  <2>5. PICK zero \in Int : zero = 0 OBVIOUS
  <2>6. PICK u : u = [s EXCEPT !.entries = none, !.total = zero, !.inflight = inflight, !.revision = revision] OBVIOUS
  <2>7. /\ u \in CaptureState /\ u.entries = none /\ u.inflight = inflight /\ u.total = zero /\ u.revision = revision
      BY <1>1, <2>6 DEF CaptureState
  <2>8. next = Leased(u) BY <1>1, <1>2, <1>6, <2>1, <2>2, <2>4, <2>5, <2>6 DEF Clear
  <2>9. Booked(u, 0)
    <3>1. BytesOf(none) = zero BY <2>1, <2>5, NoBytes
    <3>2. 1..Len(u.entries) = {} BY <2>1, <2>7
    <3>3. \A r \in Requests : u.inflight[r] = 0 BY <2>2, <2>7
    <3> QED BY <2>7, <3>1, <3>2, <3>3 DEF Booked
  <2>10. Limited(u) BY <2>1, <2>5, <2>7, CaptureAssumption DEF Limited
  <2>11. Sound(u) BY <2>7, <2>9, <2>10 DEF Sound
  <2>12. next \in CaptureState /\ Sound(next) /\ next.entries = u.entries /\ next.revision = u.revision
      BY <2>7, <2>8, <2>11, LeasedOK
  <2>13. Moves(s, next)
    <3>1. 1..Len(next.entries) = {} /\ s.revision <= next.revision BY <2>1, <2>3, <2>4, <2>7, <2>12
    <3> QED BY <3>1 DEF Moves
  <2> QED BY <2>12, <2>13
<1>7. ASSUME Expire PROVE Sound(next) /\ Moves(s, next)
  <2>1. next = [s EXCEPT !.expired = TRUE] BY <1>1, <1>2, <1>7 DEF Expire
  <2>2. /\ next \in CaptureState /\ next.entries = s.entries /\ next.inflight = s.inflight /\ next.seq = s.seq
        /\ next.revision = s.revision /\ next.total = s.total
      BY <1>1, <2>1 DEF CaptureState
  <2> QED BY <1>3, <2>2
<1>8. Sound(next) /\ Moves(s, next) BY <1>4, <1>5, <1>6, <1>7 DEF Command
<1> QED BY <1>1, <1>2, <1>8

LEMMA HookKeepsBooks ==
    ASSUME Sound(capture), Hook
    PROVE  Sound(capture') /\ Moves(capture, capture')
<1>1. ASSUME NEW id \in Requests, NEW account \in Upstreams, NEW rejected \in BOOLEAN,
             ObserveRequest(id, account, rejected)
      PROVE  Sound(capture') /\ Moves(capture, capture')
    BY <1>1, RequestKeepsBooks
<1>2. ASSUME NEW id \in Requests, NEW account \in Upstreams \cup {NoUpstream}, NEW stream \in BOOLEAN,
             ObserveResponse(id, account, stream)
      PROVE  Sound(capture') /\ Moves(capture, capture')
    BY <1>2, ResponseKeepsBooks
<1>3. ASSUME NEW id \in Requests, ObserveCompletion(id)
      PROVE  Sound(capture') /\ Moves(capture, capture')
    BY <1>3, CompletionKeepsBooks
<1> QED BY <1>1, <1>2, <1>3 DEF Hook

LEMMA FreshIsSound == Sound(FreshCapture) /\ FreshCapture.entries = <<>> /\ FreshCapture.revision = 0
<1>1. PICK none \in Seq(CapturedEntry) : none = <<>> /\ Len(none) = 0 BY EmptyCapture
<1>2. PICK inflight \in [Requests -> Nat] : inflight = [id \in Requests |-> 0] OBVIOUS
<1>3. PICK off \in [Upstreams -> {"off", "on", "paused"}] : off = [a \in Upstreams |-> "off"] OBVIOUS
<1>4. PICK s : s = FreshCapture OBVIOUS
<1>5. s = [entries |-> none, inflight |-> inflight, listeners |-> off, expired |-> TRUE, seq |-> 0, revision |-> 0,
           total |-> 0]
    BY <1>1, <1>2, <1>3, <1>4 DEF FreshCapture
<1>6. s \in CaptureState /\ s.entries = none /\ s.inflight = inflight /\ s.total = 0 /\ s.revision = 0
    BY <1>5 DEF CaptureState
<1>7. Booked(s, 0)
  <2>1. BytesOf(none) = 0 BY <1>1, NoBytes
  <2>2. 1..Len(s.entries) = {} BY <1>1, <1>6
  <2>3. \A r \in Requests : s.inflight[r] = 0 BY <1>2, <1>6
  <2> QED BY <1>6, <2>1, <2>2, <2>3 DEF Booked
<1>8. Limited(s) BY <1>1, <1>6, CaptureAssumption DEF Limited
<1> QED BY <1>1, <1>4, <1>6, <1>7, <1>8 DEF Sound

LEMMA LeaseKeepsBooks ==
    ASSUME Sound(capture), capture' = Leased(capture)
    PROVE  Sound(capture') /\ Moves(capture, capture')
<1>1. PICK s : s = capture /\ Sound(s) /\ s \in CaptureState BY DEF Sound
<1>2. PICK next : next = capture' OBVIOUS
<1>3. next = Leased(s) BY <1>1, <1>2
<1>4. Sound(next) /\ Moves(s, next) BY <1>1, <1>3, LeasedOK
<1> QED BY <1>1, <1>2, <1>4

LEMMA SoundAlways == CaptureSpec => []Sound(capture)
<1>1. CaptureInit => Sound(capture) BY FreshIsSound DEF CaptureInit
<1>2. Sound(capture) /\ [CaptureNext]_captureVars => Sound(capture)'
  <2> SUFFICES ASSUME Sound(capture), [CaptureNext]_captureVars PROVE Sound(capture') BY DEF Sound, Booked, Limited
  <2>1. CASE Hook BY <2>1, HookKeepsBooks
  <2>2. CASE Command \/ Expire BY <2>2, CommandKeepsBooks
  <2>3. CASE RestartCapture BY <2>3, FreshIsSound DEF RestartCapture
  <2>4. CASE capture' = Leased(capture) BY <2>4, LeaseKeepsBooks
  <2>5. CASE UNCHANGED capture BY <2>5
  <2>6. CASE PageCommand BY <2>2, <2>4, <2>6 DEF PageCommand
  <2>7. CASE Poll BY <2>4, <2>7 DEF Poll
  <2> QED BY <2>1, <2>2, <2>3, <2>5, <2>6, <2>7
          DEF CaptureNext, captureVars, Receive, StartOver, Lose, ReceiveCommand, LoseCommand
<1> QED BY <1>1, <1>2, PTL DEF CaptureSpec

LEMMA SoundAccounts == Sound(capture) => CaptureAccounts
<1> SUFFICES ASSUME Sound(capture) PROVE CaptureAccounts OBVIOUS
<1>1. capture \in CaptureState /\ Booked(capture, 0) /\ Limited(capture) BY DEF Sound
<1>2. capture.entries \in Seq(CapturedEntry) /\ DOMAIN capture.entries = 1..Len(capture.entries)
  <2>1. capture.entries \in Seq(CapturedEntry) BY <1>1 DEF CaptureState
  <2> QED BY <2>1
<1>3. \A i \in 1..Len(capture.entries) : i # 0 /\ Written(capture.entries[i], capture.revision) BY <1>1 DEF Booked
<1>4. ASSUME NEW id \in Requests, capture.inflight[id] # 0
      PROVE  capture.inflight[id] \in Numbers /\ EntryOf(capture, id).id = id /\ ~EntryOf(capture, id).moved
  <2>1. PICK k \in 1..Len(capture.entries) : /\ EntryOf(capture, id) = capture.entries[k]
                                             /\ Serves(capture.entries[k], capture.inflight[id], id)
      BY <1>1, <1>4, InFlight
  <2> QED BY <1>2, <2>1 DEF Numbers, Serves
<1>5. capture.total = BytesOf(capture.entries) BY <1>1 DEF Booked
<1>6. Len(capture.entries) <= MaxEntries /\ (capture.total <= MaxTotal \/ Len(capture.entries) = 1)
    BY <1>1 DEF Limited
<1> QED BY <1>2, <1>3, <1>4, <1>5, <1>6 DEF CaptureAccounts, Written

(* Traffic capture keeps its accounts: bytes, limits, requests in flight, accounts kept apart. *)
THEOREM CaptureKeepsAccounts == CaptureSpec => []CaptureAccounts
BY SoundAlways, SoundAccounts, PTL

(* What the page holds of the entries that have not changed since its cursor: what they were, unless
   the answer to a command took them off. *)
Row == [seq : Nat, size : Int, moved : BOOLEAN, done : BOOLEAN]
Answer == [rows : SUBSET Row, retained : SUBSET Nat, revision : Nat, all : SUBSET Row]
Reply == [retained : SUBSET Nat, revision : Nat, check : BOOLEAN]
ViewState ==
    [rows : SUBSET Row, cursor : Nat, answer : Answer \cup {NoAnswer}, command : Reply \cup {NoAnswer},
     taken : SUBSET Nat, restarted : BOOLEAN, misled : BOOLEAN]
Synced(entries, rows, cursor, taken) ==
    \A i \in 1..Len(entries) : entries[i].revision <= cursor =>
        /\ entries[i].seq \in taken \/ Summary(entries[i]) \in rows
        /\ \A r \in rows : r.seq = entries[i].seq => r = Summary(entries[i]) /\ r.seq \notin taken
LeftOf(all, taken) == {r \in all : r.seq \notin taken}
Conveys(s, rows, taken, answer) ==
    /\ answer.revision <= s.revision
    /\ MergedRows(rows, answer) = LeftOf(answer.all, StillTaken(taken, answer))
    /\ Synced(s.entries, answer.all, answer.revision, {})

(* The answer to a command lists every entry that has not changed since it was made. *)
Lists(s, reply) ==
    /\ reply.revision <= s.revision
    /\ \A i \in 1..Len(s.entries) : s.entries[i].revision <= reply.revision => s.entries[i].seq \in reply.retained
Tells(s, v) ==
    /\ v.command # NoAnswer => Lists(s, v.command)
    /\ ~v.misled /\ ~v.restarted =>
        /\ v.cursor <= s.revision
        /\ Synced(s.entries, v.rows, v.cursor, v.taken)
        /\ v.answer # NoAnswer => Conveys(s, v.rows, v.taken, v.answer)

(* What has not changed since an earlier revision was there. *)
LEMMA UnchangedSince ==
    ASSUME NEW s \in CaptureState, NEW t \in CaptureState, Moves(s, t), NEW cursor \in Nat, cursor <= s.revision
    PROVE  /\ \A j \in 1..Len(t.entries) : t.entries[j].revision <= cursor =>
                  \E i \in 1..Len(s.entries) : t.entries[j] = s.entries[i]
           /\ cursor <= t.revision
<1>1. s.revision \in Nat /\ t.revision \in Nat /\ t.entries \in Seq(CapturedEntry) BY DEF CaptureState
<1>2. ASSUME NEW j \in 1..Len(t.entries), t.entries[j].revision <= cursor
      PROVE  \E i \in 1..Len(s.entries) : t.entries[j] = s.entries[i]
  <2>1. t.entries[j] \in CapturedEntry BY <1>1
  <2>2. t.entries[j].revision \in Nat BY <2>1 DEF CapturedEntry
  <2>3. ~(t.entries[j].revision > s.revision) BY <1>1, <1>2, <2>2
  <2> QED BY <2>3 DEF Moves
<1>3. s.revision <= t.revision BY DEF Moves
<1> QED BY <1>1, <1>2, <1>3

LEMMA SyncedMoves ==
    ASSUME NEW s \in CaptureState, NEW t \in CaptureState, Moves(s, t), NEW rows, NEW cursor \in Nat, NEW taken,
           cursor <= s.revision, Synced(s.entries, rows, cursor, taken)
    PROVE  Synced(t.entries, rows, cursor, taken) /\ cursor <= t.revision
<1>1. ASSUME NEW j \in 1..Len(t.entries), t.entries[j].revision <= cursor
      PROVE  /\ t.entries[j].seq \in taken \/ Summary(t.entries[j]) \in rows
             /\ \A r \in rows : r.seq = t.entries[j].seq => r = Summary(t.entries[j]) /\ r.seq \notin taken
  <2>1. PICK i \in 1..Len(s.entries) : t.entries[j] = s.entries[i] BY <1>1, UnchangedSince
  <2> QED BY <1>1, <2>1 DEF Synced
<1> QED BY <1>1, UnchangedSince DEF Synced

LEMMA ListsMoves ==
    ASSUME NEW s \in CaptureState, NEW t \in CaptureState, Moves(s, t), NEW reply \in Reply, Lists(s, reply)
    PROVE  Lists(t, reply)
<1>1. reply.revision \in Nat /\ reply.revision <= s.revision BY DEF Reply, Lists
<1>2. ASSUME NEW j \in 1..Len(t.entries), t.entries[j].revision <= reply.revision
      PROVE  t.entries[j].seq \in reply.retained
  <2>1. PICK i \in 1..Len(s.entries) : t.entries[j] = s.entries[i] BY <1>1, <1>2, UnchangedSince
  <2> QED BY <1>2, <2>1 DEF Lists
<1> QED BY <1>1, <1>2, UnchangedSince DEF Lists

(* An answer conveys what is retained to a page that had what has not changed since. *)
LEMMA AnswerOK ==
    ASSUME NEW s, Sound(s), NEW rows, NEW cursor \in Nat, NEW taken, Synced(s.entries, rows, cursor, taken)
    PROVE  LET answer == PageAnswer(s, cursor) IN
           /\ answer \in Answer /\ answer.revision = s.revision
           /\ MergedRows(rows, answer) = LeftOf(answer.all, StillTaken(taken, answer))
           /\ Synced(s.entries, answer.all, answer.revision, {})
<1>1. /\ s \in CaptureState /\ Booked(s, 0) /\ s.entries \in Seq(CapturedEntry) /\ s.revision \in Nat
      /\ DOMAIN s.entries = 1..Len(s.entries)
    BY DEF Sound, CaptureState
<1>2. PICK e \in Seq(CapturedEntry) : e = s.entries /\ DOMAIN e = 1..Len(e) BY <1>1
<1>3. ASSUME NEW i \in 1..Len(e)
      PROVE  /\ e[i].revision \in 1..s.revision /\ e[i].revision \in Nat /\ e[i].seq \in Nat
             /\ Summary(e[i]) \in Row /\ Summary(e[i]).seq = e[i].seq
  <2>1. PICK x \in CapturedEntry : x = e[i] BY <1>2
  <2>2. i # 0 /\ Written(x, s.revision) BY <1>1, <1>2, <2>1 DEF Booked
  <2>3. x.seq \in Nat /\ x.response \in Int /\ x.moved \in BOOLEAN /\ x.done \in BOOLEAN /\ x.revision \in Nat
      BY DEF CapturedEntry
  <2>4. Summary(x) \in Row /\ Summary(x).seq = x.seq BY <2>3 DEF Summary, Row
  <2> QED BY <2>1, <2>2, <2>3, <2>4 DEF Written
<1>4. \A i, j \in 1..Len(e) : e[i].seq = e[j].seq => i = j BY <1>1, <1>2 DEF Booked
<1>5. PICK sent : sent = {Summary(e[i]) : i \in {j \in 1..Len(e) : e[j].revision > cursor}} OBVIOUS
<1>6. PICK retained : retained = {e[i].seq : i \in 1..Len(e)} OBVIOUS
<1>7. PICK all : all = {Summary(e[i]) : i \in 1..Len(e)} OBVIOUS
<1>8. sent \in SUBSET Row /\ retained \in SUBSET Nat /\ all \in SUBSET Row BY <1>3, <1>5, <1>6, <1>7
<1>9. PICK answer : answer = PageAnswer(s, cursor) OBVIOUS
<1>10. answer = [rows |-> sent, retained |-> retained, revision |-> s.revision, all |-> all]
    BY <1>2, <1>5, <1>6, <1>7, <1>9 DEF PageAnswer
<1>11. /\ answer \in Answer /\ answer.rows = sent /\ answer.retained = retained /\ answer.revision = s.revision
       /\ answer.all = all
    BY <1>1, <1>8, <1>10 DEF Answer
<1>12. ASSUME NEW i \in 1..Len(e) PROVE e[i].revision > cursor \/ e[i].revision <= cursor BY <1>3
<1>13. ASSUME NEW i \in 1..Len(e), e[i].revision <= cursor
       PROVE  /\ e[i].seq \in taken \/ Summary(e[i]) \in rows
              /\ \A r \in rows : r.seq = e[i].seq => r = Summary(e[i]) /\ r.seq \notin taken
    BY <1>2, <1>13 DEF Synced
<1>14. MergedRows(rows, answer) = {r \in rows : r.seq \in retained /\ \A n \in sent : n.seq # r.seq} \cup sent
    BY <1>11 DEF MergedRows
<1>15. PICK still : still = StillTaken(taken, answer) OBVIOUS
<1>16. still = {seq \in taken \cap retained : \A n \in sent : n.seq # seq} BY <1>11, <1>15 DEF StillTaken
<1>17. ASSUME NEW r \in MergedRows(rows, answer) PROVE r \in all /\ r.seq \notin still
  <2>1. CASE r \in sent BY <1>5, <1>7, <1>16, <2>1
  <2>2. CASE r \in rows /\ r.seq \in retained /\ \A n \in sent : n.seq # r.seq
    <3>1. PICK i \in 1..Len(e) : r.seq = e[i].seq BY <1>6, <2>2
    <3>2. CASE e[i].revision > cursor
      <4>1. Summary(e[i]) \in sent BY <1>5, <3>2
      <4> QED BY <1>3, <2>2, <3>1, <4>1
    <3>3. CASE e[i].revision <= cursor
      <4>1. r = Summary(e[i]) /\ r.seq \notin taken BY <1>13, <2>2, <3>1, <3>3
      <4> QED BY <1>7, <1>16, <4>1
    <3> QED BY <1>12, <3>2, <3>3
  <2> QED BY <1>14, <2>1, <2>2
<1>18. ASSUME NEW i \in 1..Len(e), e[i].seq \notin still PROVE Summary(e[i]) \in MergedRows(rows, answer)
  <2>1. CASE e[i].revision > cursor BY <1>5, <1>14, <2>1
  <2>2. CASE e[i].revision <= cursor
    <3>1. Summary(e[i]).seq = e[i].seq /\ e[i].seq \in retained BY <1>3, <1>6
    <3>2. ASSUME NEW n \in sent PROVE n.seq # e[i].seq
      <4>1. PICK j \in 1..Len(e) : n = Summary(e[j]) /\ e[j].revision > cursor BY <1>5
      <4>2. j # i BY <1>3, <2>2, <4>1
      <4> QED BY <1>3, <1>4, <4>1, <4>2
    <3>3. e[i].seq \notin taken BY <1>16, <1>18, <3>1, <3>2
    <3>4. Summary(e[i]) \in rows BY <1>13, <2>2, <3>3
    <3> QED BY <1>14, <3>1, <3>2, <3>4
  <2> QED BY <1>12, <2>1, <2>2
<1>19. MergedRows(rows, answer) = LeftOf(all, still)
  <2>1. ASSUME NEW r \in all, r.seq \notin still PROVE r \in MergedRows(rows, answer)
    <3>1. PICK i \in 1..Len(e) : r = Summary(e[i]) BY <1>7
    <3>2. e[i].seq \notin still BY <1>3, <2>1, <3>1
    <3> QED BY <1>18, <3>1, <3>2
  <2> QED BY <1>17, <2>1 DEF LeftOf
<1>20. Synced(e, all, s.revision, {})
  <2> SUFFICES ASSUME NEW i \in 1..Len(e)
               PROVE  Summary(e[i]) \in all /\ \A r \in all : r.seq = e[i].seq => r = Summary(e[i])
      BY DEF Synced
  <2>1. ASSUME NEW r \in all, r.seq = e[i].seq PROVE r = Summary(e[i])
    <3>1. PICK j \in 1..Len(e) : r = Summary(e[j]) BY <1>7
    <3>2. j = i BY <1>3, <1>4, <2>1, <3>1
    <3> QED BY <3>1, <3>2
  <2> QED BY <1>7, <2>1
<1> QED BY <1>2, <1>9, <1>11, <1>15, <1>19, <1>20

(* An answer of what is held is one, whatever the page has. *)
LEMMA AnswerTyped ==
    ASSUME NEW s, Sound(s), NEW cursor \in Nat
    PROVE  PageAnswer(s, cursor) \in Answer /\ PageAnswer(s, cursor).revision = s.revision
<1>1. PICK all : all = {Summary(s.entries[i]) : i \in DOMAIN s.entries} OBVIOUS
<1>2. s.entries \in Seq(CapturedEntry) /\ Booked(s, 0) BY DEF Sound, CaptureState
<1>3. Synced(s.entries, all, cursor, {})
  <2> SUFFICES ASSUME NEW i \in 1..Len(s.entries)
               PROVE  /\ Summary(s.entries[i]) \in all
                      /\ \A r \in all : r.seq = s.entries[i].seq => r = Summary(s.entries[i])
      BY DEF Synced
  <2>1. \A j \in 1..Len(s.entries) : j \in DOMAIN s.entries BY <1>2
  <2>2. ASSUME NEW r \in all, r.seq = s.entries[i].seq PROVE r = Summary(s.entries[i])
    <3>1. PICK j \in 1..Len(s.entries) : r = Summary(s.entries[j]) BY <1>1, <1>2
    <3>2. r.seq = s.entries[j].seq BY <3>1 DEF Summary
    <3>3. j = i BY <1>2, <2>2, <3>2 DEF Booked
    <3> QED BY <3>1, <3>3
  <2> QED BY <1>1, <2>1, <2>2
<1> QED BY <1>3, AnswerOK

LEMMA ViewStarts ==
    CaptureInit => view \in ViewState /\ Tells(capture, view)
<1> SUFFICES ASSUME CaptureInit PROVE view \in ViewState /\ Tells(capture, view) OBVIOUS
<1>1. view = [rows |-> {}, cursor |-> 0, answer |-> NoAnswer, command |-> NoAnswer, taken |-> {},
              restarted |-> FALSE, misled |-> FALSE]
    BY DEF CaptureInit
<1>2. view \in ViewState BY <1>1 DEF ViewState
<1>3. view.cursor = 0 /\ view.answer = NoAnswer /\ view.command = NoAnswer BY <1>1
<1>4. capture.entries = <<>> /\ capture.revision = 0 BY FreshIsSound DEF CaptureInit
<1>5. 1..Len(capture.entries) = {} BY <1>4, EmptyCapture
<1>6. Synced(capture.entries, view.rows, view.cursor, view.taken) BY <1>5 DEF Synced
<1>7. view.cursor <= capture.revision BY <1>3, <1>4
<1> QED BY <1>2, <1>3, <1>6, <1>7 DEF Tells

(* The capture changes, the page does not. *)
LEMMA ViewWaits ==
    ASSUME NEW s, Sound(s), NEW t, Sound(t), Moves(s, t), NEW v \in ViewState, Tells(s, v)
    PROVE  Tells(t, v)
<1>1. s \in CaptureState /\ t \in CaptureState /\ v.cursor \in Nat BY DEF Sound, ViewState
<1>2. ASSUME v.command # NoAnswer PROVE Lists(t, v.command)
  <2>1. v.command \in Reply BY <1>2 DEF ViewState
  <2>2. Lists(s, v.command) BY <1>2 DEF Tells
  <2> QED BY <1>1, <2>1, <2>2, ListsMoves
<1> SUFFICES ASSUME ~v.misled /\ ~v.restarted
             PROVE  /\ v.cursor <= t.revision
                    /\ Synced(t.entries, v.rows, v.cursor, v.taken)
                    /\ v.answer # NoAnswer => Conveys(t, v.rows, v.taken, v.answer)
    BY <1>2 DEF Tells
<1>3. /\ v.cursor <= s.revision /\ Synced(s.entries, v.rows, v.cursor, v.taken)
      /\ v.answer # NoAnswer => Conveys(s, v.rows, v.taken, v.answer)
    BY DEF Tells
<1>4. v.cursor <= t.revision /\ Synced(t.entries, v.rows, v.cursor, v.taken) BY <1>1, <1>3, SyncedMoves
<1>5. ASSUME v.answer # NoAnswer PROVE Conveys(t, v.rows, v.taken, v.answer)
  <2>1. v.answer \in Answer BY <1>5 DEF ViewState
  <2>2. v.answer.revision \in Nat BY <2>1 DEF Answer
  <2>3. Conveys(s, v.rows, v.taken, v.answer) BY <1>3, <1>5
  <2>4. v.answer.revision <= s.revision /\ Synced(s.entries, v.answer.all, v.answer.revision, {})
      BY <2>3 DEF Conveys
  <2>5. Synced(t.entries, v.answer.all, v.answer.revision, {}) /\ v.answer.revision <= t.revision
      BY <1>1, <2>2, <2>4, SyncedMoves
  <2> QED BY <2>3, <2>5 DEF Conveys
<1> QED BY <1>4, <1>5

LEMMA PollTells ==
    ASSUME Sound(capture), view \in ViewState, Tells(capture, view), Poll
    PROVE  view' \in ViewState /\ Tells(capture', view')
<1>1. PICK s : s = capture /\ Sound(s) /\ s \in CaptureState BY DEF Sound
<1>2. PICK v \in ViewState : v = view /\ Tells(s, v) BY <1>1
<1>3. PICK t : t = capture' OBVIOUS
<1>4. PICK w : w = view' OBVIOUS
<1>5. t = Leased(s) /\ w = [v EXCEPT !.answer = PageAnswer(t, v.cursor)] BY <1>1, <1>2, <1>3, <1>4 DEF Poll
<1>6. Sound(t) /\ Moves(s, t) /\ t.entries = s.entries /\ t.revision = s.revision BY <1>1, <1>5, LeasedOK
<1>7. v.cursor \in Nat BY DEF ViewState
<1>8. PICK answer \in Answer : answer = PageAnswer(t, v.cursor) BY <1>6, <1>7, AnswerTyped
<1>9. w = [v EXCEPT !.answer = answer] BY <1>5, <1>8
<1>10. answer \in Answer \cup {NoAnswer} OBVIOUS
<1>11. /\ w \in ViewState /\ w.answer = answer /\ w.rows = v.rows /\ w.cursor = v.cursor /\ w.taken = v.taken
       /\ w.command = v.command /\ (w.misled <=> v.misled) /\ (w.restarted <=> v.restarted)
  <2> HIDE DEF Answer, Reply
  <2> QED BY <1>9, <1>10 DEF ViewState
<1>12. Tells(t, v) BY <1>1, <1>2, <1>6, ViewWaits
<1>13. Tells(t, w)
  <2> SUFFICES ASSUME ~w.misled /\ ~w.restarted
               PROVE  Conveys(t, w.rows, w.taken, answer)
      BY <1>11, <1>12 DEF Tells
  <2>1. Synced(t.entries, v.rows, v.cursor, v.taken) BY <1>11, <1>12 DEF Tells
  <2>2. /\ answer.revision = t.revision
        /\ MergedRows(v.rows, answer) = LeftOf(answer.all, StillTaken(v.taken, answer))
        /\ Synced(t.entries, answer.all, answer.revision, {})
      BY <1>6, <1>7, <1>8, <2>1, AnswerOK
  <2>3. answer.revision <= t.revision
    <3>1. t.revision \in Nat BY <1>6 DEF Sound, CaptureState
    <3> QED BY <2>2, <3>1
  <2> QED BY <1>11, <2>2, <2>3 DEF Conveys
<1> QED BY <1>3, <1>4, <1>11, <1>13

LEMMA ReceiveTells ==
    ASSUME Sound(capture), view \in ViewState, Tells(capture, view), Receive
    PROVE  /\ view' \in ViewState /\ Tells(capture', view')
           /\ ~view'.misled => view'.rows = LeftOf(view.answer.all, view'.taken)
<1>1. PICK s : s = capture /\ s = capture' /\ Sound(s) BY DEF Receive
<1>2. PICK v \in ViewState : v = view /\ Tells(s, v) BY <1>1
<1>3. PICK w : w = view' OBVIOUS
<1>4. v.answer # NoAnswer BY <1>2 DEF Receive
<1>5. PICK answer \in Answer : answer = v.answer BY <1>4 DEF ViewState
<1>6. PICK misled \in BOOLEAN : misled <=> v.misled \/ v.restarted OBVIOUS
<1>7. answer.revision \in Nat /\ answer.rows \in SUBSET Row /\ answer.all \in SUBSET Row BY DEF Answer
<1>8. v.rows \in SUBSET Row /\ v.taken \in SUBSET Nat /\ v.misled \in BOOLEAN /\ v.restarted \in BOOLEAN
    BY DEF ViewState
<1>9. PICK rows \in SUBSET Row : rows = MergedRows(v.rows, answer) BY <1>7, <1>8 DEF MergedRows
<1>10. PICK taken \in SUBSET Nat : taken = StillTaken(v.taken, answer) BY <1>8 DEF StillTaken
<1>11. PICK cursor \in Nat : cursor = answer.revision BY <1>7
<1>12. w = [v EXCEPT !.rows = rows, !.cursor = cursor, !.answer = NoAnswer, !.taken = taken,
                     !.restarted = FALSE, !.misled = v.misled \/ v.restarted]
    BY <1>2, <1>3, <1>5, <1>9, <1>10, <1>11 DEF Receive
<1>13. /\ w \in ViewState /\ w.rows = rows /\ w.cursor = cursor /\ w.answer = NoAnswer /\ w.taken = taken
       /\ w.command = v.command /\ (w.restarted <=> FALSE) /\ (w.misled <=> misled)
  <2>1. (v.misled \/ v.restarted) \in BOOLEAN OBVIOUS
  <2> HIDE DEF Answer, Reply, Row
  <2> QED BY <1>6, <1>12, <2>1 DEF ViewState
<1>14. ASSUME ~w.misled PROVE Conveys(s, v.rows, v.taken, answer) BY <1>2, <1>4, <1>5, <1>6, <1>13, <1>14 DEF Tells
<1>15. ~w.misled => w.rows = LeftOf(answer.all, taken) BY <1>9, <1>10, <1>13, <1>14 DEF Conveys
<1>16. Tells(s, w)
  <2> SUFFICES ASSUME ~w.misled PROVE w.cursor <= s.revision /\ Synced(s.entries, w.rows, w.cursor, w.taken)
      BY <1>2, <1>13 DEF Tells
  <2>1. answer.revision <= s.revision /\ Synced(s.entries, answer.all, answer.revision, {})
      BY <1>14 DEF Conveys
  <2>2. Synced(s.entries, LeftOf(answer.all, taken), answer.revision, taken)
    <3> SUFFICES ASSUME NEW i \in 1..Len(s.entries), s.entries[i].revision <= answer.revision
                 PROVE  /\ s.entries[i].seq \in taken \/ Summary(s.entries[i]) \in LeftOf(answer.all, taken)
                        /\ \A r \in LeftOf(answer.all, taken) :
                               r.seq = s.entries[i].seq => r = Summary(s.entries[i]) /\ r.seq \notin taken
        BY DEF Synced
    <3>1. /\ Summary(s.entries[i]) \in answer.all
          /\ \A r \in answer.all : r.seq = s.entries[i].seq => r = Summary(s.entries[i])
        BY <2>1 DEF Synced
    <3>2. Summary(s.entries[i]).seq = s.entries[i].seq BY DEF Summary
    <3> QED BY <3>1, <3>2 DEF LeftOf
  <2> QED BY <1>11, <1>13, <1>15, <2>1, <2>2
<1> QED BY <1>1, <1>2, <1>3, <1>5, <1>13, <1>15, <1>16

LEMMA StartOverTells ==
    ASSUME Sound(capture), view \in ViewState, Tells(capture, view), StartOver
    PROVE  view' \in ViewState /\ Tells(capture', view')
<1>1. PICK s : s = capture /\ s = capture' /\ Sound(s) BY DEF StartOver
<1>2. PICK v \in ViewState : v = view /\ Tells(s, v) BY <1>1
<1>3. PICK w : w = view' OBVIOUS
<1>4. PICK rows \in SUBSET Row : rows = {} OBVIOUS
<1>5. PICK cursor \in Nat : cursor = 0 OBVIOUS
<1>6. PICK taken \in SUBSET Nat : taken = {} OBVIOUS
<1>7. w = [v EXCEPT !.rows = rows, !.cursor = cursor, !.answer = NoAnswer, !.taken = taken, !.restarted = FALSE]
    BY <1>2, <1>3, <1>4, <1>5, <1>6 DEF StartOver
<1>8. w \in ViewState /\ w.cursor = cursor /\ w.answer = NoAnswer /\ w.command = v.command BY <1>7 DEF ViewState
<1>9. s.entries \in Seq(CapturedEntry) /\ s.revision \in Nat /\ Booked(s, 0) BY <1>1 DEF Sound, CaptureState
<1>10. ASSUME NEW i \in 1..Len(s.entries) PROVE ~(s.entries[i].revision <= 0)
  <2>1. i # 0 /\ Written(s.entries[i], s.revision) BY <1>9 DEF Booked
  <2> QED BY <1>9, <2>1 DEF Written
<1>11. Tells(s, w)
  <2>1. Synced(s.entries, w.rows, w.cursor, w.taken) BY <1>5, <1>8, <1>10 DEF Synced
  <2>2. w.cursor <= s.revision BY <1>5, <1>8, <1>9
  <2> QED BY <1>2, <1>8, <2>1, <2>2 DEF Tells
<1> QED BY <1>1, <1>3, <1>8, <1>11

LEMMA LoseTells ==
    ASSUME Sound(capture), view \in ViewState, Tells(capture, view), Lose \/ LoseCommand
    PROVE  view' \in ViewState /\ Tells(capture', view')
<1>1. PICK s : s = capture /\ s = capture' /\ Sound(s) BY DEF Lose, LoseCommand
<1>2. PICK v \in ViewState : v = view /\ Tells(s, v) BY <1>1
<1>3. PICK w : w = view' OBVIOUS
<1>4. PICK command \in Reply \cup {NoAnswer} : command \in {v.command, NoAnswer}
                                               /\ w = [v EXCEPT !.answer = NoAnswer, !.command = command]
  <2>1. v.command \in Reply \cup {NoAnswer} BY DEF ViewState
  <2>2. CASE Lose
    <3>1. w = [v EXCEPT !.answer = NoAnswer] BY <1>2, <1>3, <2>2 DEF Lose
    <3>2. w = [v EXCEPT !.answer = NoAnswer, !.command = v.command] BY <3>1 DEF ViewState
    <3> QED BY <2>1, <3>2
  <2>3. CASE LoseCommand BY <1>2, <1>3, <2>3 DEF LoseCommand
  <2> QED BY <2>2, <2>3
<1>5. /\ w \in ViewState /\ w.answer = NoAnswer /\ w.rows = v.rows /\ w.cursor = v.cursor /\ w.taken = v.taken
      /\ w.command = command /\ (w.misled <=> v.misled) /\ (w.restarted <=> v.restarted)
  <2> HIDE DEF Answer, Reply, Row
  <2> QED BY <1>4 DEF ViewState
<1>6. Tells(s, w) BY <1>2, <1>4, <1>5 DEF Tells
<1> QED BY <1>1, <1>3, <1>5, <1>6

(* A poll under way conveys as much after an answer to a check took rows off the page. *)
LEMMA ConveysStill ==
    ASSUME NEW s, NEW rows, NEW taken, NEW answer, Conveys(s, rows, taken, answer), NEW gone \in SUBSET rows,
           NEW retained, \A r \in rows : r \in gone <=> r.seq \notin retained
    PROVE  Conveys(s, rows \ gone, taken \cup {r.seq : r \in gone}, answer)
<1>1. PICK more : more = taken \cup {r.seq : r \in gone} OBVIOUS
<1>2. PICK left : left = rows \ gone OBVIOUS
<1>3. MergedRows(rows, answer) = LeftOf(answer.all, StillTaken(taken, answer)) BY DEF Conveys
<1>4. ASSUME NEW r \in MergedRows(left, answer) PROVE r \in LeftOf(answer.all, StillTaken(more, answer))
  <2>1. r \in answer.all /\ r.seq \notin StillTaken(taken, answer)
    <3>1. r \in MergedRows(rows, answer) BY <1>2 DEF MergedRows
    <3> QED BY <1>3, <3>1 DEF LeftOf
  <2>2. ASSUME r.seq \in StillTaken(more, answer) PROVE FALSE
    <3>1. r.seq \in answer.retained /\ (\A n \in answer.rows : n.seq # r.seq) /\ r.seq \in more BY <2>2 DEF StillTaken
    <3>2. r \in left BY <3>1 DEF MergedRows
    <3>3. r.seq \notin taken BY <2>1, <3>1 DEF StillTaken
    <3>4. PICK g \in gone : g.seq = r.seq BY <1>1, <3>1, <3>3
    <3> QED BY <1>2, <3>2, <3>4
  <2> QED BY <2>1, <2>2 DEF LeftOf
<1>5. ASSUME NEW r \in LeftOf(answer.all, StillTaken(more, answer)) PROVE r \in MergedRows(left, answer)
  <2>1. r \in answer.all /\ r.seq \notin StillTaken(more, answer) BY DEF LeftOf
  <2>2. r.seq \notin StillTaken(taken, answer) BY <1>1, <2>1 DEF StillTaken
  <2>3. r \in MergedRows(rows, answer) BY <1>3, <2>1, <2>2 DEF LeftOf
  <2>4. CASE r \in answer.rows BY <2>4 DEF MergedRows
  <2>5. CASE r \in rows /\ r.seq \in answer.retained /\ \A n \in answer.rows : n.seq # r.seq
    <3>1. r.seq \notin more BY <2>1, <2>5 DEF StillTaken
    <3>2. r \in left BY <1>1, <1>2, <2>5, <3>1
    <3> QED BY <2>5, <3>2 DEF MergedRows
  <2> QED BY <2>3, <2>4, <2>5 DEF MergedRows
<1>6. MergedRows(left, answer) = LeftOf(answer.all, StillTaken(more, answer)) BY <1>4, <1>5
<1> QED BY <1>1, <1>2, <1>6 DEF Conveys

LEMMA CommandTells ==
    ASSUME Sound(capture), view \in ViewState, Tells(capture, view), NEW polls \in BOOLEAN, ReceiveCommand(polls)
    PROVE  view' \in ViewState /\ Tells(capture', view')
<1>1. PICK s : s = capture /\ s = capture' /\ Sound(s) BY DEF ReceiveCommand
<1>2. PICK v \in ViewState : v = view /\ Tells(s, v) BY <1>1
<1>3. PICK w : w = view' OBVIOUS
<1>4. v.command # NoAnswer BY <1>2 DEF ReceiveCommand
<1>5. PICK reply \in Reply : reply = v.command BY <1>4 DEF ViewState
<1>6. Lists(s, reply) /\ reply.revision \in Nat BY <1>2, <1>4, <1>5 DEF Tells, Reply
<1>7. /\ v.rows \in SUBSET Row /\ v.taken \in SUBSET Nat /\ v.cursor \in Nat /\ v.answer \in Answer \cup {NoAnswer}
      /\ v.command \in Reply \cup {NoAnswer}
    BY DEF ViewState
<1>8. PICK gone \in SUBSET v.rows : gone = {r \in v.rows : r.seq \notin reply.retained} OBVIOUS
<1>9. PICK rows \in SUBSET Row : rows = v.rows \ gone BY <1>7
<1>10. PICK answer \in Answer \cup {NoAnswer} : answer = IF polls THEN v.answer ELSE NoAnswer BY <1>7
<1>11. PICK more \in SUBSET Nat : more = v.taken \cup {r.seq : r \in gone}
  <2>1. \A r \in gone : r \in Row BY <1>7
  <2>2. \A r \in gone : r.seq \in Nat BY <2>1 DEF Row
  <2> QED BY <1>7, <2>2
<1>12. PICK taken \in SUBSET Nat :
           taken = IF v.cursor <= reply.revision /\ answer = NoAnswer THEN v.taken ELSE more
    BY <1>7
<1>13. w = [v EXCEPT !.rows = rows, !.answer = answer, !.command = NoAnswer, !.taken = taken]
    BY <1>2, <1>3, <1>5, <1>8, <1>9, <1>10, <1>11, <1>12 DEF ReceiveCommand
<1>14. /\ w \in ViewState /\ w.rows = rows /\ w.cursor = v.cursor /\ w.answer = answer /\ w.taken = taken
       /\ w.command = NoAnswer /\ (w.misled <=> v.misled) /\ (w.restarted <=> v.restarted)
  <2> HIDE DEF Answer, Reply, Row
  <2> QED BY <1>13 DEF ViewState
<1>15. Tells(s, w)
  <2> SUFFICES ASSUME ~v.misled /\ ~v.restarted
               PROVE  /\ v.cursor <= s.revision
                      /\ Synced(s.entries, rows, v.cursor, taken)
                      /\ answer # NoAnswer => Conveys(s, rows, taken, answer)
      BY <1>14 DEF Tells
  <2>1. /\ v.cursor <= s.revision /\ Synced(s.entries, v.rows, v.cursor, v.taken)
        /\ v.answer # NoAnswer => Conveys(s, v.rows, v.taken, v.answer)
      BY <1>2 DEF Tells
  <2>2. ASSUME NEW i \in 1..Len(s.entries), s.entries[i].revision <= v.cursor
        PROVE  /\ s.entries[i].seq \in taken \/ Summary(s.entries[i]) \in rows
               /\ \A r \in rows : r.seq = s.entries[i].seq => r = Summary(s.entries[i]) /\ r.seq \notin taken
    <3>1. /\ s.entries[i].seq \in v.taken \/ Summary(s.entries[i]) \in v.rows
          /\ \A r \in v.rows : r.seq = s.entries[i].seq => r = Summary(s.entries[i]) /\ r.seq \notin v.taken
        BY <2>1, <2>2 DEF Synced
    <3>2. Summary(s.entries[i]).seq = s.entries[i].seq BY DEF Summary
    <3>3. CASE v.cursor <= reply.revision /\ answer = NoAnswer
      <4>1. s.entries[i] \in CapturedEntry BY <1>1 DEF Sound, CaptureState
      <4>2. s.entries[i].revision \in Nat BY <4>1 DEF CapturedEntry
      <4>3. s.entries[i].revision <= reply.revision BY <1>6, <1>7, <2>2, <3>3, <4>2
      <4>4. s.entries[i].seq \in reply.retained BY <1>6, <4>3 DEF Lists
      <4>5. taken = v.taken BY <1>12, <3>3
      <4>6. Summary(s.entries[i]) \notin gone BY <1>8, <3>2, <4>4
      <4> QED BY <1>9, <3>1, <4>5, <4>6
    <3>4. CASE ~(v.cursor <= reply.revision /\ answer = NoAnswer)
      <4>1. taken = more BY <1>12, <3>4
      <4>2. Summary(s.entries[i]) \in gone => s.entries[i].seq \in taken BY <1>11, <3>2, <4>1
      <4>3. ASSUME NEW r \in rows, r.seq \in taken PROVE r.seq \in v.taken
        <5>1. r \in v.rows /\ r.seq \in reply.retained BY <1>8, <1>9
        <5>2. \A g \in gone : g.seq \notin reply.retained BY <1>8
        <5> QED BY <1>11, <4>1, <4>3, <5>1, <5>2
      <4>4. s.entries[i].seq \in taken \/ Summary(s.entries[i]) \in rows BY <1>9, <1>11, <3>1, <4>1, <4>2
      <4> QED BY <1>9, <3>1, <4>3, <4>4
    <3> QED BY <3>3, <3>4
  <2>3. ASSUME answer # NoAnswer PROVE Conveys(s, rows, taken, answer)
    <3>1. answer = v.answer /\ taken = more BY <1>10, <1>12, <2>3
    <3>2. Conveys(s, v.rows, v.taken, answer) BY <2>1, <2>3, <3>1
    <3>3. \A r \in v.rows : r \in gone <=> r.seq \notin reply.retained BY <1>8
    <3> QED BY <1>9, <1>11, <3>1, <3>2, <3>3, ConveysStill
  <2> QED BY <2>1, <2>2, <2>3 DEF Synced
<1> QED BY <1>1, <1>3, <1>14, <1>15

(* The page sends a command: its answer lists all there is. *)
LEMMA AskedTells ==
    ASSUME Sound(capture), view \in ViewState, Tells(capture, view), PageCommand
    PROVE  Sound(capture') /\ view' \in ViewState /\ Tells(capture', view')
<1>1. PICK t : t = capture' OBVIOUS
<1>2. Sound(t) /\ Moves(capture, t) BY <1>1, CommandKeepsBooks, LeaseKeepsBooks DEF PageCommand
<1>3. PICK v \in ViewState : v = view /\ Tells(t, v) BY <1>2, ViewWaits
<1>4. PICK w : w = view' OBVIOUS
<1>5. PICK check \in BOOLEAN : Asked(check) BY DEF PageCommand
<1>6. t.entries \in Seq(CapturedEntry) /\ t.revision \in Nat BY <1>2 DEF Sound, CaptureState
<1>7. \A i \in DOMAIN t.entries : t.entries[i] \in CapturedEntry BY <1>6
<1>8. PICK retained \in SUBSET Nat : retained = {t.entries[i].seq : i \in DOMAIN t.entries}
    BY <1>7 DEF CapturedEntry
<1>9. PICK reply \in Reply : reply = [retained |-> retained, revision |-> t.revision, check |-> check]
    BY <1>6 DEF Reply
<1>10. w = [v EXCEPT !.command = reply] BY <1>1, <1>3, <1>4, <1>5, <1>8, <1>9 DEF Asked
<1>11. reply.retained = retained /\ reply.revision = t.revision BY <1>9
<1>12. /\ w \in ViewState /\ w.rows = v.rows /\ w.cursor = v.cursor /\ w.answer = v.answer /\ w.taken = v.taken
       /\ w.command = reply /\ (w.misled <=> v.misled) /\ (w.restarted <=> v.restarted)
  <2> HIDE DEF Answer, Reply, Row
  <2> QED BY <1>10 DEF ViewState
<1>13. Lists(t, reply)
  <2>1. \A i \in 1..Len(t.entries) : t.entries[i].seq \in retained BY <1>6, <1>8
  <2>2. reply.revision <= t.revision BY <1>6, <1>11
  <2> QED BY <1>11, <2>1, <2>2 DEF Lists
<1>14. Tells(t, w) BY <1>3, <1>12, <1>13 DEF Tells
<1> QED BY <1>1, <1>2, <1>4, <1>12, <1>14

LEMMA RestartTells ==
    ASSUME view \in ViewState, RestartCapture
    PROVE  view' \in ViewState /\ Tells(capture', view')
<1>1. PICK t : t = capture' /\ t = FreshCapture BY DEF RestartCapture
<1>2. PICK v \in ViewState : v = view OBVIOUS
<1>3. PICK w : w = view' OBVIOUS
<1>4. v.cursor \in Nat BY DEF ViewState
<1>5. (v.cursor > 0) \in BOOLEAN OBVIOUS
<1>6. w = [v EXCEPT !.answer = NoAnswer, !.command = NoAnswer, !.restarted = v.cursor > 0]
    BY <1>2, <1>3 DEF RestartCapture
<1>7. /\ w \in ViewState /\ w.answer = NoAnswer /\ w.command = NoAnswer /\ w.cursor = v.cursor
      /\ (w.restarted <=> v.cursor > 0)
    BY <1>5, <1>6 DEF ViewState
<1>8. t.entries = <<>> /\ t.revision = 0 BY <1>1, FreshIsSound
<1>9. Tells(t, w)
  <2> SUFFICES ASSUME ~w.restarted PROVE w.cursor <= t.revision /\ Synced(t.entries, w.rows, w.cursor, w.taken)
      BY <1>7 DEF Tells
  <2>1. w.cursor <= t.revision BY <1>4, <1>7, <1>8
  <2>2. 1..Len(t.entries) = {} BY <1>8, EmptyCapture
  <2> QED BY <2>1, <2>2 DEF Synced
<1> QED BY <1>1, <1>3, <1>7, <1>9

CaptureInv == Sound(capture) /\ view \in ViewState /\ Tells(capture, view)

LEMMA CaptureKeepsInv ==
    ASSUME CaptureInv, [CaptureNext]_captureVars
    PROVE  Sound(capture') /\ view' \in ViewState /\ Tells(capture', view')
<1> USE DEF CaptureInv
<1>1. ASSUME Hook \/ Command \/ Expire, UNCHANGED view
      PROVE  Sound(capture') /\ view' \in ViewState /\ Tells(capture', view')
  <2>1. Sound(capture') /\ Moves(capture, capture') BY <1>1, HookKeepsBooks, CommandKeepsBooks
  <2>2. PICK v \in ViewState : v = view /\ v = view' BY <1>1
  <2>3. Tells(capture', v) BY <2>1, <2>2, ViewWaits
  <2> QED BY <2>1, <2>2, <2>3
<1>2. CASE RestartCapture BY <1>2, FreshIsSound, RestartTells DEF RestartCapture
<1>3. CASE Poll
  <2>1. Sound(capture') BY <1>3, LeaseKeepsBooks DEF Poll
  <2> QED BY <1>3, <2>1, PollTells
<1>4. CASE Receive
  <2>1. Sound(capture') BY <1>4 DEF Receive
  <2> QED BY <1>4, <2>1, ReceiveTells
<1>5. CASE StartOver
  <2>1. Sound(capture') BY <1>5 DEF StartOver
  <2> QED BY <1>5, <2>1, StartOverTells
<1>6. CASE Lose \/ LoseCommand
  <2>1. Sound(capture') BY <1>6 DEF Lose, LoseCommand
  <2> QED BY <1>6, <2>1, LoseTells
<1>7. CASE PageCommand BY <1>7, AskedTells
<1>8. ASSUME NEW polls \in BOOLEAN, ReceiveCommand(polls)
      PROVE  Sound(capture') /\ view' \in ViewState /\ Tells(capture', view')
  <2>1. Sound(capture') BY <1>8 DEF ReceiveCommand
  <2> QED BY <1>8, <2>1, CommandTells
<1>9. CASE UNCHANGED captureVars BY <1>9 DEF captureVars
<1> QED BY <1>1, <1>2, <1>3, <1>4, <1>5, <1>6, <1>7, <1>8, <1>9 DEF CaptureNext

LEMMA CaptureInvAlways == CaptureSpec => []CaptureInv
<1>1. CaptureInit => CaptureInv BY FreshIsSound, ViewStarts DEF CaptureInit, CaptureInv
<1>2. CaptureInv /\ [CaptureNext]_captureVars => CaptureInv'
  <2> SUFFICES ASSUME CaptureInv, [CaptureNext]_captureVars PROVE CaptureInv' OBVIOUS
  <2>1. Sound(capture') /\ view' \in ViewState /\ Tells(capture', view') BY CaptureKeepsInv
  <2> QED BY <2>1 DEF CaptureInv
<1> QED BY <1>1, <1>2, PTL DEF CaptureSpec

(* The page shows what was retained when its last answer was made, although an answer carries only
   what changed since the cursor, answers get lost and processes restart, and but for what an answer
   to a command that was out of step with the polls took off it. *)
THEOREM PageShows == CaptureSpec => PageShowsWhatIsRetained
<1>1. CaptureInv /\ [CaptureNext]_captureVars =>
        [Receive /\ ~view'.misled =>
             view'.rows = {r \in view.answer.all : r.seq \notin view'.taken}]_captureVars
    BY ReceiveTells DEF CaptureInv, LeftOf
<1> QED BY <1>1, CaptureInvAlways, PTL DEF CaptureSpec, PageShowsWhatIsRetained
=============================================================================
