------------------------ MODULE NetChannelMessageProofs ------------------------
(***************************************************************************)
(* The messages stay whole and the property updates stay in order, for     *)
(* every value of the constants: MInv of NetChannelMessages holds in every *)
(* state, beside IInv of NetChannelInvariant, and ClientAgrees and         *)
(* UpdatesInOrder follow from it.                                          *)
(***************************************************************************)
EXTENDS NetChannelMessages, NetChannelProofs

-----------------------------------------------------------------------------
(* Units                                                                   *)

\* The types of a unit's fields.
LEMMA UnitFields ==
  ASSUME NEW u \in Unit
  PROVE  /\ u.message \in Nat /\ u.part \in Nat /\ u.of \in Nat /\ u.update \in BOOLEAN
BY DEF Unit

\* The next part differs in its number only.
LEMMA NextPartFields ==
  ASSUME NEW u \in Unit
  PROVE  /\ NextPart(u) \in Unit /\ NextPart(u).part = u.part + 1 /\ NextPart(u).of = u.of
         /\ NextPart(u).message = u.message /\ NextPart(u).update = u.update
BY DEF NextPart, Unit

\* A part that continues another is of the same message, one further.
LEMMA ContinuesFields ==
  ASSUME NEW a, NEW b, Continues(a, b)
  PROVE  /\ a \in Unit /\ b \in Unit /\ b.part = a.part + 1 /\ b.of = a.of
         /\ b.message = a.message /\ b.update = a.update
         /\ a.part \in Nat /\ a.of \in Nat /\ b.part \in Nat
         /\ PartOf(b) => b.part # 1 \/ a.part = 0
         /\ PartOf(b) => a.part # a.of
<1>1. a \in Unit /\ b = NextPart(a)
  BY DEF Continues
<1>2. /\ a \in Unit /\ b \in Unit /\ b.part = a.part + 1 /\ b.of = a.of
      /\ b.message = a.message /\ b.update = a.update
      /\ a.part \in Nat /\ a.of \in Nat /\ b.part \in Nat
  BY <1>1, NextPartFields, UnitFields
<1> QED BY <1>2 DEF PartOf

\* The mark of a close is not taken for data.
LEMMA CloseIsNoUnit == CloseMark \notin Unit
<1>1. DOMAIN CloseMark = {"close"}
  BY DEF CloseMark
<1>2. \A u \in Unit : "part" \in DOMAIN u
  BY DEF Unit
<1> QED BY <1>1, <1>2

\* What a stream is made of.
LEMMA StreamElements ==
  ASSUME NEW x \in Stream
  PROVE  /\ Len(x) \in Nat /\ DOMAIN x = 1 .. Len(x)
         /\ \A k \in DOMAIN x : x[k] \in Unit \/ x[k] = CloseMark
BY DEF Stream

\* The elements of two sequences, one after the other.
LEMMA JoinElements ==
  ASSUME NEW S, NEW a \in Seq(S), NEW b \in Seq(S)
  PROVE  LET x == a \o b
         IN  /\ x \in Seq(S) /\ Len(a) \in Nat /\ Len(b) \in Nat /\ Len(x) = Len(a) + Len(b)
             /\ DOMAIN a = 1 .. Len(a) /\ DOMAIN b = 1 .. Len(b) /\ DOMAIN x = 1 .. Len(a) + Len(b)
             /\ \A k \in 1 .. Len(a) : x[k] = a[k]
             /\ \A k \in 1 .. Len(b) : x[Len(a) + k] = b[k]
             /\ ToSet(x) = ToSet(a) \cup ToSet(b)
<1> DEFINE x == a \o b
<1>1. /\ x \in Seq(S) /\ Len(a) \in Nat /\ Len(b) \in Nat /\ Len(x) = Len(a) + Len(b)
      /\ DOMAIN a = 1 .. Len(a) /\ DOMAIN b = 1 .. Len(b) /\ DOMAIN x = 1 .. Len(a) + Len(b)
  BY ConcatProperties
<1>2. \A k \in 1 .. Len(x) : x[k] = IF k <= Len(a) THEN a[k] ELSE b[k - Len(a)]
  BY ConcatProperties
<1> HIDE DEF x
<1>3. /\ \A k \in 1 .. Len(a) : x[k] = a[k]
      /\ \A k \in 1 .. Len(b) : x[Len(a) + k] = b[k]
  BY <1>1, <1>2
<1>4. ToSet(x) = ToSet(a) \cup ToSet(b)
  <2>1. ASSUME NEW k \in 1 .. Len(a) + Len(b) PROVE x[k] \in ToSet(a) \cup ToSet(b)
    <3>1. k \in 1 .. Len(a) \/ (k - Len(a) \in 1 .. Len(b) /\ k = Len(a) + (k - Len(a)))
      BY <1>1
    <3> QED BY <1>1, <1>3, <3>1 DEF ToSet
  <2>2. \A k \in 1 .. Len(a) : a[k] \in ToSet(x)
    BY <1>1, <1>3 DEF ToSet
  <2>3. \A k \in 1 .. Len(b) : b[k] \in ToSet(x)
    <3> TAKE k \in 1 .. Len(b)
    <3>1. Len(a) + k \in 1 .. Len(a) + Len(b)
      BY <1>1
    <3> QED BY <1>1, <1>3, <3>1 DEF ToSet
  <2> QED BY <1>1, <2>1, <2>2, <2>3 DEF ToSet
<1> QED BY <1>1, <1>3, <1>4 DEF x

\* Two streams, one after the other, element by element.
LEMMA StreamJoin ==
  ASSUME NEW a \in Stream, NEW b \in Stream
  PROVE  LET x == a \o b
         IN  /\ x \in Stream /\ Len(a) \in Nat /\ Len(b) \in Nat /\ Len(x) = Len(a) + Len(b)
             /\ DOMAIN a = 1 .. Len(a) /\ DOMAIN b = 1 .. Len(b) /\ DOMAIN x = 1 .. Len(a) + Len(b)
             /\ \A k \in 1 .. Len(a) : x[k] = a[k]
             /\ \A k \in 1 .. Len(b) : x[Len(a) + k] = b[k]
             /\ ToSet(x) = ToSet(a) \cup ToSet(b)
<1> DEFINE T == Unit \cup {CloseMark}
<1>1. a \in Seq(T) /\ b \in Seq(T) /\ Stream = Seq(T)
  BY DEF Stream
<1> HIDE DEF T
<1> QED BY <1>1, JoinElements

-----------------------------------------------------------------------------
(* Whole messages                                                          *)

\* Whole messages after whole messages are whole.
LEMMA WholeJoins ==
  ASSUME NEW a \in Stream, NEW b \in Stream, Whole(a), Whole(b)
  PROVE  Whole(a \o b)
<1> DEFINE x == a \o b
           m == Len(a)
           n == Len(b)
<1>1. /\ m \in Nat /\ n \in Nat /\ Len(x) = m + n
      /\ DOMAIN a = 1 .. m /\ DOMAIN b = 1 .. n /\ DOMAIN x = 1 .. m + n
      /\ \A k \in 1 .. m : x[k] = a[k]
      /\ \A k \in 1 .. n : x[m + k] = b[k]
  BY StreamJoin
<1>w. /\ \A k \in 1 .. m : a[k] \in Unit =>
           /\ PartOf(a[k])
           /\ a[k].part # 1 => k # 1 /\ Continues(a[k - 1], a[k])
           /\ a[k].part # a[k].of => k # m /\ Continues(a[k], a[k + 1])
      /\ \A k \in 1 .. n : b[k] \in Unit =>
           /\ PartOf(b[k])
           /\ b[k].part # 1 => k # 1 /\ Continues(b[k - 1], b[k])
           /\ b[k].part # b[k].of => k # n /\ Continues(b[k], b[k + 1])
  BY <1>1 DEF Whole
<1> HIDE DEF x, m, n
<1> SUFFICES ASSUME NEW k \in 1 .. m + n, x[k] \in Unit
             PROVE  /\ PartOf(x[k])
                    /\ x[k].part # 1 => k # 1 /\ Continues(x[k - 1], x[k])
                    /\ x[k].part # x[k].of => k # m + n /\ Continues(x[k], x[k + 1])
  BY <1>1 DEF Whole, x
<1>0. m \in Nat /\ n \in Nat /\ k \in Nat /\ k >= 1 /\ k <= m + n
  BY <1>1
<1>2. CASE k <= m
  <2>1. k \in 1 .. m /\ x[k] = a[k]
    BY <1>0, <1>1, <1>2
  <2>2. k # 1 => x[k - 1] = a[k - 1]
    <3>1. k # 1 => k - 1 \in 1 .. m
      BY <1>0, <1>2
    <3> QED BY <1>1, <3>1
  <2>3. k # m => x[k + 1] = a[k + 1] /\ k # m + n
    <3>1. k # m => k + 1 \in 1 .. m /\ k # m + n
      BY <1>0, <1>2
    <3> QED BY <1>1, <3>1
  <2> QED BY <1>w, <2>1, <2>2, <2>3
<1>3. CASE k > m
  <2> DEFINE i == k - m
  <2>0. i \in 1 .. n /\ k = m + i /\ (i = 1 <=> k = m + 1) /\ (i = n <=> k = m + n)
        /\ (i # 1 => i - 1 \in 1 .. n /\ k - 1 = m + (i - 1) /\ k # 1)
        /\ (i # n => i + 1 \in 1 .. n /\ k + 1 = m + (i + 1))
    BY <1>0, <1>3
  <2> HIDE DEF i
  <2>1. x[k] = b[i]
    BY <1>1, <2>0
  <2>2. i # 1 => x[k - 1] = b[i - 1] /\ k # 1
    BY <1>1, <2>0
  <2>3. i # n => x[k + 1] = b[i + 1] /\ k # m + n
    BY <1>1, <2>0
  <2> QED BY <1>w, <2>0, <2>1, <2>2, <2>3
<1> QED BY <1>0, <1>2, <1>3

\* What is left after whole messages is whole.
LEMMA WholeRest ==
  ASSUME NEW a \in Stream, NEW b \in Stream, Whole(a), Whole(a \o b)
  PROVE  Whole(b)
<1> DEFINE x == a \o b
           m == Len(a)
           n == Len(b)
<1>1. /\ m \in Nat /\ n \in Nat /\ Len(x) = m + n
      /\ DOMAIN a = 1 .. m /\ DOMAIN b = 1 .. n /\ DOMAIN x = 1 .. m + n
      /\ \A k \in 1 .. m : x[k] = a[k]
      /\ \A k \in 1 .. n : x[m + k] = b[k]
  BY StreamJoin
<1>w. /\ \A k \in 1 .. m : a[k] \in Unit /\ a[k].part # a[k].of => k # m
      /\ \A k \in 1 .. m + n : x[k] \in Unit =>
           /\ PartOf(x[k])
           /\ x[k].part # 1 => k # 1 /\ Continues(x[k - 1], x[k])
           /\ x[k].part # x[k].of => k # m + n /\ Continues(x[k], x[k + 1])
  BY <1>1 DEF Whole
<1> HIDE DEF x, m, n
<1> SUFFICES ASSUME NEW k \in 1 .. n, b[k] \in Unit
             PROVE  /\ PartOf(b[k])
                    /\ b[k].part # 1 => k # 1 /\ Continues(b[k - 1], b[k])
                    /\ b[k].part # b[k].of => k # n /\ Continues(b[k], b[k + 1])
  BY <1>1 DEF Whole, n
<1> DEFINE i == m + k
<1>2. /\ i \in 1 .. m + n /\ i = m + k /\ (k = n <=> i = m + n)
      /\ (k # 1 => k - 1 \in 1 .. n /\ i - 1 = m + (k - 1))
      /\ (k # n => k + 1 \in 1 .. n /\ i + 1 = m + (k + 1))
      /\ (k = 1 /\ i # 1 => i - 1 = m /\ m \in 1 .. m)
  BY <1>1
<1> HIDE DEF i
<1>3. /\ x[i] = b[k]
      /\ k # 1 => x[i - 1] = b[k - 1]
      /\ k # n => x[i + 1] = b[k + 1]
      /\ k = 1 /\ i # 1 => x[i - 1] = a[m]
  BY <1>1, <1>2
<1>7. /\ PartOf(x[i])
      /\ x[i].part # 1 => i # 1 /\ Continues(x[i - 1], x[i])
      /\ x[i].part # x[i].of => i # m + n /\ Continues(x[i], x[i + 1])
  BY <1>w, <1>2, <1>3
<1>8. ASSUME k = 1, b[k].part # 1 PROVE FALSE
  <2>1. i # 1 /\ Continues(a[m], b[k]) /\ m \in 1 .. m
    BY <1>2, <1>3, <1>7, <1>8
  <2>2. a[m].part # a[m].of /\ a[m] \in Unit
    BY <1>3, <1>7, <2>1, ContinuesFields
  <2> QED BY <1>w, <2>1, <2>2
<1> QED BY <1>2, <1>3, <1>7, <1>8

\* A close that is added breaks no message.
LEMMA CloseIsWhole ==
  ASSUME NEW data \in Seq(Unit), NEW bClose
  PROVE  Whole(Carried(data, bClose)) <=> Whole(data)
<1> DEFINE x == Carried(data, bClose)
           n == Len(data)
           l == Len(x)
<1>1. /\ n \in Nat /\ DOMAIN data = 1 .. n
      /\ \A k \in 1 .. n : x[k] = data[k] /\ data[k] \in Unit
      /\ DOMAIN x = 1 .. l /\ l = n + (IF bClose THEN 1 ELSE 0)
      /\ l # n => x[n + 1] = CloseMark
  BY DEF Carried
<1> HIDE DEF x, n, l
<1>2. /\ 1 .. n \subseteq 1 .. l
      /\ \A k \in 1 .. l : k \in 1 .. n \/ (k = n + 1 /\ l # n)
  BY <1>1
<1>3. \A k \in 1 .. l : x[k] \in Unit <=> k \in 1 .. n
  BY <1>1, <1>2, CloseIsNoUnit
<1>4. ASSUME NEW k \in 1 .. n
      PROVE  /\ k # 1 => x[k - 1] = data[k - 1]
             /\ x[k] = data[k] /\ data[k] \in Unit
             /\ k # l /\ Continues(x[k], x[k + 1]) <=>
                  k # n /\ Continues(data[k], data[k + 1])
  <2>0. /\ k # 1 => k - 1 \in 1 .. n
        /\ k # n => k + 1 \in 1 .. n /\ k # l
        /\ k = n /\ k # l => l # n
    BY <1>1
  <2>1. (k # 1 => x[k - 1] = data[k - 1]) /\ x[k] = data[k] /\ data[k] \in Unit
    BY <1>1, <2>0
  <2>2. k # n => x[k + 1] = data[k + 1]
    BY <1>1, <2>0
  <2>3. k = n /\ k # l => x[k + 1] = CloseMark
    BY <1>1, <2>0
  <2>4. ~Continues(x[k], CloseMark)
    BY ContinuesFields, CloseIsNoUnit
  <2> QED BY <2>0, <2>1, <2>2, <2>3, <2>4
<1>5. Whole(x) <=> \A k \in 1 .. l : x[k] \in Unit =>
           /\ PartOf(x[k])
           /\ x[k].part # 1 => k # 1 /\ Continues(x[k - 1], x[k])
           /\ x[k].part # x[k].of => k # l /\ Continues(x[k], x[k + 1])
  BY <1>1 DEF Whole, l
<1>6. Whole(data) <=> \A k \in 1 .. n : data[k] \in Unit =>
           /\ PartOf(data[k])
           /\ data[k].part # 1 => k # 1 /\ Continues(data[k - 1], data[k])
           /\ data[k].part # data[k].of => k # n /\ Continues(data[k], data[k + 1])
  BY <1>1 DEF Whole, n
<1>7. Whole(x) <=> Whole(data)
  BY <1>2, <1>3, <1>4, <1>5, <1>6
<1> QED BY <1>7 DEF x

-----------------------------------------------------------------------------
(* The parts of a message                                                  *)

\* The units of a message.
MessageOf(x, n, size, update) ==
  /\ x \in Seq(Unit) /\ DOMAIN x = 1 .. size /\ Len(x) = size
  /\ \A k \in 1 .. size : /\ x[k] \in Unit /\ PartOf(x[k])
                          /\ x[k].part = k /\ x[k].of = size
                          /\ x[k].message = n /\ x[k].update = update
  /\ \A k \in 1 .. size - 1 : Continues(x[k], x[k + 1])

\* What Units makes is a message.
LEMMA UnitsFields ==
  ASSUME NEW n \in Nat, NEW size \in Nat, NEW update \in BOOLEAN
  PROVE  MessageOf(Units(n, size, update), n, size, update)
<1> DEFINE x == Units(n, size, update)
<1>1. /\ DOMAIN x = 1 .. size
      /\ \A k \in 1 .. size : x[k] = [message |-> n, part |-> k, of |-> size, update |-> update]
  BY DEF Units
<1>2. x \in Seq(Unit) /\ Len(x) = size
  BY UnitsType
<1> HIDE DEF x
<1>3. ASSUME NEW k \in 1 .. size
      PROVE  /\ x[k] \in Unit /\ PartOf(x[k])
             /\ x[k].part = k /\ x[k].of = size
             /\ x[k].message = n /\ x[k].update = update
  <2>1. x[k] = [message |-> n, part |-> k, of |-> size, update |-> update]
    BY <1>1
  <2>2. x[k].part = k /\ x[k].of = size /\ x[k].message = n /\ x[k].update = update
    BY <2>1
  <2>3. x[k] \in Unit
    BY <2>1 DEF Unit
  <2> QED BY <2>2, <2>3 DEF PartOf
<1>4. ASSUME NEW k \in 1 .. size - 1 PROVE Continues(x[k], x[k + 1])
  <2>1. k \in 1 .. size /\ k + 1 \in 1 .. size
    OBVIOUS
  <2>2. x[k] = [message |-> n, part |-> k, of |-> size, update |-> update]
        /\ x[k + 1] = [message |-> n, part |-> k + 1, of |-> size, update |-> update]
    BY <1>1, <2>1
  <2>3. x[k + 1] = NextPart(x[k])
    BY <2>2 DEF NextPart
  <2> QED BY <1>3, <2>1, <2>3 DEF Continues
<1> QED BY <1>1, <1>2, <1>3, <1>4 DEF MessageOf, x

\* A message is whole.
LEMMA MessageIsWhole ==
  ASSUME NEW x, NEW n \in Nat, NEW size \in Nat, NEW update, MessageOf(x, n, size, update)
  PROVE  Whole(x)
<1> SUFFICES ASSUME NEW k \in 1 .. size
             PROVE  /\ PartOf(x[k])
                    /\ x[k].part # 1 => k # 1 /\ Continues(x[k - 1], x[k])
                    /\ x[k].part # x[k].of => k # Len(x) /\ Continues(x[k], x[k + 1])
  BY DEF MessageOf, Whole
<1>1. k # 1 => k - 1 \in 1 .. size - 1 /\ (k - 1) + 1 = k
  OBVIOUS
<1>2. k # size => k \in 1 .. size - 1
  OBVIOUS
<1>3. x[k].part = k /\ x[k].of = size /\ PartOf(x[k]) /\ Len(x) = size
  BY DEF MessageOf
<1>4. k # 1 => Continues(x[k - 1], x[(k - 1) + 1])
  BY <1>1 DEF MessageOf
<1>5. k # size => Continues(x[k], x[k + 1])
  BY <1>2 DEF MessageOf
<1> QED BY <1>1, <1>3, <1>4, <1>5

\* A piece of a sequence, element by element.
LEMMA SliceElements ==
  ASSUME NEW S, NEW x \in Seq(S), NEW a \in Nat, NEW b \in Nat, a <= b, b <= Len(x)
  PROVE  LET y == SubSeq(x, a + 1, b)
         IN  /\ y \in Seq(S) /\ Len(y) = b - a /\ DOMAIN y = 1 .. b - a
             /\ \A k \in 1 .. b - a : y[k] = x[a + k]
             /\ ToSet(y) \subseteq ToSet(x)
<1> DEFINE y == SubSeq(x, a + 1, b)
           n == Len(x)
<1>1. /\ y \in Seq(S) /\ Len(y) = b - a /\ DOMAIN y = 1 .. b - a
      /\ \A k \in 1 .. b - a : y[k] = x[a + k]
      /\ n \in Nat /\ DOMAIN x = 1 .. n
  BY SubSeqProperties
<1> HIDE DEF y, n
<1>2. ASSUME NEW k \in 1 .. b - a PROVE y[k] \in ToSet(x)
  <2>1. a + k \in 1 .. n
    BY <1>1 DEF n
  <2> QED BY <1>1, <2>1 DEF ToSet
<1>3. ToSet(y) \subseteq ToSet(x)
  BY <1>1, <1>2 DEF ToSet
<1> QED BY <1>1, <1>3 DEF y

\* A piece of a message is some of its parts; the first piece begins it, the last ends it.
LEMMA MessageSlice ==
  ASSUME NEW x, NEW n \in Nat, NEW size \in Nat, NEW update, MessageOf(x, n, size, update),
         NEW a \in Nat, NEW b \in Nat, a < b, b <= size
  PROVE  LET y == SubSeq(x, a + 1, b)
         IN  /\ y \in Seq(Unit) /\ Parts(y) /\ y[1] = x[a + 1] /\ Last(y) = x[b]
             /\ a = 0 => Begins(y)
             /\ b = size => Ends(y)
<1> DEFINE y == SubSeq(x, a + 1, b)
           l == Len(y)
<1>1. /\ x \in Seq(Unit) /\ Len(x) = size
      /\ \A k \in 1 .. size : PartOf(x[k]) /\ x[k].part = k /\ x[k].of = size
      /\ \A k \in 1 .. size - 1 : Continues(x[k], x[k + 1])
  BY DEF MessageOf
<1>2. /\ y \in Seq(Unit) /\ l = b - a /\ DOMAIN y = 1 .. b - a
      /\ \A k \in 1 .. b - a : y[k] = x[a + k]
  BY <1>1, SliceElements
<1>3. y # << >>
  <2>1. Len(<< >>) = 0 /\ l # 0
    BY <1>2
  <2> HIDE DEF y
  <2> QED BY <2>1
<1>4. Last(y) = y[l]
  BY DEF Last
<1> HIDE DEF y, l
<1>5. ASSUME NEW k \in 1 .. b - a
      PROVE  PartOf(y[k]) /\ (k # 1 => Continues(y[k - 1], y[k]))
  <2>1. a + k \in 1 .. size /\ (k # 1 => /\ k - 1 \in 1 .. b - a
                                         /\ a + (k - 1) \in 1 .. size - 1
                                         /\ (a + (k - 1)) + 1 = a + k)
    OBVIOUS
  <2>2. y[k] = x[a + k] /\ (k # 1 => y[k - 1] = x[a + (k - 1)])
    BY <1>2, <2>1
  <2>3. k # 1 => Continues(x[a + (k - 1)], x[(a + (k - 1)) + 1])
    BY <1>1, <2>1
  <2> QED BY <1>1, <2>1, <2>2, <2>3
<1>6. Parts(y)
  BY <1>2, <1>3, <1>5 DEF Parts
<1>7. 1 \in 1 .. b - a /\ l \in 1 .. b - a /\ a + l = b /\ b \in 1 .. size /\ a + 1 \in 1 .. size
  BY <1>2
<1>8. y[1] = x[a + 1] /\ y[l] = x[b]
  BY <1>2, <1>7
<1>9. a = 0 => y[1].part = 1
  <2>1. x[a + 1].part = a + 1
    BY <1>1, <1>7
  <2> QED BY <1>8, <2>1
<1>10. b = size => y[l].part = y[l].of
  BY <1>1, <1>7, <1>8
<1> QED BY <1>2, <1>4, <1>6, <1>8, <1>9, <1>10 DEF Begins, Ends, y, l

\* Parts that continue other parts make parts, which is how the client puts them together.
LEMMA MorePartsFollow ==
  ASSUME NEW x \in Seq(Unit), NEW y \in Seq(Unit), Parts(x), Parts(y), Continues(Last(x), y[1])
  PROVE  LET z == x \o y
         IN  /\ z \in Seq(Unit) /\ Parts(z) /\ Last(z) = Last(y)
             /\ Begins(x) => Begins(z)
             /\ Ends(y) => Ends(z)
<1> DEFINE z == x \o y
           m == Len(x)
           n == Len(y)
<1>1. /\ z \in Seq(Unit) /\ m \in Nat /\ n \in Nat /\ Len(z) = m + n
      /\ DOMAIN x = 1 .. m /\ DOMAIN y = 1 .. n /\ DOMAIN z = 1 .. m + n
      /\ \A k \in 1 .. m : z[k] = x[k]
      /\ \A k \in 1 .. n : z[m + k] = y[k]
  BY JoinElements
<1>2. m # 0 /\ n # 0 /\ Last(x) = x[m] /\ Last(y) = y[n] /\ Last(z) = z[m + n]
  <2>1. x # << >> /\ y # << >>
    BY DEF Parts
  <2> QED BY <1>1, <2>1 DEF Last
<1>3. /\ \A k \in 1 .. m : PartOf(x[k]) /\ (k # 1 => Continues(x[k - 1], x[k]))
      /\ \A k \in 1 .. n : PartOf(y[k]) /\ (k # 1 => Continues(y[k - 1], y[k]))
      /\ Continues(x[m], y[1])
  BY <1>1, <1>2 DEF Parts
<1>e. (Ends(y) <=> y[n].part = y[n].of) /\ (Ends(z) <=> z[m + n].part = z[m + n].of)
  BY <1>1 DEF Ends
<1> HIDE DEF z, m, n
<1>4. ASSUME NEW k \in 1 .. m + n
      PROVE  PartOf(z[k]) /\ (k # 1 => Continues(z[k - 1], z[k]))
  <2>1. CASE k <= m
    <3>1. k \in 1 .. m /\ (k # 1 => k - 1 \in 1 .. m)
      BY <1>1, <2>1
    <3> QED BY <1>1, <1>3, <3>1
  <2>2. CASE k = m + 1
    <3>1. 1 \in 1 .. n /\ m \in 1 .. m /\ k - 1 = m
      BY <1>1, <1>2, <2>2
    <3>2. z[k] = y[1] /\ z[k - 1] = x[m]
      BY <1>1, <2>2, <3>1
    <3> QED BY <1>3, <3>1, <3>2
  <2>3. CASE k > m + 1
    <3> DEFINE i == k - m
    <3>1. i \in 1 .. n /\ i # 1 /\ i - 1 \in 1 .. n /\ k = m + i /\ k - 1 = m + (i - 1)
      BY <1>1, <2>3
    <3> HIDE DEF i
    <3>2. z[k] = y[i] /\ z[k - 1] = y[i - 1]
      BY <1>1, <3>1
    <3> QED BY <1>3, <3>1, <3>2
  <2> QED BY <1>1, <2>1, <2>2, <2>3
<1>5. z # << >>
  BY <1>1, <1>2
<1>6. Parts(z)
  BY <1>1, <1>4, <1>5 DEF Parts
<1>7. n \in 1 .. n /\ 1 \in 1 .. m
  BY <1>1, <1>2
<1>8. z[m + n] = y[n] /\ z[1] = x[1]
  BY <1>1, <1>7
<1> QED BY <1>1, <1>2, <1>e, <1>6, <1>8 DEF Begins, z

\* Parts from the first to the last are a whole message.
LEMMA AllPartsAreWhole ==
  ASSUME NEW x \in Seq(Unit), Begins(x), Ends(x)
  PROVE  Whole(x)
<1> DEFINE n == Len(x)
<1>1. n \in Nat /\ DOMAIN x = 1 .. n
  OBVIOUS
<1>2. /\ \A k \in 1 .. n : PartOf(x[k]) /\ (k # 1 => Continues(x[k - 1], x[k]))
      /\ x[1].part = 1 /\ x[n].part = x[n].of
  BY <1>1 DEF Begins, Parts, Ends
<1> SUFFICES ASSUME NEW k \in 1 .. n
             PROVE  /\ PartOf(x[k])
                    /\ x[k].part # 1 => k # 1 /\ Continues(x[k - 1], x[k])
                    /\ x[k].part # x[k].of => k # n /\ Continues(x[k], x[k + 1])
  BY <1>1 DEF Whole
<1> HIDE DEF n
<1>3. k # n => k + 1 \in 1 .. n /\ k + 1 # 1 /\ (k + 1) - 1 = k
  BY <1>1
<1>4. k # n => Continues(x[(k + 1) - 1], x[k + 1])
  BY <1>2, <1>3
<1> QED BY <1>2, <1>3, <1>4

\* The parts of a message are of one message.
LEMMA PartsAlike ==
  ASSUME NEW x \in Seq(Unit), Parts(x)
  PROVE  \A k \in DOMAIN x : /\ x[k] \in Unit
                             /\ x[k].message = x[1].message /\ x[k].update = x[1].update
<1> DEFINE n == Len(x)
           G == {k \in 0 .. n : k # 0 => /\ x[k].message = x[1].message
                                         /\ x[k].update = x[1].update}
<1>1. n \in Nat /\ DOMAIN x = 1 .. n /\ \A k \in 1 .. n : x[k] \in Unit
  OBVIOUS
<1>2. \A k \in 1 .. n : k # 1 => Continues(x[k - 1], x[k])
  BY <1>1 DEF Parts
<1> HIDE DEF n
<1>3. 0 \in G
  BY <1>1
<1>4. ASSUME NEW k \in 1 .. n, k - 1 \in G PROVE k \in G
  <2>1. CASE k = 1
    BY <1>1, <2>1
  <2>2. CASE k # 1
    <3>1. x[k].message = x[k - 1].message /\ x[k].update = x[k - 1].update
      BY <1>2, <2>2, ContinuesFields
    <3>2. k - 1 # 0 /\ k \in 0 .. n
      BY <1>1, <2>2
    <3> QED BY <1>4, <3>1, <3>2
  <2> QED BY <2>1, <2>2
<1> HIDE DEF G
<1>5. \A k \in 0 .. n : k \in G
  BY <1>1, <1>3, <1>4, StepByStep
<1>6. ASSUME NEW k \in 1 .. n
      PROVE  x[k].message = x[1].message /\ x[k].update = x[1].update
  <2>1. k \in 0 .. n /\ k # 0
    BY <1>1
  <2>2. k \in G
    BY <1>5, <2>1
  <2> QED BY <2>1, <2>2 DEF G
<1> QED BY <1>1, <1>6

-----------------------------------------------------------------------------
(* Updates in order                                                        *)

\* Sequences in order are in order together when none of the first is later.
LEMMA OrderedJoin ==
  ASSUME NEW S, NEW a \in Seq(S), NEW b \in Seq(S), InOrder(a), InOrder(b),
         NoLater(ToSet(a), ToSet(b))
  PROVE  InOrder(a \o b)
<1> DEFINE x == a \o b
           m == Len(a)
           n == Len(b)
<1>1. /\ m \in Nat /\ n \in Nat /\ Len(x) = m + n
      /\ DOMAIN a = 1 .. m /\ DOMAIN b = 1 .. n /\ DOMAIN x = 1 .. m + n
      /\ \A k \in 1 .. m : x[k] = a[k]
      /\ \A k \in 1 .. n : x[m + k] = b[k]
  BY JoinElements
<1>2. /\ \A k \in 1 .. m, i \in 1 .. m : k < i /\ IsUpdate(a[k]) /\ IsUpdate(a[i]) =>
           a[k].message <= a[i].message
      /\ \A k \in 1 .. n, i \in 1 .. n : k < i /\ IsUpdate(b[k]) /\ IsUpdate(b[i]) =>
           b[k].message <= b[i].message
      /\ \A k \in 1 .. m, i \in 1 .. n : IsUpdate(a[k]) /\ IsUpdate(b[i]) =>
           a[k].message <= b[i].message
  <2>1. /\ \A k \in 1 .. m : a[k] \in ToSet(a)
        /\ \A k \in 1 .. n : b[k] \in ToSet(b)
    BY <1>1 DEF ToSet
  <2> QED BY <1>1, <2>1 DEF InOrder, NoLater
<1> HIDE DEF x, m, n
<1>3. ASSUME NEW k \in 1 .. m + n, NEW i \in 1 .. m + n, k < i, IsUpdate(x[k]), IsUpdate(x[i])
      PROVE  x[k].message <= x[i].message
  <2>1. \/ k \in 1 .. m /\ i \in 1 .. m
        \/ k \in 1 .. m /\ i - m \in 1 .. n /\ i = m + (i - m)
        \/ /\ k - m \in 1 .. n /\ k = m + (k - m) /\ i - m \in 1 .. n /\ i = m + (i - m)
           /\ k - m < i - m
    BY <1>1, <1>3
  <2>2. CASE k \in 1 .. m /\ i \in 1 .. m
    BY <1>1, <1>2, <1>3, <2>2
  <2>3. CASE k \in 1 .. m /\ i - m \in 1 .. n /\ i = m + (i - m)
    <3>1. x[k] = a[k] /\ x[i] = b[i - m]
      BY <1>1, <2>3
    <3> QED BY <1>2, <1>3, <2>3, <3>1
  <2>4. CASE /\ k - m \in 1 .. n /\ k = m + (k - m) /\ i - m \in 1 .. n /\ i = m + (i - m)
             /\ k - m < i - m
    <3>1. x[k] = b[k - m] /\ x[i] = b[i - m]
      BY <1>1, <2>4
    <3> QED BY <1>2, <1>3, <2>4, <3>1
  <2> QED BY <2>1, <2>2, <2>3, <2>4
<1> QED BY <1>1, <1>3 DEF InOrder, x

\* The two parts of a sequence in order.
LEMMA OrderedParts ==
  ASSUME NEW S, NEW a \in Seq(S), NEW b \in Seq(S), InOrder(a \o b)
  PROVE  InOrder(a) /\ InOrder(b) /\ NoLater(ToSet(a), ToSet(b))
<1> DEFINE x == a \o b
           m == Len(a)
           n == Len(b)
<1>1. /\ m \in Nat /\ n \in Nat /\ Len(x) = m + n
      /\ DOMAIN a = 1 .. m /\ DOMAIN b = 1 .. n /\ DOMAIN x = 1 .. m + n
      /\ \A k \in 1 .. m : x[k] = a[k]
      /\ \A k \in 1 .. n : x[m + k] = b[k]
  BY JoinElements
<1>2. \A k \in 1 .. m + n, i \in 1 .. m + n : k < i /\ IsUpdate(x[k]) /\ IsUpdate(x[i]) =>
           x[k].message <= x[i].message
  BY <1>1 DEF InOrder
<1>3. /\ \A u \in ToSet(a) : \E k \in 1 .. m : u = a[k]
      /\ \A u \in ToSet(b) : \E k \in 1 .. n : u = b[k]
  BY <1>1 DEF ToSet
<1> HIDE DEF x, m, n
<1>4. /\ \A k \in 1 .. m : k \in 1 .. m + n
      /\ \A k \in 1 .. n : m + k \in 1 .. m + n
      /\ \A k \in 1 .. m, i \in 1 .. n : k < m + i
      /\ \A k \in 1 .. n, i \in 1 .. n : k < i => m + k < m + i
  BY <1>1
<1>5. InOrder(a)
  BY <1>1, <1>2, <1>4 DEF InOrder
<1>6. ASSUME NEW k \in 1 .. n, NEW i \in 1 .. n, k < i, IsUpdate(b[k]), IsUpdate(b[i])
      PROVE  b[k].message <= b[i].message
  <2>1. m + k \in 1 .. m + n /\ m + i \in 1 .. m + n /\ m + k < m + i
    BY <1>4, <1>6
  <2>2. x[m + k] = b[k] /\ x[m + i] = b[i]
    BY <1>1
  <2> QED BY <1>2, <1>6, <2>1, <2>2
<1>7. InOrder(b)
  BY <1>1, <1>6 DEF InOrder
<1>8. ASSUME NEW k \in 1 .. m, NEW i \in 1 .. n, IsUpdate(a[k]), IsUpdate(b[i])
      PROVE  a[k].message <= b[i].message
  <2>1. k \in 1 .. m + n /\ m + i \in 1 .. m + n /\ k < m + i
    BY <1>4
  <2>2. x[k] = a[k] /\ x[m + i] = b[i]
    BY <1>1
  <2> QED BY <1>2, <1>8, <2>1, <2>2
<1>9. NoLater(ToSet(a), ToSet(b))
  BY <1>3, <1>8 DEF NoLater
<1> QED BY <1>5, <1>7, <1>9

\* A piece of a sequence in order is in order.
LEMMA OrderedSlice ==
  ASSUME NEW S, NEW x \in Seq(S), NEW a \in Nat, NEW b \in Nat, a <= b, b <= Len(x), InOrder(x)
  PROVE  InOrder(SubSeq(x, a + 1, b))
<1> DEFINE y == SubSeq(x, a + 1, b)
           n == Len(x)
<1>1. /\ DOMAIN y = 1 .. b - a
      /\ \A k \in 1 .. b - a : y[k] = x[a + k]
  BY SliceElements
<1>2. n \in Nat /\ DOMAIN x = 1 .. n /\ b <= n
  OBVIOUS
<1> HIDE DEF y, n
<1>3. ASSUME NEW k \in 1 .. b - a, NEW i \in 1 .. b - a, k < i, IsUpdate(y[k]), IsUpdate(y[i])
      PROVE  y[k].message <= y[i].message
  <2>1. a + k \in 1 .. n /\ a + i \in 1 .. n /\ a + k < a + i
    BY <1>2, <1>3
  <2> QED BY <1>1, <1>2, <1>3, <2>1 DEF InOrder
<1> QED BY <1>1, <1>3 DEF InOrder, y

\* Units of one message are in order.
LEMMA AlikeInOrder ==
  ASSUME NEW x, NEW n \in Nat, \A k \in DOMAIN x : IsUpdate(x[k]) => x[k].message = n
  PROVE  InOrder(x) /\ NoLater(ToSet(x), ToSet(x))
<1>1. \A u \in ToSet(x) : \E k \in DOMAIN x : u = x[k]
  BY DEF ToSet
<1> QED BY <1>1 DEF InOrder, NoLater

\* Parts of one message are in order, and as late as any of them.
LEMMA PartsInOrder ==
  ASSUME NEW x \in Seq(Unit), Parts(x)
  PROVE  /\ InOrder(x)
         /\ \A A : NoLater(A, {Last(x)}) => NoLater(A, ToSet(x))
         /\ \A A : NoLater({Last(x)}, A) => NoLater(ToSet(x), A)
<1> DEFINE n == Len(x)
<1>1. x[1] \in Unit /\ Last(x) = x[n] /\ n \in DOMAIN x /\ 1 \in DOMAIN x
  BY DEF Parts, Last
<1>2. \A k \in DOMAIN x : /\ x[k] \in Unit
                          /\ x[k].message = x[1].message /\ x[k].update = x[1].update
  BY PartsAlike
<1> HIDE DEF n
<1>3. x[1].message \in Nat
  BY <1>1, UnitFields
<1>4. InOrder(x)
  BY <1>2, <1>3, AlikeInOrder
<1>5. \A u \in ToSet(x) : /\ IsUpdate(u) <=> IsUpdate(Last(x))
                          /\ u.message = Last(x).message
  BY <1>1, <1>2 DEF ToSet, IsUpdate
<1> QED BY <1>4, <1>5 DEF NoLater

-----------------------------------------------------------------------------
(* Packets                                                                 *)

\* The types of the packets, the one that is written included.
LEMMA PacketFields ==
  ASSUME NEW s \in SenderState, NEW id \in Nat
  PROVE  /\ Packet(s, id) \in Seq(Bunch) /\ InPacket(s, id) = ToSet(Packet(s, id))
         /\ Len(Packet(s, id)) \in Nat /\ DOMAIN Packet(s, id) = 1 .. Len(Packet(s, id))
         /\ \A j \in DOMAIN Packet(s, id) : /\ Packet(s, id)[j] \in Bunch
                                            /\ Packet(s, id)[j] \in InPacket(s, id)
         /\ id > Len(s.network) + 1 => Packet(s, id) = << >>
         /\ id = Len(s.network) + 1 => Packet(s, id) = s.SendBuffer
         /\ id = 0 => Packet(s, id) = << >>
<1> DEFINE p == Packet(s, id)
           N == Len(s.network)
<1>1. /\ N \in Nat /\ DOMAIN s.network = 1 .. N /\ s.SendBuffer \in Seq(Bunch)
      /\ \A n \in 1 .. N : s.network[n] \in Seq(Bunch)
  BY SenderFields
<1>2. ToSet(<< >>) = {}
  BY DEF ToSet
<1> HIDE DEF N, p
<1>3. /\ id > N + 1 => Packet(s, id) = << >>
      /\ id = N + 1 => Packet(s, id) = s.SendBuffer
      /\ id = 0 => Packet(s, id) = << >>
      /\ p \in Seq(Bunch)
      /\ InPacket(s, id) = ToSet(p)
  <2>1. \/ id \in 1 .. N /\ id # 0 /\ id # N + 1 /\ ~(id > N + 1)
        \/ id = N + 1 /\ id \notin 1 .. N /\ id # 0 /\ ~(id > N + 1)
        \/ id \notin 1 .. N /\ id # N + 1
    BY <1>1
  <2>2. p = IF id \in 1 .. N THEN s.network[id]
            ELSE IF id = N + 1 THEN s.SendBuffer ELSE << >>
    BY <1>1 DEF Packet, N, p
  <2>3. InPacket(s, id) = IF id \in 1 .. N THEN ToSet(s.network[id])
                          ELSE IF id = N + 1 THEN ToSet(s.SendBuffer) ELSE {}
    BY <1>1 DEF InPacket, N
  <2>4. << >> \in Seq(Bunch)
    OBVIOUS
  <2>5. p \in Seq(Bunch)
    BY <1>1, <2>2, <2>4
  <2>6. InPacket(s, id) = ToSet(p)
    BY <1>2, <2>2, <2>3
  <2>7. /\ id > N + 1 => p = << >>
        /\ id = N + 1 => p = s.SendBuffer
        /\ id = 0 => p = << >>
    BY <1>1, <2>1, <2>2
  <2> QED BY <2>5, <2>6, <2>7 DEF p
<1>4. Len(p) \in Nat /\ DOMAIN p = 1 .. Len(p) /\ \A j \in DOMAIN p : p[j] \in Bunch
  BY <1>3
<1>5. \A j \in DOMAIN p : p[j] \in ToSet(p)
  BY DEF ToSet
<1> QED BY <1>3, <1>4, <1>5 DEF p, N

\* What it means that a unit is ahead.
LEMMA UnitsAheadAre ==
  ASSUME NEW s \in SenderState, NEW id, NEW j, NEW u
  PROVE  u \in UnitsAhead(s, id, j) <=>
           \E n \in Nat : \E k \in DOMAIN Packet(s, n) :
             /\ IsAhead(id, j, n, k) /\ ~Packet(s, n)[k].bReliable
             /\ u \in ToSet(Packet(s, n)[k].Data)
<1> DEFINE N == Len(s.network) + 1
<1>1. N \in Nat /\ \A n \in Nat : n \notin 1 .. N => Packet(s, n) = << >>
  <2>1. Len(s.network) \in Nat
    BY SenderFields
  <2>2. \A n \in Nat : n \notin 1 .. N => n > Len(s.network) + 1 \/ n = 0
    BY <2>1
  <2> QED BY <2>1, <2>2, PacketFields
<1>2. DOMAIN << >> = {}
  OBVIOUS
<1>3. u \in UnitsAhead(s, id, j) <=>
        \E n \in 1 .. N : \E k \in DOMAIN Packet(s, n) :
             /\ IsAhead(id, j, n, k) /\ ~Packet(s, n)[k].bReliable
             /\ u \in ToSet(Packet(s, n)[k].Data)
  BY DEF UnitsAhead
<1> HIDE DEF N
<1> QED BY <1>1, <1>2, <1>3

\* Bunch out is written to packet id, the last one.
Wrote(x, y, id, out) ==
  /\ id \in Nat /\ id > Len(x.network)
  /\ Packet(y, id) = Append(Packet(x, id), out)
  /\ \A n \in Nat : n # id => Packet(y, n) = Packet(x, n)
  /\ \A n \in Nat : n > id => Packet(x, n) = << >>
  /\ \A n \in 1 .. id - 1 : Packet(x, n) # << >>
  /\ \A n \in DOMAIN y.network : y.network[n] # << >>

\* FlushNet leaves every packet as it was.
LEMMA FlushedPackets ==
  ASSUME NEW s \in SenderState
  PROVE  LET y == FlushNet(s)
         IN  /\ y \in SenderState /\ y.SendBuffer = << >> /\ y.AllowMerge = s.AllowMerge
             /\ \A n \in Nat : Packet(y, n) = Packet(s, n)
             /\ (\A n \in DOMAIN s.network : s.network[n] # << >>) =>
                  \A n \in DOMAIN y.network : y.network[n] # << >>
<1> DEFINE y == FlushNet(s)
           N == Len(s.network)
<1>0. /\ y \in SenderState /\ y.SendBuffer = << >> /\ y.AllowMerge = s.AllowMerge
      /\ N \in Nat /\ DOMAIN s.network = 1 .. N /\ s.network \in Seq(Seq(Bunch))
      /\ s.SendBuffer \in Seq(Bunch)
  BY FlushKeeps, SenderFields
<1>1. CASE s.SendBuffer = << >>
  <2>1. y = s
    BY <1>1 DEF FlushNet
  <2> QED BY <1>0, <2>1
<1>2. CASE s.SendBuffer # << >>
  <2>1. y = [s EXCEPT !.network = Append(s.network, s.SendBuffer), !.SendBuffer = << >>]
    BY <1>2 DEF FlushNet
  <2>2. y.network = Append(s.network, s.SendBuffer)
    BY <2>1 DEF SenderState
  <2>3. /\ Len(y.network) = N + 1 /\ y.network[N + 1] = s.SendBuffer
        /\ \A id \in 1 .. N : y.network[id] = s.network[id]
        /\ DOMAIN y.network = 1 .. N + 1
    BY <1>0, <2>2
  <2> HIDE DEF y, N
  <2>4. ASSUME NEW n \in Nat PROVE Packet(y, n) = Packet(s, n)
    <3>1. CASE n \in 1 .. N
      <4>1. n \in 1 .. N + 1
        BY <1>0, <3>1
      <4> QED BY <1>0, <2>3, <3>1, <4>1 DEF Packet
    <3>2. CASE n = N + 1
      <4>1. n \in 1 .. N + 1 /\ n \notin 1 .. N
        BY <1>0, <3>2
      <4> QED BY <1>0, <2>3, <3>2, <4>1 DEF Packet, N
    <3>3. CASE n \notin 1 .. N + 1
      <4>1. n \notin 1 .. N /\ n # N + 1
        BY <1>0, <3>3
      <4> QED BY <1>0, <2>3, <3>3, <4>1 DEF Packet, N
    <3> QED BY <1>0, <3>1, <3>2, <3>3
  <2>5. \A n \in 1 .. N + 1 : n \in 1 .. N \/ n = N + 1
    BY <1>0
  <2> QED BY <1>0, <1>2, <2>3, <2>4, <2>5 DEF y
<1> QED BY <1>1, <1>2

\* SendRawBunch writes the bunch after those of its packet.
LEMMA SendRawBunchWrote ==
  ASSUME NEW x \in SenderState, NEW bunch \in Bunch, NEW merge \in BOOLEAN,
         \A n \in DOMAIN x.network : x.network[n] # << >>
  PROVE  Wrote(x, SendRawBunch(x, bunch, merge), PacketIdFor(x, bunch), bunch)
<1> DEFINE p == PrepareWrite(x, bunch)
           N == Len(p.network)
           buffer == Append(p.SendBuffer, bunch)
           merges == merge /\ p.SendBuffer # << >>
           w == [p EXCEPT !.SendBuffer = buffer, !.AllowMerge = merges]
           y == SendRawBunch(x, bunch, merge)
           id == PacketIdFor(x, bunch)
<1>1. /\ p \in SenderState /\ \A n \in Nat : Packet(p, n) = Packet(x, n)
      /\ \A n \in DOMAIN p.network : p.network[n] # << >>
      /\ Len(x.network) <= N
  <2>1. Len(FlushNet(x).network) >= Len(x.network)
    BY FlushKeeps, SenderFields DEF SentStays
  <2>2. Len(x.network) <= Len(x.network)
    BY SenderFields
  <2> QED BY <2>1, <2>2, FlushedPackets, FlushKeeps, SenderFields DEF PrepareWrite
<1>2. /\ id = N + 1 /\ N \in Nat /\ DOMAIN p.network = 1 .. N /\ Len(x.network) \in Nat
      /\ p.SendBuffer \in Seq(Bunch) /\ buffer \in Seq(Bunch) /\ merges \in BOOLEAN
  BY <1>1, SenderFields DEF PacketIdFor, OutPacketId
<1>3. y = w \/ y = FlushNet(w)
  BY DEF SendRawBunch
<1> HIDE DEF p, buffer, merges, y, id
<1>4. w \in SenderState /\ w.network = p.network /\ w.SendBuffer = buffer
  BY <1>1, <1>2 DEF SenderState
<1> HIDE DEF w
<1>5. /\ \A n \in Nat : Packet(y, n) = Packet(w, n)
      /\ \A n \in DOMAIN y.network : y.network[n] # << >>
  BY <1>1, <1>3, <1>4, FlushedPackets
<1>6. \A n \in Nat : n # N + 1 => Packet(w, n) = Packet(p, n)
  BY <1>4 DEF Packet
<1>7. Packet(w, N + 1) = buffer /\ Packet(p, N + 1) = p.SendBuffer
  <2>1. N + 1 \notin 1 .. N
    BY <1>2
  <2> QED BY <1>2, <1>4, <2>1 DEF Packet
<1>8. \A n \in Nat : n > N + 1 => Packet(p, n) = << >>
  BY <1>1, PacketFields
<1>9. \A n \in 1 .. N : Packet(p, n) # << >>
  BY <1>1, <1>2 DEF Packet
<1>10. N + 1 \in Nat /\ (N + 1) - 1 = N /\ N + 1 > Len(x.network) /\ 1 .. N \subseteq Nat
  BY <1>1, <1>2
<1>11. /\ Packet(y, id) = Append(Packet(x, id), bunch)
       /\ \A n \in Nat : n # id => Packet(y, n) = Packet(x, n)
       /\ \A n \in Nat : n > id => Packet(x, n) = << >>
       /\ \A n \in 1 .. id - 1 : Packet(x, n) # << >>
  BY <1>1, <1>2, <1>5, <1>6, <1>7, <1>8, <1>9, <1>10 DEF buffer
<1> QED BY <1>2, <1>5, <1>10, <1>11 DEF Wrote, y, id

-----------------------------------------------------------------------------
(* What is written                                                         *)

\* The bunches of the packets, before and after one is written.
LEMMA WrotePlaces ==
  ASSUME NEW x \in SenderState, NEW y \in SenderState, NEW w, NEW out \in Bunch,
         Wrote(x, y, w, out)
  PROVE  LET l == Len(Packet(x, w)) + 1
         IN  /\ w \in Nat /\ l \in DOMAIN Packet(y, w) /\ Packet(y, w)[l] = out
             /\ l = Len(Packet(y, w)) /\ l \in Nat /\ l \notin DOMAIN Packet(x, w)
             /\ \A n \in Nat : \A k \in DOMAIN Packet(x, n) :
                  k \in DOMAIN Packet(y, n) /\ Packet(y, n)[k] = Packet(x, n)[k]
             /\ \A n \in Nat : \A k \in DOMAIN Packet(y, n) :
                  (n = w /\ k = l) \/ k \in DOMAIN Packet(x, n)
<1> DEFINE p == Packet(x, w)
           q == Packet(y, w)
           l == Len(p) + 1
<1>1. w \in Nat /\ q = Append(p, out) /\ \A n \in Nat : n # w => Packet(y, n) = Packet(x, n)
  BY DEF Wrote
<1>2. p \in Seq(Bunch) /\ Len(p) \in Nat /\ DOMAIN p = 1 .. Len(p)
  BY <1>1, PacketFields
<1> HIDE DEF p, q
<1>3. /\ DOMAIN q = 1 .. l /\ l = Len(q) /\ q[l] = out /\ l \in 1 .. l /\ l \notin 1 .. Len(p)
      /\ \A k \in 1 .. Len(p) : k \in 1 .. l /\ q[k] = p[k]
      /\ \A k \in 1 .. l : k = l \/ k \in 1 .. Len(p)
  BY <1>1, <1>2
<1> HIDE DEF l
<1>4. ASSUME NEW n \in Nat, NEW k \in DOMAIN Packet(x, n)
      PROVE  k \in DOMAIN Packet(y, n) /\ Packet(y, n)[k] = Packet(x, n)[k]
  BY <1>1, <1>2, <1>3 DEF p, q
<1>5. ASSUME NEW n \in Nat, NEW k \in DOMAIN Packet(y, n)
      PROVE  (n = w /\ k = l) \/ k \in DOMAIN Packet(x, n)
  BY <1>1, <1>2, <1>3 DEF p, q
<1>6. l \in Nat
  BY <1>2 DEF l
<1> QED BY <1>1, <1>2, <1>3, <1>4, <1>5, <1>6 DEF p, q, l

\* What is ahead after a bunch was written.
LEMMA WroteAhead ==
  ASSUME NEW x \in SenderState, NEW y \in SenderState, NEW w, NEW out \in Bunch,
         Wrote(x, y, w, out)
  PROVE  /\ \A id, j : UnitsAhead(y, id, j) \subseteq
              UnitsAhead(x, id, j) \cup (IF out.bReliable THEN {} ELSE ToSet(out.Data))
         /\ UnitsAhead(y, w, Len(Packet(x, w)) + 1) = {}
<1> DEFINE l == Len(Packet(x, w)) + 1
<1>1. /\ w \in Nat /\ l \in DOMAIN Packet(y, w) /\ Packet(y, w)[l] = out
      /\ l = Len(Packet(y, w)) /\ l \in Nat
      /\ \A n \in Nat : \A k \in DOMAIN Packet(x, n) :
           k \in DOMAIN Packet(y, n) /\ Packet(y, n)[k] = Packet(x, n)[k]
      /\ \A n \in Nat : \A k \in DOMAIN Packet(y, n) :
           (n = w /\ k = l) \/ k \in DOMAIN Packet(x, n)
  BY WrotePlaces
<1>2. ASSUME NEW id, NEW j, NEW u \in UnitsAhead(y, id, j)
      PROVE  u \in UnitsAhead(x, id, j) \cup (IF out.bReliable THEN {} ELSE ToSet(out.Data))
  <2>1. PICK n \in Nat : \E k \in DOMAIN Packet(y, n) :
             /\ IsAhead(id, j, n, k) /\ ~Packet(y, n)[k].bReliable
             /\ u \in ToSet(Packet(y, n)[k].Data)
    BY <1>2, UnitsAheadAre
  <2>2. PICK k \in DOMAIN Packet(y, n) :
             /\ IsAhead(id, j, n, k) /\ ~Packet(y, n)[k].bReliable
             /\ u \in ToSet(Packet(y, n)[k].Data)
    BY <2>1
  <2>3. CASE n = w /\ k = l
    BY <1>1, <2>2, <2>3
  <2>4. CASE k \in DOMAIN Packet(x, n)
    <3>1. Packet(y, n)[k] = Packet(x, n)[k]
      BY <1>1, <2>4
    <3>2. u \in UnitsAhead(x, id, j)
      BY <2>2, <2>4, <3>1, UnitsAheadAre
    <3> QED BY <3>2
  <2> QED BY <1>1, <2>3, <2>4
<1>3. ASSUME NEW u \in UnitsAhead(y, w, l) PROVE FALSE
  <2>1. PICK n \in Nat : \E k \in DOMAIN Packet(y, n) : IsAhead(w, l, n, k)
    BY <1>3, UnitsAheadAre
  <2>2. PICK k \in DOMAIN Packet(y, n) : IsAhead(w, l, n, k)
    BY <2>1
  <2>3. k \in Nat /\ (n = w => k <= l)
    BY <1>1, PacketFields
  <2>4. n > w
    BY <1>1, <2>2, <2>3 DEF IsAhead
  <2>5. Packet(y, n) = << >>
    BY <1>1, <2>4 DEF Wrote
  <2> QED BY <2>5
<1> QED BY <1>2, <1>3

\* A bunch that carries no earlier update than the packets leaves them right.
LEMMA WireWritten ==
  ASSUME NEW x \in SenderState, NEW y \in SenderState, NEW m, WireRight(x, m), NEW w,
         NEW out \in Bunch, Wrote(x, y, w, out), Below(ToSet(out.Data), m),
         ~out.bReliable => /\ DataRight(out) /\ InOrder(out.Data)
                           /\ \A id \in Nat : \A bunch \in InPacket(x, id) :
                                NoLater(ToSet(bunch.Data), ToSet(out.Data))
  PROVE  WireRight(y, m)
<1> DEFINE l == Len(Packet(x, w)) + 1
<1>1. /\ w \in Nat /\ l \in DOMAIN Packet(y, w) /\ Packet(y, w)[l] = out
      /\ \A n \in Nat : \A k \in DOMAIN Packet(x, n) :
           k \in DOMAIN Packet(y, n) /\ Packet(y, n)[k] = Packet(x, n)[k]
      /\ \A n \in Nat : \A k \in DOMAIN Packet(y, n) :
           (n = w /\ k = l) \/ k \in DOMAIN Packet(x, n)
  BY WrotePlaces
<1>2. /\ \A id, j : UnitsAhead(y, id, j) \subseteq
              UnitsAhead(x, id, j) \cup (IF out.bReliable THEN {} ELSE ToSet(out.Data))
      /\ UnitsAhead(y, w, l) = {}
  BY WroteAhead
<1> HIDE DEF l
<1>3. ASSUME NEW id \in Nat, NEW bunch \in InPacket(y, id)
      PROVE  /\ Below(ToSet(bunch.Data), m)
             /\ ~bunch.bReliable => DataRight(bunch) /\ InOrder(bunch.Data)
  <2>1. PICK k \in DOMAIN Packet(y, id) : bunch = Packet(y, id)[k]
    BY <1>3, PacketFields DEF ToSet
  <2>2. CASE bunch = out
    BY <2>2
  <2>3. CASE k \in DOMAIN Packet(x, id)
    <3>1. bunch = Packet(x, id)[k]
      BY <1>1, <2>1, <2>3
    <3>2. bunch \in InPacket(x, id)
      BY <2>3, <3>1, PacketFields
    <3> QED BY <3>2 DEF WireRight
  <2> QED BY <1>1, <2>1, <2>2, <2>3
<1>4. ASSUME NEW id \in Nat, NEW j \in DOMAIN Packet(y, id)
      PROVE  NoLater(ToSet(Packet(y, id)[j].Data), UnitsAhead(y, id, j))
  <2>1. CASE id = w /\ j = l
    BY <1>2, <2>1 DEF NoLater
  <2>2. CASE j \in DOMAIN Packet(x, id)
    <3> DEFINE b == Packet(x, id)[j]
    <3>1. Packet(y, id)[j] = b /\ b \in InPacket(x, id)
      BY <1>1, <2>2, PacketFields
    <3> HIDE DEF b
    <3>2. NoLater(ToSet(b.Data), UnitsAhead(x, id, j))
      BY <2>2 DEF WireRight, b
    <3>3. ~out.bReliable => NoLater(ToSet(b.Data), ToSet(out.Data))
      BY <3>1
    <3>4. NoLater(ToSet(b.Data), UnitsAhead(y, id, j))
      BY <1>2, <3>2, <3>3 DEF NoLater
    <3> QED BY <3>1, <3>4
  <2> QED BY <1>1, <2>1, <2>2
<1>5. \A id \in DOMAIN y.network : y.network[id] # << >>
  BY DEF Wrote
<1> QED BY <1>3, <1>4, <1>5 DEF WireRight

\* A bunch that is the next part of what goes on leaves the chain whole.
LEMMA ChainWritten ==
  ASSUME NEW x \in SenderState, NEW y \in SenderState, NEW U, Chained(x, U), NEW w,
         NEW out \in Bunch, Wrote(x, y, w, out), \A u \in U : Joins(u, out), NEW V,
         ~out.bReliable /\ GoesOn(out) => Last(out.Data) \in V
  PROVE  Chained(y, V)
<1> DEFINE l == Len(Packet(x, w)) + 1
<1>1. /\ w \in Nat /\ l \in DOMAIN Packet(y, w) /\ Packet(y, w)[l] = out
      /\ l = Len(Packet(y, w)) /\ l \in Nat
      /\ \A n \in Nat : \A k \in DOMAIN Packet(x, n) :
           k \in DOMAIN Packet(y, n) /\ Packet(y, n)[k] = Packet(x, n)[k]
      /\ \A n \in Nat : \A k \in DOMAIN Packet(y, n) :
           (n = w /\ k = l) \/ k \in DOMAIN Packet(x, n)
  BY WrotePlaces
<1>2. /\ \A n \in Nat : n # w => Packet(y, n) = Packet(x, n)
      /\ \A n \in Nat : n > w => Packet(x, n) = << >>
      /\ \A n \in 1 .. w - 1 : Packet(x, n) # << >>
  BY DEF Wrote
<1> SUFFICES ASSUME NEW id \in Nat, NEW j \in DOMAIN Packet(y, id),
                    ~Packet(y, id)[j].bReliable, GoesOn(Packet(y, id)[j])
             PROVE  FollowedIn(y, id, j, V)
  BY DEF Chained
<1> DEFINE b == Packet(y, id)[j]
           unit == Last(b.Data)
<1>3. CASE id = w /\ j = l
  <2>1. Packet(y, w + 1) = << >>
    <3>1. w + 1 \in Nat /\ w + 1 > w /\ w + 1 # w
      BY <1>1
    <3> QED BY <1>2, <3>1
  <2>2. unit \in V /\ j = Len(Packet(y, id))
    BY <1>1, <1>3
  <2> QED BY <1>3, <2>1, <2>2 DEF FollowedIn
<1>4. CASE j \in DOMAIN Packet(x, id)
  <2> DEFINE n == Len(Packet(x, id))
  <2>1. /\ b = Packet(x, id)[j] /\ n \in Nat /\ j \in 1 .. n
        /\ DOMAIN Packet(x, id) = 1 .. n /\ id + 1 \in Nat
        /\ DOMAIN Packet(x, id + 1) = 1 .. Len(Packet(x, id + 1))
        /\ Len(Packet(x, id + 1)) \in Nat /\ Packet(x, id + 1) \in Seq(Bunch)
    BY <1>1, <1>4, PacketFields
  <2>2. FollowedIn(x, id, j, U)
    BY <1>4, <2>1 DEF Chained
  <2>w. id = w => Len(Packet(y, id)) = n + 1
    BY <1>1
  <2>e. Packet(x, id) # << >>
    BY <1>4
  <2> HIDE DEF b, n, l
  <2>3. CASE j # n
    <3>1. Joins(unit, Packet(x, id)[j + 1])
      BY <2>1, <2>2, <2>3 DEF FollowedIn, n, b
    <3>2. j + 1 \in 1 .. n
      BY <2>1, <2>3
    <3>3. Packet(y, id)[j + 1] = Packet(x, id)[j + 1]
      BY <1>1, <2>1, <3>2
    <3>4. j # Len(Packet(y, id))
      <4>1. id # w => Len(Packet(y, id)) = n
        BY <1>2 DEF n
      <4> QED BY <2>1, <2>3, <2>w, <4>1
    <3> QED BY <3>1, <3>3, <3>4 DEF FollowedIn, b
  <2>4. CASE j = n /\ Packet(x, id + 1) # << >>
    <3>1. Joins(unit, Packet(x, id + 1)[1])
      BY <2>1, <2>2, <2>4 DEF FollowedIn, n, b
    <3>2. 1 \in DOMAIN Packet(x, id + 1)
      BY <2>1, <2>4
    <3>3. 1 \in DOMAIN Packet(y, id + 1) /\ Packet(y, id + 1)[1] = Packet(x, id + 1)[1]
      BY <1>1, <2>1, <3>2
    <3>4. id # w
      <4>1. ~(id + 1 > w)
        BY <1>2, <2>1, <2>4
      <4> QED BY <1>1, <4>1
    <3>5. j = Len(Packet(y, id)) /\ Packet(y, id + 1) # << >>
      BY <1>2, <2>4, <3>3, <3>4 DEF n
    <3> QED BY <3>1, <3>3, <3>5 DEF FollowedIn, b
  <2>5. CASE j = n /\ Packet(x, id + 1) = << >>
    <3>1. unit \in U
      BY <2>1, <2>2, <2>5 DEF FollowedIn, n, b
    <3>2. Joins(unit, out)
      BY <3>1
    <3>3. id = w \/ id = w - 1
      <4>1. ~(id > w)
        BY <1>2, <2>e
      <4>2. id + 1 \notin 1 .. w - 1
        BY <1>2, <2>5
      <4> QED BY <1>1, <4>1, <4>2
    <3>4. CASE id = w
      <4>2. l = n + 1
        BY <3>4 DEF l, n
      <4>1. j # Len(Packet(y, id)) /\ j + 1 = l
        BY <2>1, <2>5, <2>w, <3>4, <4>2
      <4> QED BY <1>1, <3>2, <3>4, <4>1 DEF FollowedIn, b
    <3>5. CASE id = w - 1
      <4>1. id # w /\ id + 1 = w
        BY <1>1, <3>5
      <4>2. Packet(y, id) = Packet(x, id) /\ j = Len(Packet(y, id))
        BY <1>2, <2>5, <4>1 DEF n
      <4>3. l = 1
        BY <2>5, <4>1 DEF l
      <4>4. Packet(y, id + 1) # << >> /\ Packet(y, id + 1)[1] = out
        BY <1>1, <4>1, <4>3
      <4> QED BY <3>2, <4>2, <4>4 DEF FollowedIn, b
    <3> QED BY <3>3, <3>4, <3>5
  <2> QED BY <2>3, <2>4, <2>5
<1> QED BY <1>1, <1>3, <1>4

-----------------------------------------------------------------------------
(* What is taken back, and pieces                                          *)

\* The packets when the last bunch, that at l of packet w, is taken back.
Popped(s, x, w, l) ==
  /\ x \in SenderState /\ x.network = s.network /\ w \in Nat /\ l \in Nat \ {0}
  /\ Len(Packet(s, w)) = l /\ Packet(s, w)[l] = Last(s.SendBuffer)
  /\ l \in DOMAIN Packet(s, w) /\ Len(Packet(x, w)) = l - 1
  /\ \A n \in Nat : n # w => Packet(x, n) = Packet(s, n)
  /\ \A n \in Nat : n > w => Packet(s, n) = << >>
  /\ \A n \in Nat : \A k \in DOMAIN Packet(x, n) :
       k \in DOMAIN Packet(s, n) /\ Packet(x, n)[k] = Packet(s, n)[k] /\ IsAhead(n, k, w, l)
  /\ \A n \in Nat : \A k \in DOMAIN Packet(s, n) :
       (n = w /\ k = l) \/ k \in DOMAIN Packet(x, n)

\* PopLastStart takes one bunch out of one packet.
LEMMA PoppedPlaces ==
  ASSUME NEW s \in SenderState, s.SendBuffer # << >>
  PROVE  Popped(s, PopLastStart(s), Len(s.network) + 1, Len(s.SendBuffer))
<1> DEFINE x == PopLastStart(s)
           w == Len(s.network) + 1
           p == s.SendBuffer
           q == Front(p)
           l == Len(p)
<1>1. /\ p \in Seq(Bunch) /\ Len(s.network) \in Nat /\ w \in Nat
  BY SenderFields
<1> HIDE DEF p
<1>2. /\ l \in Nat \ {0} /\ q \in Seq(Bunch) /\ Len(q) = l - 1 /\ Last(p) = p[l]
      /\ \A i \in 1 .. l - 1 : q[i] = p[i]
  <2>1. p # << >>
    BY DEF p
  <2> QED BY <1>1, <2>1, FrontLast
<1>3. DOMAIN p = 1 .. l /\ DOMAIN q = 1 .. l - 1
  BY <1>1, <1>2
<1>4. x = [s EXCEPT !.SendBuffer = q]
  BY DEF PopLastStart, p
<1> HIDE DEF q, x
<1>5. x \in SenderState /\ x.network = s.network /\ x.SendBuffer = q
  BY <1>2, <1>4 DEF SenderState
<1>6. /\ \A n \in Nat : n # w => Packet(x, n) = Packet(s, n)
      /\ Packet(x, w) = q /\ Packet(s, w) = p
      /\ \A n \in Nat : n > w => Packet(s, n) = << >>
  <2>1. Packet(s, w) = p /\ \A n \in Nat : n > w => Packet(s, n) = << >>
    BY <1>1, PacketFields DEF p
  <2>2. Packet(x, w) = q
    BY <1>1, <1>5, PacketFields
  <2>3. \A n \in Nat : n # w => Packet(x, n) = Packet(s, n)
    BY <1>5 DEF Packet
  <2> QED BY <2>1, <2>2, <2>3
<1> HIDE DEF w, l
<1>7. ASSUME NEW n \in Nat, NEW k \in DOMAIN Packet(x, n)
      PROVE  /\ k \in DOMAIN Packet(s, n) /\ Packet(x, n)[k] = Packet(s, n)[k]
             /\ IsAhead(n, k, w, l)
  <2>1. CASE n = w
    <3>1. k \in 1 .. l - 1 /\ k \in 1 .. l /\ l > k
      BY <1>2, <1>3, <1>6, <2>1
    <3> QED BY <1>2, <1>3, <1>6, <2>1, <3>1 DEF IsAhead
  <2>2. CASE n # w
    <3>1. Packet(x, n) # << >>
      OBVIOUS
    <3>2. ~(n > w)
      BY <1>6, <2>2, <3>1
    <3>3. w > n
      BY <1>1, <2>2, <3>2 DEF w
    <3> QED BY <1>6, <2>2, <3>3 DEF IsAhead
  <2> QED BY <2>1, <2>2
<1>8. ASSUME NEW n \in Nat, NEW k \in DOMAIN Packet(s, n)
      PROVE  (n = w /\ k = l) \/ k \in DOMAIN Packet(x, n)
  <2>1. CASE n = w
    <3>1. k \in 1 .. l
      BY <1>3, <1>6, <2>1
    <3>2. k = l \/ k \in 1 .. l - 1
      BY <1>2, <3>1
    <3> QED BY <1>3, <1>6, <2>1, <3>2
  <2> QED BY <1>6, <2>1
<1>9. l \in DOMAIN p /\ w \in Nat
  BY <1>1, <1>2, <1>3 DEF w
<1>10. Popped(s, x, w, l)
  <2>1. Packet(s, w)[l] = Last(s.SendBuffer) /\ Len(Packet(s, w)) = l
    BY <1>2, <1>6 DEF p, l
  <2> QED BY <1>2, <1>5, <1>6, <1>7, <1>8, <1>9, <2>1 DEF Popped
<1> QED BY <1>10 DEF x, w, l, p

\* The packets stay right when their last bunch is taken back.
LEMMA WirePopped ==
  ASSUME NEW s \in SenderState, s.SendBuffer # << >>, NEW m, WireRight(s, m)
  PROVE  LET x == PopLastStart(s)
         IN  /\ WireRight(x, m)
             /\ \A id, j : UnitsAhead(x, id, j) \subseteq UnitsAhead(s, id, j)
             /\ ~Last(s.SendBuffer).bReliable =>
                  \A id \in Nat : \A bunch \in InPacket(x, id) :
                    NoLater(ToSet(bunch.Data), ToSet(Last(s.SendBuffer).Data))
<1> DEFINE x == PopLastStart(s)
           w == Len(s.network) + 1
           l == Len(s.SendBuffer)
           last == Last(s.SendBuffer)
<1>1. Popped(s, x, w, l)
  BY PoppedPlaces
<1> HIDE DEF x, w, l, last
<1>2. /\ x \in SenderState /\ x.network = s.network /\ w \in Nat
      /\ l \in DOMAIN Packet(s, w) /\ Packet(s, w)[l] = last
      /\ \A n \in Nat : \A k \in DOMAIN Packet(x, n) :
           k \in DOMAIN Packet(s, n) /\ Packet(x, n)[k] = Packet(s, n)[k] /\ IsAhead(n, k, w, l)
  BY <1>1 DEF Popped, last
<1>3. ASSUME NEW id, NEW j PROVE UnitsAhead(x, id, j) \subseteq UnitsAhead(s, id, j)
  BY <1>2, UnitsAheadAre
<1>4. ASSUME NEW id \in Nat, NEW bunch \in InPacket(x, id)
      PROVE  /\ bunch \in InPacket(s, id)
             /\ ~last.bReliable => NoLater(ToSet(bunch.Data), ToSet(last.Data))
  <2>1. PICK k \in DOMAIN Packet(x, id) : bunch = Packet(x, id)[k]
    BY <1>2, <1>4, PacketFields DEF ToSet
  <2>2. /\ k \in DOMAIN Packet(s, id) /\ bunch = Packet(s, id)[k] /\ IsAhead(id, k, w, l)
    BY <1>2, <2>1
  <2>3. bunch \in InPacket(s, id)
    BY <2>2, PacketFields
  <2>4. NoLater(ToSet(bunch.Data), UnitsAhead(s, id, k))
    BY <2>2 DEF WireRight
  <2>5. ASSUME ~last.bReliable PROVE ToSet(last.Data) \subseteq UnitsAhead(s, id, k)
    <3>1. ~Packet(s, w)[l].bReliable
      BY <1>2, <2>5
    <3>2. \A u \in ToSet(last.Data) : u \in ToSet(Packet(s, w)[l].Data)
      BY <1>2
    <3> QED BY <1>2, <2>2, <3>1, <3>2, UnitsAheadAre
  <2> QED BY <2>3, <2>4, <2>5 DEF NoLater
<1>5. ASSUME NEW id \in Nat, NEW j \in DOMAIN Packet(x, id)
      PROVE  NoLater(ToSet(Packet(x, id)[j].Data), UnitsAhead(x, id, j))
  <2>1. NoLater(ToSet(Packet(s, id)[j].Data), UnitsAhead(s, id, j))
    BY <1>2 DEF WireRight
  <2> QED BY <1>2, <1>3, <2>1 DEF NoLater
<1>6. WireRight(x, m)
  BY <1>2, <1>4, <1>5 DEF WireRight
<1> QED BY <1>3, <1>4, <1>6 DEF x, last

\* Nothing goes on from a bunch that is not partial, so that it may be taken back.
LEMMA ChainPopped ==
  ASSUME NEW s \in SenderState, s.SendBuffer # << >>, Chained(s, {}),
         ~Last(s.SendBuffer).bPartial
  PROVE  Chained(PopLastStart(s), {})
<1> DEFINE x == PopLastStart(s)
           w == Len(s.network) + 1
           l == Len(s.SendBuffer)
           last == Last(s.SendBuffer)
<1>1. Popped(s, x, w, l)
  BY PoppedPlaces
<1> HIDE DEF x, w, l, last
<1>2. /\ x \in SenderState /\ w \in Nat /\ l \in Nat \ {0}
      /\ Len(Packet(s, w)) = l /\ Packet(s, w)[l] = last /\ Len(Packet(x, w)) = l - 1
      /\ \A n \in Nat : n # w => Packet(x, n) = Packet(s, n)
      /\ \A n \in Nat : \A k \in DOMAIN Packet(x, n) :
           k \in DOMAIN Packet(s, n) /\ Packet(x, n)[k] = Packet(s, n)[k]
      /\ \A n \in Nat : \A k \in DOMAIN Packet(s, n) :
           (n = w /\ k = l) \/ k \in DOMAIN Packet(x, n)
  BY <1>1 DEF Popped, last
<1>3. \A u : ~Joins(u, last)
  BY DEF Joins, last
<1> SUFFICES ASSUME NEW id \in Nat, NEW j \in DOMAIN Packet(x, id),
                    ~Packet(x, id)[j].bReliable, GoesOn(Packet(x, id)[j])
             PROVE  FollowedIn(x, id, j, {})
  BY DEF Chained, x
<1> DEFINE b == Packet(x, id)[j]
           unit == Last(b.Data)
           n == Len(Packet(s, id))
<1>4. /\ j \in DOMAIN Packet(s, id) /\ b = Packet(s, id)[j] /\ id + 1 \in Nat
      /\ n \in Nat /\ j \in 1 .. n /\ DOMAIN Packet(s, id) = 1 .. n
      /\ DOMAIN Packet(x, id) = 1 .. Len(Packet(x, id)) /\ Len(Packet(x, id)) \in Nat
      /\ DOMAIN Packet(s, id + 1) = 1 .. Len(Packet(s, id + 1))
      /\ Len(Packet(s, id + 1)) \in Nat /\ Packet(s, id + 1) \in Seq(Bunch)
  BY <1>2, PacketFields
<1>5. FollowedIn(s, id, j, {})
  BY <1>4 DEF Chained
<1> HIDE DEF b, n
<1>6. CASE j # n
  <2>1. Joins(unit, Packet(s, id)[j + 1])
    BY <1>4, <1>5, <1>6 DEF FollowedIn, n, b
  <2>2. j + 1 \in DOMAIN Packet(s, id)
    BY <1>4, <1>6
  <2>3. ~(id = w /\ j + 1 = l)
    BY <1>2, <1>3, <2>1
  <2>4. j + 1 \in DOMAIN Packet(x, id)
    BY <1>2, <2>2, <2>3
  <2>5. Packet(x, id)[j + 1] = Packet(s, id)[j + 1]
    BY <1>2, <2>4
  <2>6. j # Len(Packet(x, id))
    BY <1>4, <2>4
  <2> QED BY <2>1, <2>5, <2>6 DEF FollowedIn, b
<1>7. CASE j = n
  <2>1. Packet(s, id + 1) # << >> /\ Joins(unit, Packet(s, id + 1)[1])
    BY <1>4, <1>5, <1>7 DEF FollowedIn, n, b
  <2>2. 1 \in DOMAIN Packet(s, id + 1)
    BY <1>4, <2>1
  <2>3. ~(id + 1 = w /\ 1 = l)
    BY <1>2, <1>3, <2>1
  <2>4. 1 \in DOMAIN Packet(x, id + 1)
    BY <1>2, <1>4, <2>2, <2>3
  <2>5. Packet(x, id + 1)[1] = Packet(s, id + 1)[1] /\ Packet(x, id + 1) # << >>
    BY <1>2, <1>4, <2>4
  <2>6. id # w
    <3>1. id = w => n = l /\ Len(Packet(x, id)) = l - 1
      BY <1>2 DEF n
    <3> QED BY <1>2, <1>4, <1>7, <3>1
  <2>7. j = Len(Packet(x, id))
    BY <1>2, <1>7, <2>6 DEF n
  <2> QED BY <2>1, <2>5, <2>7 DEF FollowedIn, b
<1> QED BY <1>6, <1>7

\* If there are several pieces, none is empty.
LEMMA CutsMove ==
  ASSUME NEW data \in Seq(Unit), NEW count, count = Len(Split(data)), count # 1,
         NEW i \in 1 .. count
  PROVE  Cut(data, i - 1) < Cut(data, i)
<1> DEFINE M == MaxSingleBunchSize
           N == Len(data)
<1>1. M \in Nat /\ M >= 1 /\ N \in Nat
  BY Constants
<1>2. N > M
  <2>1. N <= M => count = 1
    BY DEF Split
  <2> QED BY <1>1, <2>1
<1> DEFINE K == (N + M - 1) \div M
<1> HIDE DEF M, N
<1>3. K \in Nat \ {0} /\ (K - 1) * M < N
  BY <1>1, <1>2
<1> HIDE DEF K
<1>4. count = K
  <2>1. Split(data) = [k \in 1 .. K |-> SubSeq(data, (k - 1) * M + 1, Lesser(k * M, N))]
    BY <1>1, <1>2 DEF Split, K, M, N
  <2> QED BY <1>3, <2>1
<1> DEFINE p == (i - 1) * M
           q == i * M
<1>5. p \in Nat /\ q = p + M /\ q \in Nat /\ p < N
  <2>1. i - 1 <= K - 1 /\ i - 1 \in Nat /\ K - 1 \in Nat /\ i \in Nat
    BY <1>3, <1>4
  <2>2. p <= (K - 1) * M /\ p \in Nat
    BY <1>1, <2>1
  <2>3. q = p + M
    BY <1>1, <2>1
  <2> QED BY <1>1, <1>3, <2>2, <2>3
<1>6. Cut(data, i - 1) = Lesser(p, N) /\ Cut(data, i) = Lesser(q, N)
  BY DEF Cut, M, N
<1> HIDE DEF p, q
<1> QED BY <1>1, <1>5, <1>6 DEF Lesser

-----------------------------------------------------------------------------
(* The pieces of a bunch on the wire                                       *)

\* What an unreliable bunch must be to be written.
UnitsRight(bunch) ==
  LET data == bunch.Data
  IN  /\ Whole(data) /\ InOrder(data)
      /\ Len(Split(data)) # 1 => \E n \in Nat, size \in Nat : \E update : MessageOf(data, n, size, update)

\* The unit that the part after the i-th piece goes on from.
LastUnits(bunch, i) ==
  IF bunch.bReliable \/ i = 0 \/ i = Len(Split(bunch.Data)) THEN {}
  ELSE {bunch.Data[Cut(bunch.Data, i)]}

\* A natural number that is neither 0 nor 1.
LEMMA MoreThanOne ==
  ASSUME NEW n \in Nat, n # 0, n # 1
  PROVE  n > 1
OBVIOUS

\* A piece of an unreliable message, as SendBunch marks it, carries what the marks say.
LEMMA PieceUnits ==
  ASSUME NEW bunch \in WholeBunch, NEW count, count = Len(Split(bunch.Data)),
         NEW i \in 1 .. count, NEW n, NEW out, out = Piece(bunch, Split(bunch.Data)[i], i, count, n),
         ~bunch.bReliable, UnitsRight(bunch)
  PROVE  /\ DataRight(out) /\ InOrder(out.Data)
         /\ \A u \in LastUnits(bunch, i - 1) : Joins(u, out)
         /\ GoesOn(out) => Last(out.Data) \in LastUnits(bunch, i)
         /\ i # count => NoLater(ToSet(bunch.Data), ToSet(bunch.Data))
<1> DEFINE data == bunch.Data
           a == Cut(data, i - 1)
           b == Cut(data, i)
           N == Len(data)
           piece == SubSeq(data, a + 1, b)
<1>1. data \in Seq(Unit)
  BY DEF WholeBunch
<1>2. /\ count \in Nat \ {0} /\ Cut(data, 0) = 0 /\ Cut(data, count) = N /\ N \in Nat
      /\ a \in 0 .. b /\ b \in 0 .. N /\ Split(data)[i] = piece
  <2>1. SplitRight(data)
    BY <1>1, SplitFacts
  <2> HIDE DEF data
  <2>2. count = Len(Split(data))
    BY DEF data
  <2>3. N \in Nat
    BY <1>1
  <2> QED BY <2>1, <2>2, <2>3 DEF SplitRight
<1>3. a \in Nat /\ b \in Nat /\ a <= b /\ b <= N
  BY <1>2
<1>4. i \in Nat /\ i - 1 \in Nat /\ (i # 1 => i - 1 \in 1 .. count /\ i - 1 # 0 /\ i - 1 # count)
  BY <1>2
<1>5. /\ out.bReliable = bunch.bReliable /\ out.Data = piece
      /\ out.bPartial = (count > 1) /\ out.bPartialInitial = (count > 1 /\ i = 1)
      /\ out.bPartialFinal = (count > 1 /\ i = count)
  BY <1>2 DEF Piece
<1>6. Whole(data) /\ InOrder(data)
      /\ (count # 1 => \E k \in Nat, size \in Nat : \E update : MessageOf(data, k, size, update))
  BY DEF UnitsRight
<1>7. count # 1 => a < b /\ (i # 1 => Cut(data, i - 1 - 1) < a)
  BY <1>1, <1>2, <1>4, CutsMove
<1>c. i - 1 # 0 => Cut(data, i - 1 - 1) \in Nat
  BY <1>1, <1>2, <1>4, SplitFacts DEF SplitRight
<1>u. /\ LastUnits(bunch, i) = IF i = count THEN {} ELSE {data[b]}
      /\ LastUnits(bunch, i - 1) = IF i = 1 THEN {} ELSE {data[a]}
  BY <1>2, <1>4 DEF LastUnits
<1>z. i = 1 => a = 0
  BY <1>2
<1>y. i = count => b = N
  BY <1>2
<1> HIDE DEF a, b, N, data
<1>8. InOrder(piece)
  BY <1>1, <1>3, <1>6, OrderedSlice DEF N
<1> HIDE DEF piece
<1>9. CASE count = 1
  <2>1. i = 1 /\ a = 0 /\ b = N
    BY <1>9, <1>z, <1>y
  <2>2. piece = data
    BY <1>1, <2>1 DEF piece, N
  <2>3. DataRight(out) /\ ~GoesOn(out)
    <3>1. ~(count > 1)
      BY <1>9
    <3> QED BY <1>5, <1>6, <2>2, <3>1 DEF DataRight, GoesOn
  <2> QED BY <1>5, <1>8, <1>9, <1>u, <2>1, <2>3
<1>10. CASE count # 1
  <2>1. PICK k \in Nat, size \in Nat : \E update : MessageOf(data, k, size, update)
    BY <1>6, <1>10
  <2>2. size = N /\ \A l \in DOMAIN data : data[l].message = k
    BY <2>1 DEF MessageOf, N
  <2>3. /\ Parts(piece) /\ piece[1] = data[a + 1] /\ Last(piece) = data[b]
        /\ a = 0 => Begins(piece)
        /\ b = size => Ends(piece)
    <3>1. a < b /\ b <= size
      BY <1>3, <1>7, <1>10, <2>2
    <3>2. LET y == SubSeq(data, a + 1, b)
          IN  /\ y \in Seq(Unit) /\ Parts(y) /\ y[1] = data[a + 1] /\ Last(y) = data[b]
              /\ a = 0 => Begins(y)
              /\ b = size => Ends(y)
      BY <1>3, <2>1, <3>1, MessageSlice
    <3> QED BY <3>2 DEF piece
  <2>4. count > 1
    <3>1. count \in Nat /\ count # 0 /\ count # 1
      BY <1>2, <1>10
    <3> QED BY <3>1, MoreThanOne
  <2>5. DataRight(out)
    BY <1>5, <1>y, <1>z, <2>2, <2>3, <2>4 DEF DataRight
  <2>6. ASSUME i # 1 PROVE Joins(data[a], out)
    <3>1. a \in 1 .. size - 1
      BY <1>3, <1>7, <1>4, <1>10, <1>c, <2>2, <2>6
    <3>2. Continues(data[a], data[a + 1])
      BY <2>1, <3>1 DEF MessageOf
    <3> QED BY <1>5, <2>3, <2>4, <2>6, <3>2 DEF Joins
  <2>7. \A u \in LastUnits(bunch, i - 1) : Joins(u, out)
    BY <1>u, <2>6
  <2>8. GoesOn(out) => Last(out.Data) \in LastUnits(bunch, i)
    BY <1>5, <1>u, <2>3, <2>4 DEF GoesOn
  <2>9. NoLater(ToSet(data), ToSet(data))
    BY <2>2, AlikeInOrder
  <2> QED BY <1>5, <1>8, <2>5, <2>7, <2>8, <2>9 DEF data
<1> QED BY <1>9, <1>10

\* A bunch is written, and what can be merged with is whole.
PieceWrote(x, y, out) ==
  /\ y \in SenderState /\ out \in Bunch
  /\ Wrote(x, y, PacketIdFor(x, out), out) /\ MergesWhole(y)
  /\ y.sent = x.sent /\ y.bPausedUntilReliableACK = x.bPausedUntilReliableACK

\* What was written depends on the packets only.
LEMMA WroteSame ==
  ASSUME NEW x, NEW y, NEW z, NEW w, NEW out, Wrote(x, z, w, out),
         y.network = z.network, y.SendBuffer = z.SendBuffer
  PROVE  Wrote(x, y, w, out)
<1>1. \A n : Packet(y, n) = Packet(z, n)
  BY DEF Packet
<1> QED BY <1>1 DEF Wrote

\* A merge puts its bunch in the place of the last one.
Replacing(bunch, merged, x) ==
  bunch.bReliable /\ merged => x.numbered # << >> /\ x.OutRec # << >>

\* An iteration of SendBunch's loop does not pause the channel.
LEMMA PauseKept ==
  ASSUME NEW x, NEW bunch, NEW data, NEW i, NEW count, NEW merged, NEW merge, NEW n,
         n = IF ~bunch.bReliable THEN 0
             ELSE IF merged THEN Last(x.OutRec).bunch.ChSequence ELSE x.OutReliable + 1,
         SendRawBunch(x, Piece(bunch, data, i, count, n), merge) \in SenderState
  PROVE  SendPiece(x, bunch, data, i, count, merged, merge).bPausedUntilReliableACK =
           SendRawBunch(x, Piece(bunch, data, i, count, n), merge).bPausedUntilReliableACK
<1> DEFINE y == SendPiece(x, bunch, data, i, count, merged, merge)
           out == Piece(bunch, data, i, count, n)
           id == PacketIdFor(x, out)
           z == SendRawBunch(x, out, merge)
           before == IF merged THEN Front(x.numbered) ELSE x.numbered
           through == IF before = << >> THEN << >> ELSE Last(before).upto
           upto == through \o Carried(data, out.bClose)
           queued == [bunch |-> out, PacketId |-> id, ReceivedAck |-> FALSE]
           OutReliable2 == IF bunch.bReliable /\ ~merged THEN z.OutReliable + 1
                           ELSE z.OutReliable
           numbered2 == IF ~bunch.bReliable THEN z.numbered
                        ELSE Append(before, [bunch |-> out, upto |-> upto])
           OutRec2 == IF ~bunch.bReliable THEN z.OutRec
                      ELSE Append(IF merged THEN Front(z.OutRec) ELSE z.OutRec, queued)
           OpenPacketId2 == IF bunch.bOpen THEN id ELSE z.OpenPacketId
           Closing2 == z.Closing \/ out.bClose
<1>1. y = [z EXCEPT !.OutReliable = OutReliable2, !.numbered = numbered2,
                    !.OutRec = OutRec2, !.OpenPacketId = OpenPacketId2, !.Closing = Closing2]
  BY DEF SendPiece
<1>2. z \in SenderState
  OBVIOUS
<1> HIDE DEF OutReliable2, numbered2, OutRec2, OpenPacketId2, Closing2, z, y
<1>3. y.bPausedUntilReliableACK = z.bPausedUntilReliableACK
  BY <1>1, <1>2 DEF SenderState
<1> QED BY <1>3 DEF y, z, out

\* An iteration of SendBunch's loop writes its piece.
LEMMA PieceOnWire ==
  ASSUME NEW x \in SenderState, NEW bunch \in WholeBunch, NEW data \in Seq(Unit),
         NEW i \in Nat, NEW count \in Nat, NEW merged \in BOOLEAN, NEW merge \in BOOLEAN,
         Replacing(bunch, merged, x), merge => count = 1,
         \A id \in DOMAIN x.network : x.network[id] # << >>
  PROVE  LET y == SendPiece(x, bunch, data, i, count, merged, merge)
         IN  /\ Replacing(bunch, merged, y)
             /\ \E n \in Nat : PieceWrote(x, y, Piece(bunch, data, i, count, n))
<1> DEFINE m == merged /\ bunch.bReliable
           y == SendPiece(x, bunch, data, i, count, merged, merge)
           n == IF ~bunch.bReliable THEN 0
                ELSE IF m THEN Last(x.OutRec).bunch.ChSequence ELSE x.OutReliable + 1
           out == Piece(bunch, data, i, count, n)
           z == SendRawBunch(x, out, merge)
<1>1. m \in BOOLEAN /\ (m => bunch.bReliable /\ x.numbered # << >> /\ x.OutRec # << >>)
  BY DEF WholeBunch, Replacing
<1>2. n \in Nat
  <2>1. x.OutRec \in Seq(OutBunch) /\ x.OutReliable \in Nat
    BY SenderFields
  <2>2. m => Last(x.OutRec) \in OutBunch
    BY <1>1, <2>1, FrontLast
  <2>3. m => Last(x.OutRec).bunch \in Bunch
    BY <2>2 DEF OutBunch
  <2> QED BY <2>1, <2>3, BunchFields
<1>3. y = SendPiece(x, bunch, data, i, count, m, merge)
  <2>1. CASE bunch.bReliable
    <3>1. m = merged
      BY <2>1
    <3> QED BY <3>1
  <2>2. CASE ~bunch.bReliable
    BY <2>2 DEF SendPiece
  <2> QED BY <2>1, <2>2
<1>p. z \in SenderState => y.bPausedUntilReliableACK = z.bPausedUntilReliableACK
  BY PauseKept DEF n, y
<1>n. n = IF ~bunch.bReliable THEN 0
          ELSE IF m THEN Last(x.OutRec).bunch.ChSequence ELSE x.OutReliable + 1
  OBVIOUS
<1> HIDE DEF m, y
<1>4. PieceDone(x, bunch, data, i, count, n, m, merge)
  BY <1>1, <1>2, <1>n, PieceFields
<1> HIDE DEF n
<1>5. /\ y \in SenderState /\ out \in Bunch /\ Writes(x, out, merge, z)
      /\ y.network = z.network /\ y.SendBuffer = z.SendBuffer
      /\ y.AllowMerge = z.AllowMerge /\ y.sent = x.sent
  BY <1>3, <1>4 DEF PieceDone
<1>6. merge => ~out.bPartial
  BY PieceParts
<1>7. bunch.bReliable /\ merged => y.numbered # << >> /\ y.OutRec # << >>
  <2> SUFFICES ASSUME bunch.bReliable, merged PROVE y.numbered # << >> /\ y.OutRec # << >>
    OBVIOUS
  <2>1. m
    BY DEF m
  <2>2. \E a, b, e, f : y.numbered = Append(a, e) /\ y.OutRec = Append(b, f)
    BY <1>3, <1>4, <2>1 DEF PieceDone
  <2>3. y.numbered \in Seq([bunch : Bunch, upto : Stream]) /\ y.OutRec \in Seq(OutBunch)
    BY <1>5, SenderFields
  <2>4. x.numbered \in Seq([bunch : Bunch, upto : Stream]) /\ x.OutRec \in Seq(OutBunch)
        /\ x.numbered # << >> /\ x.OutRec # << >>
    BY <1>1, <2>1, SenderFields
  <2>5. Front(x.numbered) \in Seq([bunch : Bunch, upto : Stream]) /\ Front(x.OutRec) \in Seq(OutBunch)
    BY <2>4, FrontLast
  <2>6. \E e, f : y.numbered = Append(Front(x.numbered), e) /\ y.OutRec = Append(Front(x.OutRec), f)
    BY <1>3, <1>4, <2>1 DEF PieceDone
  <2>7. \A S : \A q \in Seq(S) : \A e : Append(q, e) # << >>
    OBVIOUS
  <2> QED BY <2>5, <2>6, <2>7
<1> HIDE DEF out, z
<1>8. Wrote(x, z, PacketIdFor(x, out), out)
  BY <1>5, SendRawBunchWrote DEF z
<1>9. PieceWrote(x, y, out)
  <2>1. Wrote(x, y, PacketIdFor(x, out), out)
    BY <1>5, <1>8, WroteSame
  <2>2. MergesWhole(y)
    BY <1>5, <1>6 DEF Writes, MergesWhole
  <2>3. y.bPausedUntilReliableACK = x.bPausedUntilReliableACK
    BY <1>5, <1>p DEF Writes, SameChannel
  <2> QED BY <1>5, <2>1, <2>2, <2>3 DEF PieceWrote
<1> QED BY <1>2, <1>7, <1>9 DEF y, out, Replacing

NewUnits(bunch) == IF bunch.bReliable THEN {} ELSE ToSet(bunch.Data)

\* After i pieces of the bunch, from sender b.
OnWire(b, bunch, merged, m, i, x) ==
  /\ WireRight(x, m) /\ (i # 0 => MergesWhole(x)) /\ Chained(x, LastUnits(bunch, i))
  /\ \A id, j : UnitsAhead(x, id, j) \subseteq UnitsAhead(b, id, j) \cup NewUnits(bunch)
  /\ Replacing(bunch, merged, x)
  /\ ~bunch.bReliable /\ i # Len(Split(bunch.Data)) =>
       \A id \in Nat : \A w \in InPacket(x, id) : NoLater(ToSet(w.Data), ToSet(bunch.Data))
  /\ x.sent = b.sent /\ x.bPausedUntilReliableACK = b.bPausedUntilReliableACK

\* What may be written.
MayWrite(b, bunch, merged, m) ==
  /\ WireRight(b, m) /\ Chained(b, {}) /\ Below(ToSet(bunch.Data), m)
  /\ Replacing(bunch, merged, b)
  /\ ~bunch.bReliable =>
       /\ UnitsRight(bunch)
       /\ \A id \in Nat : \A w \in InPacket(b, id) : NoLater(ToSet(w.Data), ToSet(bunch.Data))

\* Piece i of count of the bunch is right.
PieceSound(bunch, i, count, out) ==
  /\ out.bReliable = bunch.bReliable /\ ToSet(out.Data) \subseteq ToSet(bunch.Data)
  /\ ~bunch.bReliable =>
       /\ DataRight(out) /\ InOrder(out.Data)
       /\ \A u \in LastUnits(bunch, i - 1) : Joins(u, out)
       /\ GoesOn(out) => Last(out.Data) \in LastUnits(bunch, i)
       /\ i # count => NoLater(ToSet(bunch.Data), ToSet(bunch.Data))

\* The piece of an iteration is right.
LEMMA PieceIsSound ==
  ASSUME NEW bunch \in WholeBunch, NEW count, count = Len(Split(bunch.Data)),
         NEW i \in 1 .. count, NEW n, ~bunch.bReliable => UnitsRight(bunch)
  PROVE  PieceSound(bunch, i, count, Piece(bunch, Split(bunch.Data)[i], i, count, n))
<1> DEFINE out == Piece(bunch, Split(bunch.Data)[i], i, count, n)
<1>0. bunch.Data \in Seq(Unit)
  BY DEF WholeBunch
<1>1. ToSet(Split(bunch.Data)[i]) \subseteq ToSet(bunch.Data)
  <2>1. SplitRight(bunch.Data)
    BY <1>0, SplitFacts
  <2> DEFINE data == bunch.Data
             p == Cut(data, i - 1)
             q == Cut(data, i)
  <2> HIDE DEF data
  <2>2. count = Len(Split(data)) /\ data \in Seq(Unit)
    BY <1>0 DEF data
  <2>6. SplitRight(data)
    BY <2>1 DEF data
  <2>7. \A k \in 1 .. count :
         /\ Cut(data, k - 1) \in 0 .. Cut(data, k) /\ Cut(data, k) \in 0 .. Len(data)
         /\ Split(data)[k] = SubSeq(data, Cut(data, k - 1) + 1, Cut(data, k))
         /\ Split(data)[k] \in Seq(Unit)
    BY <2>2, <2>6 DEF SplitRight
  <2>8. count \in Nat \ {0} /\ Len(data) \in Nat
    BY <2>2, <2>6 DEF SplitRight
  <2>3. /\ count \in Nat \ {0} /\ p \in 0 .. q /\ q \in 0 .. Len(data) /\ Len(data) \in Nat
        /\ Split(data)[i] = SubSeq(data, p + 1, q) /\ Split(data)[i] \in Seq(Unit)
    BY <2>7, <2>8
  <2>4. p \in Nat /\ q \in Nat /\ p <= q /\ q <= Len(data)
    BY <2>3
  <2> HIDE DEF p, q
  <2>5. ToSet(SubSeq(data, p + 1, q)) \subseteq ToSet(data)
    BY <2>2, <2>4, SliceElements
  <2> QED BY <2>3, <2>5 DEF data
<1>2. out.bReliable = bunch.bReliable /\ out.Data = Split(bunch.Data)[i]
  BY DEF Piece
<1>3. out = Piece(bunch, Split(bunch.Data)[i], i, count, n)
  OBVIOUS
<1> HIDE DEF out
<1>4. ~bunch.bReliable =>
       /\ DataRight(out) /\ InOrder(out.Data)
       /\ \A u \in LastUnits(bunch, i - 1) : Joins(u, out)
       /\ GoesOn(out) => Last(out.Data) \in LastUnits(bunch, i)
       /\ i # count => NoLater(ToSet(bunch.Data), ToSet(bunch.Data))
  BY <1>3, PieceUnits
<1>5. PieceSound(bunch, i, count, out)
  BY <1>1, <1>2, <1>4 DEF PieceSound
<1> QED BY <1>5 DEF out

\* A piece can be written, and is.
MayPiece(x, bunch, data, i, count, merged, merge) ==
  /\ data \in Seq(Unit) /\ i \in Nat /\ count \in Nat
  /\ Replacing(bunch, merged, x) /\ (merge => count = 1)
  /\ \A id \in DOMAIN x.network : x.network[id] # << >>

WritesPiece(x, bunch, data, i, count, merged, y) ==
  /\ Replacing(bunch, merged, y)
  /\ \E n \in Nat : PieceWrote(x, y, Piece(bunch, data, i, count, n))

\* An iteration whose conditions hold writes its piece.
LEMMA PieceIsWritten ==
  ASSUME NEW x \in SenderState, NEW bunch \in WholeBunch, NEW data, NEW i, NEW count,
         NEW merged \in BOOLEAN, NEW merge \in BOOLEAN,
         MayPiece(x, bunch, data, i, count, merged, merge)
  PROVE  WritesPiece(x, bunch, data, i, count, merged,
                     SendPiece(x, bunch, data, i, count, merged, merge))
BY PieceOnWire DEF MayPiece, WritesPiece

\* An iteration writes a piece that is right.
LEMMA WirePiece ==
  ASSUME NEW x \in SenderState, NEW bunch \in WholeBunch, NEW count,
         count = Len(Split(bunch.Data)), NEW i \in 1 .. count, NEW merged \in BOOLEAN,
         NEW merge \in BOOLEAN, Replacing(bunch, merged, x), merge => count = 1,
         \A id \in DOMAIN x.network : x.network[id] # << >>,
         ~bunch.bReliable => UnitsRight(bunch)
  PROVE  LET y == SendPiece(x, bunch, Split(bunch.Data)[i], i, count, merged, merge)
         IN  /\ Replacing(bunch, merged, y)
             /\ \E out : PieceWrote(x, y, out) /\ PieceSound(bunch, i, count, out)
<1> DEFINE piece == Split(bunch.Data)[i]
           y == SendPiece(x, bunch, piece, i, count, merged, merge)
<1>0. bunch.Data \in Seq(Unit)
  BY DEF WholeBunch
<1>1. count \in Nat /\ i \in Nat /\ piece \in Seq(Unit)
  <2>1. SplitRight(bunch.Data)
    BY <1>0, SplitFacts
  <2> DEFINE data == bunch.Data
  <2> HIDE DEF data
  <2>2. count = Len(Split(data)) /\ piece = Split(data)[i]
    BY DEF data
  <2> HIDE DEF piece
  <2> QED BY <2>1, <2>2 DEF SplitRight, data
<1> HIDE DEF piece
<1>2. MayPiece(x, bunch, piece, i, count, merged, merge)
  BY <1>1 DEF MayPiece
<1>3. WritesPiece(x, bunch, piece, i, count, merged, y)
  BY <1>2, PieceIsWritten
<1>4. \A n : PieceSound(bunch, i, count, Piece(bunch, piece, i, count, n))
  BY PieceIsSound DEF piece
<1> HIDE DEF y
<1>5. /\ Replacing(bunch, merged, y)
      /\ \E out : PieceWrote(x, y, out) /\ PieceSound(bunch, i, count, out)
  BY <1>3, <1>4 DEF WritesPiece
<1> QED BY <1>5 DEF y, piece

\* The packets are right after the iteration if they were before.
LEMMA WireAfter ==
  ASSUME NEW b \in SenderState, NEW bunch \in WholeBunch, NEW merged \in BOOLEAN,
         NEW m, MayWrite(b, bunch, merged, m),
         NEW count \in Nat, count = Len(Split(bunch.Data)), NEW i \in 1 .. count,
         NEW x \in SenderState, OnWire(b, bunch, merged, m, i - 1, x),
         NEW y, Replacing(bunch, merged, y), NEW out, PieceWrote(x, y, out),
         PieceSound(bunch, i, count, out)
  PROVE  y \in SenderState /\ OnWire(b, bunch, merged, m, i, y)
<1> DEFINE w == PacketIdFor(x, out)
<1>2. i # 0 /\ i - 1 # count /\ i \in Nat /\ ToSet(out.Data) \subseteq ToSet(bunch.Data)
  BY DEF PieceSound
<1>3. /\ WireRight(x, m) /\ Chained(x, LastUnits(bunch, i - 1)) /\ Replacing(bunch, merged, x)
      /\ \A id, j : UnitsAhead(x, id, j) \subseteq UnitsAhead(b, id, j) \cup NewUnits(bunch)
      /\ ~bunch.bReliable =>
           \A id \in Nat : \A e \in InPacket(x, id) : NoLater(ToSet(e.Data), ToSet(bunch.Data))
      /\ x.sent = b.sent /\ x.bPausedUntilReliableACK = b.bPausedUntilReliableACK
  BY <1>2 DEF OnWire
<1>7. /\ y \in SenderState /\ out \in Bunch /\ Wrote(x, y, w, out) /\ MergesWhole(y)
      /\ y.sent = x.sent /\ y.bPausedUntilReliableACK = x.bPausedUntilReliableACK
  BY DEF PieceWrote
<1> HIDE DEF w
<1>5. Replacing(bunch, merged, y)
  OBVIOUS
<1>8. out.bReliable = bunch.bReliable
  BY DEF PieceSound
<1>10. ~bunch.bReliable =>
         /\ DataRight(out) /\ InOrder(out.Data)
         /\ \A u \in LastUnits(bunch, i - 1) : Joins(u, out)
         /\ GoesOn(out) => Last(out.Data) \in LastUnits(bunch, i)
         /\ i # count => NoLater(ToSet(bunch.Data), ToSet(bunch.Data))
  BY DEF PieceSound
<1>11. WireRight(y, m)
  <2>1. Below(ToSet(out.Data), m)
    BY <1>2, <1>8 DEF MayWrite, Below
  <2>2. ~out.bReliable => /\ DataRight(out) /\ InOrder(out.Data)
                          /\ \A id \in Nat : \A v \in InPacket(x, id) :
                               NoLater(ToSet(v.Data), ToSet(out.Data))
    BY <1>2, <1>3, <1>8, <1>10 DEF NoLater
  <2> QED BY <1>3, <1>7, <2>1, <2>2, WireWritten
<1>12. Chained(y, LastUnits(bunch, i))
  <2>1. \A u \in LastUnits(bunch, i - 1) : Joins(u, out)
    BY <1>10 DEF LastUnits
  <2>2. ~out.bReliable /\ GoesOn(out) => Last(out.Data) \in LastUnits(bunch, i)
    BY <1>8, <1>10
  <2> QED BY <1>3, <1>7, <2>1, <2>2, ChainWritten
<1>13. ASSUME NEW id, NEW j
       PROVE  UnitsAhead(y, id, j) \subseteq UnitsAhead(b, id, j) \cup NewUnits(bunch)
  <2>1. UnitsAhead(y, id, j) \subseteq
          UnitsAhead(x, id, j) \cup (IF out.bReliable THEN {} ELSE ToSet(out.Data))
    BY <1>7, WroteAhead
  <2>2. (IF out.bReliable THEN {} ELSE ToSet(out.Data)) \subseteq NewUnits(bunch)
    BY <1>2, <1>8 DEF NewUnits
  <2> QED BY <1>3, <2>1, <2>2
<1>14. ASSUME ~bunch.bReliable, i # count, NEW id \in Nat, NEW v \in InPacket(y, id)
       PROVE  NoLater(ToSet(v.Data), ToSet(bunch.Data))
  <2>1. PICK k \in DOMAIN Packet(y, id) : v = Packet(y, id)[k]
    BY <1>7, <1>14, PacketFields DEF ToSet
  <2>2. v = out \/ v \in InPacket(x, id)
    <3>1. \/ v = out
          \/ k \in DOMAIN Packet(x, id) /\ Packet(y, id)[k] = Packet(x, id)[k]
      BY <1>7, <2>1, WrotePlaces
    <3> QED BY <2>1, <3>1, PacketFields
  <2>3. CASE v = out
    BY <1>2, <1>8, <1>10, <1>14, <2>3 DEF NoLater
  <2> QED BY <1>3, <1>14, <2>2, <2>3
<1>15. OnWire(b, bunch, merged, m, i, y)
  BY <1>2, <1>3, <1>5, <1>7, <1>11, <1>12, <1>13, <1>14 DEF OnWire
<1> QED BY <1>7, <1>15

\* One iteration of the loop keeps the packets right.
LEMMA WireStep ==
  ASSUME NEW b \in SenderState, NEW bunch \in WholeBunch, NEW merged \in BOOLEAN,
         NEW merge \in BOOLEAN, NEW m, MayWrite(b, bunch, merged, m),
         NEW count, count = Len(Split(bunch.Data)), NEW i \in 1 .. count,
         NEW x \in SenderState, OnWire(b, bunch, merged, m, i - 1, x),
         merge => count = 1
  PROVE  LET y == SendPiece(x, bunch, Split(bunch.Data)[i], i, count, merged, merge)
         IN  y \in SenderState /\ OnWire(b, bunch, merged, m, i, y)
<1> DEFINE y == SendPiece(x, bunch, Split(bunch.Data)[i], i, count, merged, merge)
<1>1. Replacing(bunch, merged, x) /\ WireRight(x, m) /\ (~bunch.bReliable => UnitsRight(bunch))
  BY DEF OnWire, MayWrite
<1>2. \A id \in DOMAIN x.network : x.network[id] # << >>
  BY <1>1 DEF WireRight
<1>3. count \in Nat
  <2>1. bunch.Data \in Seq(Unit)
    BY DEF WholeBunch
  <2> QED BY <2>1, SplitFacts DEF SplitRight
<1>4. /\ Replacing(bunch, merged, y)
      /\ \E out : PieceWrote(x, y, out) /\ PieceSound(bunch, i, count, out)
  BY <1>1, <1>2, WirePiece
<1> HIDE DEF y
<1>5. y \in SenderState /\ OnWire(b, bunch, merged, m, i, y)
  BY <1>3, <1>4, WireAfter
<1> QED BY <1>5 DEF y

\* All of the bunch is written to the packets.
Written(b, bunch, m, y) ==
  /\ y \in SenderState /\ WireRight(y, m) /\ MergesWhole(y) /\ Chained(y, {})
  /\ \A id, j : UnitsAhead(y, id, j) \subseteq UnitsAhead(b, id, j) \cup NewUnits(bunch)
  /\ y.sent = b.sent /\ y.bPausedUntilReliableACK = b.bPausedUntilReliableACK

\* After the loop the packets hold all of the bunch.
LEMMA AllWritten ==
  ASSUME NEW b \in SenderState, NEW bunch \in WholeBunch, NEW merged \in BOOLEAN,
         NEW merge \in BOOLEAN, NEW m, MayWrite(b, bunch, merged, m)
  PROVE  Written(b, bunch, m, AfterPieces(b, bunch, merged, merge)[Len(Split(bunch.Data))])
<1> DEFINE pieces == Split(bunch.Data)
           count == Len(pieces)
           single == merge /\ count = 1
           Right(i, x) == OnWire(b, bunch, merged, m, i, x)
           G == {p \in (0 .. count) \X SenderState : Right(p[1], p[2])}
<1>1. count \in Nat \ {0}
  <2>1. bunch.Data \in Seq(Unit)
    BY DEF WholeBunch
  <2> QED BY <2>1, SplitFacts DEF SplitRight
<1>2. single \in BOOLEAN /\ (single => count = 1) /\ count = Len(Split(bunch.Data))
  OBVIOUS
<1>c. LastUnits(bunch, 0) = {} /\ LastUnits(bunch, count) = {}
  BY DEF LastUnits
<1> HIDE DEF single, count
<1>3. Right(0, b)
  <2>1. /\ WireRight(b, m) /\ Chained(b, LastUnits(bunch, 0)) /\ Replacing(bunch, merged, b)
        /\ ~bunch.bReliable =>
             \A id \in Nat : \A w \in InPacket(b, id) : NoLater(ToSet(w.Data), ToSet(bunch.Data))
    BY <1>c DEF MayWrite
  <2> QED BY <2>1 DEF OnWire
<1>4. ASSUME NEW i \in 1 .. count, NEW x \in SenderState, Right(i - 1, x)
      PROVE  LET y == SendPiece(x, bunch, pieces[i], i, count, merged, single)
             IN  y \in SenderState /\ Right(i, y)
  BY <1>2, <1>4, WireStep
<1> HIDE DEF pieces, Right
<1>6. PiecesKeep(b, bunch, merged, merge, G)
  <2>1. <<0, b>> \in G
    BY <1>1, <1>3
  <2>2. ASSUME NEW i \in 1 .. count, NEW x \in SenderState, <<i - 1, x>> \in G
        PROVE  LET y == SendPiece(x, bunch, pieces[i], i, count, merged, single)
               IN  y \in SenderState /\ <<i, y>> \in G
    <3>1. Right(i - 1, x)
      BY <2>2
    <3>2. i \in 0 .. count
      BY <1>1
    <3> QED BY <1>4, <3>1, <3>2
  <2> HIDE DEF G
  <2> QED BY <2>1, <2>2 DEF PiecesKeep, pieces, count, single
<1> HIDE DEF G
<1> DEFINE y == AfterPieces(b, bunch, merged, merge)[count]
<1>7. y \in SenderState /\ <<count, y>> \in G
  BY <1>6, PiecesKept DEF count, pieces
<1> HIDE DEF y
<1>8. OnWire(b, bunch, merged, m, count, y)
  BY <1>7 DEF G, Right
<1>9. Written(b, bunch, m, y)
  BY <1>1, <1>7, <1>8, <1>c DEF OnWire, Written
<1> QED BY <1>9 DEF y, count, pieces

-----------------------------------------------------------------------------
(* A message is sent                                                       *)

\* A bound on the messages may be raised.
LEMMA BelowMore ==
  ASSUME NEW A, NEW m \in Nat, NEW n \in Nat, m <= n, Below(A, m)
  PROVE  Below(A, n)
<1>1. SUFFICES ASSUME NEW a \in A, IsUpdate(a) PROVE a.message <= n
  BY DEF Below
<1>2. a.message \in Nat /\ a.message <= m
  BY <1>1, UnitFields DEF IsUpdate, Below
<1> QED BY <1>2

\* The next message is later than all before it.
LEMMA BelowNext ==
  ASSUME NEW A, NEW B, NEW m \in Nat, Below(A, m), \A b \in B : IsUpdate(b) => b.message = m + 1
  PROVE  NoLater(A, B)
<1>1. SUFFICES ASSUME NEW a \in A, NEW b \in B, IsUpdate(a), IsUpdate(b)
               PROVE  a.message <= b.message
  BY DEF NoLater
<1>2. a.message \in Nat /\ a.message <= m /\ b.message = m + 1
  BY <1>1, UnitFields DEF IsUpdate, Below
<1> QED BY <1>2

\* The packets of y are those of x.
PacketsAlike(x, y) == \A n \in Nat : Packet(y, n) = Packet(x, n)

\* What depends on the packets only.
LEMMA AlikePackets ==
  ASSUME NEW x \in SenderState, NEW y \in SenderState, PacketsAlike(x, y)
  PROVE  /\ \A id \in Nat : InPacket(y, id) = InPacket(x, id)
         /\ \A id, j : UnitsAhead(y, id, j) = UnitsAhead(x, id, j)
         /\ \A U : Chained(x, U) => Chained(y, U)
         /\ \A m : WireRight(x, m) /\ (\A n \in DOMAIN y.network : y.network[n] # << >>) =>
              WireRight(y, m)
<1>1. \A n \in Nat : Packet(y, n) = Packet(x, n)
  BY DEF PacketsAlike
<1>2. \A id \in Nat : InPacket(y, id) = InPacket(x, id)
  BY <1>1, PacketFields
<1>3. ASSUME NEW id, NEW j
      PROVE  UnitsAhead(y, id, j) = UnitsAhead(x, id, j)
  <2>1. ASSUME NEW u PROVE u \in UnitsAhead(y, id, j) <=> u \in UnitsAhead(x, id, j)
    <3>1. u \in UnitsAhead(y, id, j) <=>
            \E n \in Nat : \E k \in DOMAIN Packet(y, n) :
              /\ IsAhead(id, j, n, k) /\ ~Packet(y, n)[k].bReliable
              /\ u \in ToSet(Packet(y, n)[k].Data)
      BY UnitsAheadAre
    <3>2. u \in UnitsAhead(x, id, j) <=>
            \E n \in Nat : \E k \in DOMAIN Packet(x, n) :
              /\ IsAhead(id, j, n, k) /\ ~Packet(x, n)[k].bReliable
              /\ u \in ToSet(Packet(x, n)[k].Data)
      BY UnitsAheadAre
    <3> QED BY <1>1, <3>1, <3>2
  <2> QED BY <2>1
<1>4. ASSUME NEW U, Chained(x, U) PROVE Chained(y, U)
  <2>1. SUFFICES ASSUME NEW id \in Nat, NEW j \in DOMAIN Packet(y, id),
                        ~Packet(y, id)[j].bReliable, GoesOn(Packet(y, id)[j])
                 PROVE  FollowedIn(y, id, j, U)
    BY DEF Chained
  <2>2. FollowedIn(x, id, j, U)
    BY <1>1, <1>4, <2>1 DEF Chained
  <2>3. Packet(y, id) = Packet(x, id) /\ Packet(y, id + 1) = Packet(x, id + 1)
    BY <1>1
  <2> QED BY <2>2, <2>3 DEF FollowedIn
<1>5. ASSUME NEW m, WireRight(x, m), \A n \in DOMAIN y.network : y.network[n] # << >>
      PROVE  WireRight(y, m)
  BY <1>1, <1>2, <1>3, <1>5 DEF WireRight
<1> QED BY <1>2, <1>3, <1>4, <1>5

\* The packets are right under a higher bound.
LEMMA WireMore ==
  ASSUME NEW s, NEW m \in Nat, NEW n \in Nat, m <= n, WireRight(s, m)
  PROVE  WireRight(s, n)
<1>1. ASSUME NEW A, Below(A, m) PROVE Below(A, n)
  BY <1>1, BelowMore
<1> QED BY <1>1 DEF WireRight

\* The same packets, and the packet layer has the same.
LEMMA SamePackets ==
  ASSUME NEW x, NEW y, y.network = x.network, y.SendBuffer = x.SendBuffer
  PROVE  PacketsAlike(x, y)
BY DEF PacketsAlike, Packet

\* The units of message m + 1.
NewMessage(data, m) == \E size \in Nat : \E update : MessageOf(data, m + 1, size, update)

\* A new message is whole, in order and later than all others.
LEMMA NewMessageFields ==
  ASSUME NEW data, NEW m \in Nat, NewMessage(data, m)
  PROVE  /\ data \in Seq(Unit) /\ Whole(data) /\ InOrder(data)
         /\ \A u \in ToSet(data) : u \in Unit /\ u.message = m + 1
         /\ Below(ToSet(data), m + 1)
         /\ \E n \in Nat, size \in Nat : \E update : MessageOf(data, n, size, update)
<1> DEFINE n == m + 1
<1>1. n \in Nat
  OBVIOUS
<1>2. \E size \in Nat : \E update : MessageOf(data, n, size, update)
  BY DEF NewMessage
<1>3. PICK size \in Nat : \E update : MessageOf(data, n, size, update)
  BY <1>2
<1> HIDE DEF n
<1>4. data \in Seq(Unit) /\ Whole(data)
  <2>1. Whole(data)
    BY <1>1, <1>3, MessageIsWhole
  <2> QED BY <1>3, <2>1 DEF MessageOf
<1>5. \A k \in DOMAIN data : data[k] \in Unit /\ data[k].message = n
  BY <1>3 DEF MessageOf
<1>6. InOrder(data)
  BY <1>1, <1>5, AlikeInOrder
<1>7. \A u \in ToSet(data) : u \in Unit /\ u.message = n
  BY <1>5 DEF ToSet
<1>8. Below(ToSet(data), n)
  BY <1>1, <1>7 DEF Below
<1> QED BY <1>1, <1>3, <1>4, <1>6, <1>7, <1>8 DEF n

\* A sender b that is ready to write a bunch, as sender s was.
Readied(s, all, merged, m, b) ==
  /\ b \in SenderState /\ MayWrite(b, all, merged, m + 1)
  /\ \A id, j : UnitsAhead(b, id, j) \subseteq UnitsAhead(s, id, j)

\* What an unreliable bunch has of units that are new.
OnlyNew(s, data, all) == ~all.bReliable => \A u \in Nat : u <= Len(s.network) =>
  ToSet(all.Data) \subseteq UnitsAhead(s, u + 1, 0) \cup ToSet(data)

\* The packets of s.
WireIs(s, m) == WireRight(s, m) /\ Chained(s, {}) /\ MergesWhole(s)

\* What SendBunch does before it writes leaves the packets right.
LEMMA SamePrepared ==
  ASSUME NEW s \in SenderState, NEW p \in SenderState, NEW m, WireIs(s, m),
         p.network = s.network, p.SendBuffer = s.SendBuffer, p.AllowMerge = s.AllowMerge
  PROVE  /\ WireIs(p, m) /\ \A id, j : UnitsAhead(p, id, j) = UnitsAhead(s, id, j)
         /\ \A id \in Nat : Packet(p, id) = Packet(s, id)
<1>1. PacketsAlike(s, p)
  BY SamePackets
<1>2. /\ \A id, j : UnitsAhead(p, id, j) = UnitsAhead(s, id, j)
      /\ Chained(p, {})
      /\ (\A n \in DOMAIN p.network : p.network[n] # << >>) => WireRight(p, m)
  BY <1>1, AlikePackets DEF WireIs
<1>3. \A n \in DOMAIN p.network : p.network[n] # << >>
  BY DEF WireIs, WireRight
<1>4. MergesWhole(p)
  BY DEF MergesWhole, WireIs
<1> QED BY <1>1, <1>2, <1>3, <1>4 DEF WireIs, PacketsAlike

\* A bunch that is not merged with another.
LEMMA FreshReady ==
  ASSUME NEW p \in SenderState, NEW m \in Nat, WireIs(p, m), NEW all \in WholeBunch,
         NewMessage(all.Data, m), NEW merged \in BOOLEAN, ~merged
  PROVE  Readied(p, all, merged, m, p) /\ OnlyNew(p, all.Data, all)
<1> DEFINE n == m + 1
<1>1. n \in Nat /\ m <= n
  OBVIOUS
<1>2. /\ all.Data \in Seq(Unit) /\ Whole(all.Data) /\ InOrder(all.Data)
      /\ \A u \in ToSet(all.Data) : u \in Unit /\ u.message = m + 1
      /\ Below(ToSet(all.Data), n)
      /\ \E k \in Nat, size \in Nat : \E update : MessageOf(all.Data, k, size, update)
  BY NewMessageFields
<1>3. UnitsRight(all)
  BY <1>2 DEF UnitsRight
<1> HIDE DEF n
<1>4. WireRight(p, n)
  BY <1>1, WireMore DEF WireIs
<1>5. ASSUME NEW id \in Nat, NEW w \in InPacket(p, id)
      PROVE  NoLater(ToSet(w.Data), ToSet(all.Data))
  <2>1. Below(ToSet(w.Data), m)
    BY DEF WireIs, WireRight
  <2> QED BY <1>2, <2>1, BelowNext
<1>6. Replacing(all, merged, p)
  BY DEF Replacing
<1>7. MayWrite(p, all, merged, n)
  BY <1>2, <1>3, <1>4, <1>5, <1>6 DEF MayWrite, WireIs
<1>8. Readied(p, all, merged, m, p)
  BY <1>7 DEF Readied, n
<1> QED BY <1>8 DEF OnlyNew

\* One that is merged with the last bunch, which is taken back.
LEMMA MergedReady ==
  ASSUME NEW p \in SenderState, NEW m \in Nat, WireIs(p, m), NEW all \in WholeBunch,
         NEW data, NewMessage(data, m), NEW merged \in BOOLEAN, merged,
         p.SendBuffer # << >>, p.AllowMerge, Last(p.SendBuffer) \in Bunch,
         all.bReliable <=> Last(p.SendBuffer).bReliable,
         all.Data = Last(p.SendBuffer).Data \o data, Len(all.Data) <= MaxSingleBunchSize,
         all.bReliable => p.numbered # << >> /\ p.OutRec # << >>
  PROVE  Readied(p, all, merged, m, PopLastStart(p)) /\ OnlyNew(p, data, all)
<1> DEFINE n == m + 1
           b == PopLastStart(p)
           last == Last(p.SendBuffer)
           id0 == Len(p.network) + 1
           l == Len(p.SendBuffer)
<1>1. n \in Nat /\ m <= n
  OBVIOUS
<1>2. /\ data \in Seq(Unit) /\ Whole(data) /\ InOrder(data)
      /\ \A u \in ToSet(data) : u \in Unit /\ u.message = m + 1
      /\ Below(ToSet(data), n)
  BY NewMessageFields
<1>3. last.Data \in Seq(Unit) /\ last.bReliable \in BOOLEAN
  BY BunchFields
<1>4. ToSet(all.Data) = ToSet(last.Data) \cup ToSet(data)
  <2> DEFINE a == last.Data
  <2>1. a \in Seq(Unit)
    BY <1>3
  <2> HIDE DEF a, last
  <2>2. LET x == a \o data IN ToSet(x) = ToSet(a) \cup ToSet(data)
    BY <1>2, <2>1, JoinElements
  <2> QED BY <2>2 DEF a, last
<1>5. Popped(p, b, id0, l)
  BY PoppedPlaces
<1>6. /\ b \in SenderState /\ id0 \in Nat /\ l \in Nat \ {0} /\ Packet(p, id0)[l] = last
      /\ l \in DOMAIN Packet(p, id0)
  BY <1>5 DEF Popped
<1>7. /\ WireRight(b, m)
      /\ \A id, j : UnitsAhead(b, id, j) \subseteq UnitsAhead(p, id, j)
      /\ ~last.bReliable => \A id \in Nat : \A bunch \in InPacket(b, id) :
                              NoLater(ToSet(bunch.Data), ToSet(last.Data))
  <2>1. WireRight(p, m)
    BY DEF WireIs
  <2> QED BY <2>1, WirePopped
<1>8. ~last.bPartial
  BY DEF WireIs, MergesWhole
<1>9. Chained(b, {})
  BY <1>8, ChainPopped DEF WireIs
<1>10. b.numbered = p.numbered /\ b.OutRec = p.OutRec
  BY DEF PopLastStart, SenderState
<1> HIDE DEF b, id0, l
<1>11. last \in InPacket(p, id0)
  BY <1>6, PacketFields
<1>12. Below(ToSet(last.Data), m) /\ (~last.bReliable => DataRight(last) /\ InOrder(last.Data))
  BY <1>6, <1>11 DEF WireIs, WireRight
<1> HIDE DEF last
<1>13. Replacing(all, merged, b)
  BY <1>10 DEF Replacing
<1>14. Below(ToSet(all.Data), n)
  <2>1. Below(ToSet(last.Data), n)
    BY <1>1, <1>12, BelowMore
  <2> QED BY <1>2, <1>4, <2>1 DEF Below
<1>15. NoLater(ToSet(last.Data), ToSet(data))
  BY <1>2, <1>12, BelowNext
<1>16. all.bReliable <=> last.bReliable
  BY DEF last
<1>17. all.Data = last.Data \o data
  BY DEF last
<1>18. ASSUME ~all.bReliable PROVE UnitsRight(all)
  <2>1. Whole(last.Data) /\ InOrder(last.Data)
    BY <1>8, <1>12, <1>16, <1>18 DEF DataRight, last
  <2>2. last.Data \in Stream /\ data \in Stream
    BY <1>2, <1>3, StreamFacts
  <2>3. Whole(all.Data)
    BY <1>2, <1>17, <2>1, <2>2, WholeJoins
  <2>4. InOrder(all.Data)
    BY <1>2, <1>3, <1>15, <1>17, <2>1, OrderedJoin
  <2>5. all.Data \in Seq(Unit)
    BY DEF WholeBunch
  <2>6. Len(Split(all.Data)) = 1
    BY <2>5, SplitFacts DEF SplitRight
  <2> QED BY <2>3, <2>4, <2>6 DEF UnitsRight
<1>19. ASSUME ~all.bReliable, NEW id \in Nat, NEW w \in InPacket(b, id)
       PROVE  NoLater(ToSet(w.Data), ToSet(all.Data))
  <2>1. NoLater(ToSet(w.Data), ToSet(last.Data))
    BY <1>7, <1>16, <1>19
  <2>2. NoLater(ToSet(w.Data), ToSet(data))
    <3>1. Below(ToSet(w.Data), m)
      BY <1>7, <1>19 DEF WireRight
    <3> QED BY <1>2, <3>1, BelowNext
  <2> QED BY <1>4, <2>1, <2>2 DEF NoLater
<1>20. WireRight(b, n)
  BY <1>1, <1>7, WireMore
<1>21. MayWrite(b, all, merged, n)
  BY <1>9, <1>13, <1>14, <1>18, <1>19, <1>20 DEF MayWrite
<1>22. Readied(p, all, merged, m, b)
  BY <1>6, <1>7, <1>21 DEF Readied, n
<1>23. ASSUME ~all.bReliable, NEW u \in Nat, u <= Len(p.network)
       PROVE  ToSet(last.Data) \subseteq UnitsAhead(p, u + 1, 0)
  <2>1. SUFFICES ASSUME NEW e \in ToSet(last.Data) PROVE e \in UnitsAhead(p, u + 1, 0)
    OBVIOUS
  <2>2. IsAhead(u + 1, 0, id0, l)
    <3>1. Len(p.network) \in Nat
      BY SenderFields
    <3> QED BY <1>6, <1>23, <3>1 DEF IsAhead, id0
  <2> QED BY <1>6, <1>16, <1>23, <2>1, <2>2, UnitsAheadAre
<1>24. OnlyNew(p, data, all)
  BY <1>4, <1>23 DEF OnlyNew
<1> QED BY <1>22, <1>24 DEF b

\* A message is sent on the wire.
WireSent(s, message, m, y) ==
  /\ y \in SenderState /\ WireIs(y, m + 1)
  /\ \/ /\ y.sent = s.sent \o Carried(message.Data, message.bClose)
        /\ \A u \in Nat : u <= Len(s.network) =>
             UnitsAhead(y, u + 1, 0) \subseteq UnitsAhead(s, u + 1, 0)
     \/ /\ y.sent = s.sent
        /\ \A u \in Nat : u <= Len(s.network) =>
             UnitsAhead(y, u + 1, 0) \subseteq UnitsAhead(s, u + 1, 0) \cup ToSet(message.Data)
  /\ \/ y.bPausedUntilReliableACK
     \/ ~s.bPausedUntilReliableACK /\ (y.sent = s.sent \/ message.bReliable)

\* The connection before the pieces.
Base(p, merged) == IF merged THEN PopLastStart(p) ELSE p

\* SendBunch is ready to write, merged or not.
LEMMA BaseReady ==
  ASSUME NEW s, NEW t \in Nat, MaySend(s, t), NEW message, Message(s, message),
         NEW m \in Nat, WireIs(s, m), NewMessage(message.Data, m), NEW merge,
         NEW merged \in BOOLEAN, NEW all \in WholeBunch, NEW p \in SenderState, NEW y,
         SentAs(s, message, merge, merged, all, p, y)
  PROVE  /\ Readied(p, all, merged, m, Base(p, merged)) /\ OnlyNew(p, message.Data, all)
         /\ \A id, j : UnitsAhead(p, id, j) = UnitsAhead(s, id, j)
         /\ p.network = s.network
<1>1. s \in SenderState /\ SenderRight(s, t) /\ t <= Len(s.network)
  BY DEF MaySend
<1>2. /\ Prepared(s, p) /\ p.SendBuffer = s.SendBuffer
      /\ IF merged
         THEN LET last == Last(s.SendBuffer)
              IN  /\ s.SendBuffer # << >> /\ s.AllowMerge /\ last \in Bunch
                  /\ last.bReliable = message.bReliable /\ all.bReliable = message.bReliable
                  /\ all.Data = last.Data \o message.Data /\ Len(all.Data) <= MaxSingleBunchSize
         ELSE all.Data = message.Data
  BY DEF SentAs
<1>3. p.AllowMerge = s.AllowMerge /\ p.network = s.network /\ p.numbered = s.numbered
      /\ p.OutRec = s.OutRec
  BY <1>2 DEF Prepared
<1>4. WireIs(p, m) /\ \A id, j : UnitsAhead(p, id, j) = UnitsAhead(s, id, j)
  BY <1>1, <1>2, <1>3, SamePrepared
<1>5. CASE ~merged
  <2>1. all.Data = message.Data
    BY <1>2, <1>5
  <2>2. Readied(p, all, merged, m, p) /\ OnlyNew(p, all.Data, all)
    BY <1>4, <1>5, <2>1, FreshReady
  <2> QED BY <1>3, <1>4, <1>5, <2>1, <2>2 DEF Base
<1>6. CASE merged
  <2>1. /\ p.SendBuffer # << >> /\ p.AllowMerge /\ Last(p.SendBuffer) \in Bunch
        /\ all.bReliable <=> Last(p.SendBuffer).bReliable
        /\ all.Data = Last(p.SendBuffer).Data \o message.Data
        /\ Len(all.Data) <= MaxSingleBunchSize
    BY <1>2, <1>3, <1>6
  <2>2. all.bReliable => p.numbered # << >> /\ p.OutRec # << >>
    <3>1. SendingRight(s, t) /\ MergesRight(s)
      BY <1>1 DEF SenderRight
    <3>2. all.bReliable => Mergeable(s)
      BY <1>2, <1>3, <2>1 DEF Mergeable
    <3>3. Mergeable(s) => s.OutRec # << >> /\ s.numbered # << >>
      BY <1>1, <3>1, LastWritten
    <3> QED BY <1>3, <3>2, <3>3
  <2>3. Readied(p, all, merged, m, PopLastStart(p)) /\ OnlyNew(p, message.Data, all)
    BY <1>4, <1>6, <2>1, <2>2, MergedReady
  <2> QED BY <1>3, <1>4, <1>6, <2>3 DEF Base
<1> QED BY <1>5, <1>6

\* SendBunch, every branch of it, leaves the packets right.
LEMMA BunchOnWire ==
  ASSUME NEW s, NEW t \in Nat, MaySend(s, t), NEW message, Message(s, message),
         NEW m \in Nat, WireIs(s, m), NewMessage(message.Data, m), NEW merge \in BOOLEAN,
         NEW merged \in BOOLEAN, NEW all \in WholeBunch, NEW p \in SenderState, NEW y,
         SentAs(s, message, merge, merged, all, p, y)
  PROVE  WireSent(s, message, m, y)
<1> DEFINE b == Base(p, merged)
           n == m + 1
<1>1. /\ Readied(p, all, merged, m, b) /\ OnlyNew(p, message.Data, all)
      /\ \A id, j : UnitsAhead(p, id, j) = UnitsAhead(s, id, j)
      /\ p.network = s.network
  BY BaseReady
<1>2. /\ y = AfterPieces(b, all, merged, merge)[Len(Split(all.Data))]
      /\ p.sent = IF all.bReliable THEN s.sent \o Carried(message.Data, message.bClose) ELSE s.sent
      /\ message.bReliable => all.bReliable
      /\ s.bPausedUntilReliableACK \/ (all.bReliable /\ ~message.bReliable) =>
           p.bPausedUntilReliableACK
  BY DEF SentAs, Base
<1>3. b.sent = p.sent /\ b.bPausedUntilReliableACK = p.bPausedUntilReliableACK
  BY DEF Base, PopLastStart, SenderState
<1> HIDE DEF b
<1>4. /\ b \in SenderState /\ MayWrite(b, all, merged, n)
      /\ \A id, j : UnitsAhead(b, id, j) \subseteq UnitsAhead(p, id, j)
  BY <1>1 DEF Readied
<1> HIDE DEF n
<1>5. Written(b, all, n, y)
  BY <1>2, <1>4, AllWritten
<1>6. /\ y \in SenderState /\ WireIs(y, n) /\ y.sent = p.sent
      /\ y.bPausedUntilReliableACK = p.bPausedUntilReliableACK
      /\ \A id, j : UnitsAhead(y, id, j) \subseteq UnitsAhead(b, id, j) \cup NewUnits(all)
  BY <1>3, <1>5 DEF Written, WireIs
<1>7. CASE all.bReliable
  <2>1. y.sent = s.sent \o Carried(message.Data, message.bClose)
    BY <1>2, <1>6, <1>7
  <2>2. \A id, j : UnitsAhead(y, id, j) \subseteq UnitsAhead(s, id, j)
    BY <1>1, <1>4, <1>6, <1>7 DEF NewUnits
  <2>3. y.bPausedUntilReliableACK \/ (~s.bPausedUntilReliableACK /\ message.bReliable)
    BY <1>2, <1>6, <1>7
  <2> QED BY <1>6, <2>1, <2>2, <2>3 DEF WireSent, n
<1>8. CASE ~all.bReliable
  <2>1. y.sent = s.sent
    BY <1>2, <1>6, <1>8
  <2>2. ASSUME NEW u \in Nat, u <= Len(s.network)
        PROVE  UnitsAhead(y, u + 1, 0) \subseteq UnitsAhead(s, u + 1, 0) \cup ToSet(message.Data)
    <3> DEFINE v == u + 1
    <3>1. ToSet(all.Data) \subseteq UnitsAhead(p, v, 0) \cup ToSet(message.Data)
      BY <1>1, <1>8, <2>2 DEF OnlyNew
    <3> HIDE DEF v
    <3>2. UnitsAhead(y, v, 0) \subseteq UnitsAhead(p, v, 0) \cup ToSet(all.Data)
      BY <1>4, <1>6, <1>8 DEF NewUnits
    <3>3. UnitsAhead(p, v, 0) = UnitsAhead(s, v, 0)
      BY <1>1
    <3> QED BY <3>1, <3>2, <3>3 DEF v
  <2>3. y.bPausedUntilReliableACK \/ ~s.bPausedUntilReliableACK
    BY <1>2, <1>6
  <2> QED BY <1>6, <2>1, <2>2, <2>3 DEF WireSent, n
<1> QED BY <1>7, <1>8

\* What a message adds to what was sent.
LEMMA CarriedFields ==
  ASSUME NEW data, NEW m \in Nat, NewMessage(data, m), NEW bClose \in BOOLEAN
  PROVE  /\ Carried(data, bClose) \in Stream /\ Whole(Carried(data, bClose))
         /\ InOrder(Carried(data, bClose))
         /\ \A k \in DOMAIN Carried(data, bClose) : IsUpdate(Carried(data, bClose)[k]) =>
              /\ Carried(data, bClose)[k] \in ToSet(data)
              /\ Carried(data, bClose)[k].message = m + 1
<1> DEFINE d == Carried(data, bClose)
           n == m + 1
<1>0. n \in Nat
  OBVIOUS
<1>1. /\ data \in Seq(Unit) /\ Whole(data) /\ \A u \in ToSet(data) : u.message = n
  BY NewMessageFields
<1> HIDE DEF n
<1>2. d \in Stream /\ Whole(d)
  BY <1>1, StreamFacts, CloseIsWhole
<1>3. ASSUME NEW k \in DOMAIN d, IsUpdate(d[k])
      PROVE  d[k] \in ToSet(data) /\ d[k].message = n
  <2>1. CASE ~bClose
    <3>1. d[k] \in ToSet(data)
      BY <1>3, <2>1 DEF Carried, ToSet
    <3> QED BY <1>1, <3>1
  <2>2. CASE bClose
    <3>1. d = Append(data, CloseMark)
      BY <2>2 DEF Carried
    <3>2. \A j \in DOMAIN Append(data, CloseMark) :
            Append(data, CloseMark)[j] = CloseMark \/ Append(data, CloseMark)[j] \in ToSet(data)
      BY <1>1 DEF ToSet
    <3>3. d[k] # CloseMark
      BY <1>3, CloseIsNoUnit DEF IsUpdate
    <3>4. d[k] \in ToSet(data)
      BY <1>3, <3>1, <3>2, <3>3
    <3> QED BY <1>1, <3>4
  <2> QED BY <2>1, <2>2
<1> HIDE DEF d
<1>4. InOrder(d)
  BY <1>0, <1>3, AlikeInOrder
<1> QED BY <1>2, <1>3, <1>4 DEF d, n

\* What was sent, with the message.
SentRight(x, m) == x \in Stream /\ Whole(x) /\ InOrder(x) /\ Below(ToSet(x), m)

\* What was sent stays whole and in order with a message more.
LEMMA SentMoreRight ==
  ASSUME NEW x, NEW m \in Nat, SentRight(x, m), NEW data, NewMessage(data, m),
         NEW bClose \in BOOLEAN
  PROVE  SentRight(x \o Carried(data, bClose), m + 1)
<1> DEFINE d == Carried(data, bClose)
           n == m + 1
           y == x \o d
<1>1. n \in Nat /\ m <= n
  OBVIOUS
<1>2. /\ d \in Stream /\ Whole(d) /\ InOrder(d)
      /\ \A k \in DOMAIN d : IsUpdate(d[k]) => d[k].message = m + 1
  BY CarriedFields
<1>3. x \in Stream /\ Whole(x) /\ InOrder(x) /\ Below(ToSet(x), m)
  BY DEF SentRight
<1> HIDE DEF d
<1>4. y \in Stream /\ Whole(y)
  BY <1>2, <1>3, WholeJoins, StreamFacts
<1>5. \A u \in ToSet(d) : IsUpdate(u) => u.message = m + 1
  BY <1>2 DEF ToSet
<1>6. NoLater(ToSet(x), ToSet(d))
  BY <1>3, <1>5, BelowNext
<1>7. InOrder(y)
  <2>1. x \in Seq(Unit \cup {CloseMark}) /\ d \in Seq(Unit \cup {CloseMark})
    BY <1>2, <1>3 DEF Stream
  <2> QED BY <1>2, <1>3, <1>6, <2>1, OrderedJoin
<1>8. ToSet(y) = ToSet(x) \cup ToSet(d)
  <2>1. LET z == x \o d IN ToSet(z) = ToSet(x) \cup ToSet(d)
    BY <1>2, <1>3, StreamJoin
  <2> QED BY <2>1
<1> HIDE DEF y
<1>9. Below(ToSet(x), n)
  BY <1>1, <1>3, BelowMore
<1>10. Below(ToSet(d), n)
  <2>1. \A u \in ToSet(d) : IsUpdate(u) => u.message = n
    BY <1>5
  <2> QED BY <1>1, <2>1 DEF Below
<1>11. SentRight(y, n)
  BY <1>4, <1>7, <1>8, <1>9, <1>10 DEF SentRight, Below
<1> QED BY <1>11 DEF y, d, n

\* The numbers before those of the message are as they were.
LEMMA EarlierNumbers ==
  ASSUME NEW s \in SenderState, NEW y \in SenderState, Extends(s, y), NewParts(s, y),
         NEW k \in 0 .. Count(y), k # Count(y), ~InMessage(y, k)
  PROVE  k \in 0 .. Count(s) /\ Upto(y, k) = Upto(s, k) /\ ~InMessage(s, k)
<1>1. Count(s) \in Nat /\ Count(y) \in Nat
  BY SenderLengths DEF Count
<1>2. /\ \A n \in 1 .. Count(s) : n # Count(s) \/ ~Mergeable(s) => y.numbered[n] = s.numbered[n]
      /\ Count(s) <= Count(y)
      /\ \A n \in Count(s) + 1 .. Count(y) - 1 : InMessage(y, n)
      /\ Count(y) # Count(s) => \A n \in 1 .. Count(s) : y.numbered[n] = s.numbered[n]
  BY DEF Extends, NewParts
<1>3. k \in 0 .. Count(s)
  BY <1>1, <1>2
<1>4. k # 0 => y.numbered[k] = s.numbered[k]
  BY <1>1, <1>2, <1>3
<1> QED BY <1>3, <1>4 DEF Upto, InMessage, Numbered

\* What is released is as it was.
LEMMA ReleasedStays ==
  ASSUME NEW s, NEW t \in Nat, SenderRight(s, t), t <= Len(s.network), NEW y, Extends(s, y),
         NEW k \in 0 .. Released(s)
  PROVE  Upto(y, k) = Upto(s, k) /\ (InMessage(y, k) <=> InMessage(s, k))
<1>1. s \in SenderState /\ SendingRight(s, t) /\ MergesRight(s) /\ NumbersRight(s)
  BY DEF SenderRight, SendingRight
<1>2. Released(s) \in Nat /\ Count(s) \in Nat /\ Released(s) <= Count(s)
  BY <1>1, Counts DEF NumbersRight
<1>3. Mergeable(s) => Released(s) # Count(s)
  <2>1. Mergeable(s) => Len(s.OutRec) \in Nat \ {0} /\ Count(s) = Released(s) + Len(s.OutRec)
    BY <1>1, LastWritten
  <2> QED BY <1>2, <2>1
<1>4. k # 0 => y.numbered[k] = s.numbered[k]
  BY <1>2, <1>3 DEF Extends
<1> QED BY <1>4 DEF Upto, InMessage, Numbered

\* A message that is no update leaves the updates settled.
LEMMA StillSettled ==
  ASSUME NEW s, NEW t \in Nat, SenderRight(s, t), t <= Len(s.network), NEW y, Extends(s, y),
         Settled(s), NEW d \in Stream, y.sent = s.sent \o d,
         \A k \in DOMAIN d : ~IsUpdate(d[k])
  PROVE  Settled(y)
<1>1. s.sent \in Stream /\ Released(y) = Released(s)
  BY SenderFields DEF SenderRight, SendingRight, Extends
<1>2. SUFFICES ASSUME NEW n \in DOMAIN y.sent, IsUpdate(y.sent[n])
               PROVE  \E k \in 0 .. Released(y) : ~InMessage(y, k) /\ n <= Len(Upto(y, k))
  BY DEF Settled
<1>3. n \in DOMAIN s.sent /\ y.sent[n] = s.sent[n]
  <2> DEFINE a == s.sent
             l == Len(a)
  <2>1. a \in Stream
    BY <1>1
  <2> HIDE DEF a
  <2>2. LET x == a \o d
        IN  /\ Len(a) \in Nat /\ Len(d) \in Nat /\ DOMAIN x = 1 .. Len(a) + Len(d)
            /\ DOMAIN a = 1 .. Len(a) /\ DOMAIN d = 1 .. Len(d)
            /\ \A k \in 1 .. Len(a) : x[k] = a[k]
            /\ \A k \in 1 .. Len(d) : x[Len(a) + k] = d[k]
    BY <2>1, StreamJoin
  <2>3. y.sent = a \o d
    BY DEF a
  <2> DEFINE x == a \o d
  <2>4. n \in DOMAIN x /\ IsUpdate(x[n])
    BY <1>2, <2>3
  <2>5. /\ l \in Nat /\ Len(d) \in Nat /\ DOMAIN x = 1 .. l + Len(d)
        /\ DOMAIN a = 1 .. l /\ DOMAIN d = 1 .. Len(d)
        /\ \A k \in 1 .. l : x[k] = a[k]
        /\ \A k \in 1 .. Len(d) : x[l + k] = d[k]
    BY <2>2
  <2> HIDE DEF x, l
  <2>6. n \in 1 .. l
    <3>1. SUFFICES ASSUME n \notin 1 .. l PROVE FALSE
      OBVIOUS
    <3>2. n - l \in 1 .. Len(d) /\ n = l + (n - l)
      BY <2>4, <2>5, <3>1
    <3>3. x[n] = d[n - l]
      BY <2>5, <3>2
    <3> QED BY <2>4, <2>5, <3>2, <3>3
  <2>7. n \in DOMAIN a /\ x[n] = a[n]
    BY <2>5, <2>6
  <2> QED BY <2>3, <2>7 DEF a, x
<1>4. PICK k \in 0 .. Released(s) : ~InMessage(s, k) /\ n <= Len(Upto(s, k))
  BY <1>2, <1>3 DEF Settled
<1>5. Upto(y, k) = Upto(s, k) /\ (InMessage(y, k) <=> InMessage(s, k))
  BY ReleasedStays
<1> QED BY <1>1, <1>4, <1>5

\* All that was sent reliably is whole and in order.
LEMMA SentIsRight ==
  ASSUME NEW s, NEW t, SenderRight(s, t), NEW m, MessagesRight(s, m)
  PROVE  SentRight(s.sent, m)
<1>1. /\ s \in SenderState /\ NumbersRight(s) /\ ~InMessage(s, Count(s))
      /\ s.sent = Upto(s, Count(s))
  BY DEF SenderRight, SendingRight
<1>2. Count(s) \in 0 .. Count(s)
  BY <1>1, SenderLengths DEF Count
<1>3. /\ \A k \in 0 .. Count(s) : ~InMessage(s, k) => Whole(Upto(s, k))
      /\ InOrder(s.sent) /\ Below(ToSet(s.sent), m)
  BY DEF MessagesRight
<1>4. Whole(s.sent)
  BY <1>1, <1>2, <1>3
<1> QED BY <1>1, <1>3, <1>4, SenderFields DEF SentRight

\* An unreliable message adds nothing to the stream.
LEMMA NothingIsAdded ==
  ASSUME NEW x \in Stream
  PROVE  x = x \o << >> /\ << >> \in Stream
BY DEF Stream

\* SendBunch keeps the sender's messages right.
LEMMA MessagesSent ==
  ASSUME NEW s, NEW t \in Nat, MaySend(s, t), NEW message, Message(s, message),
         NEW m \in Nat, MessagesRight(s, m), NewMessage(message.Data, m),
         message.bReliable => \A u \in ToSet(message.Data) : ~IsUpdate(u),
         NEW y, WireSent(s, message, m, y), SenderRight(y, t), Extends(s, y), NewParts(s, y)
  PROVE  MessagesRight(y, m + 1)
<1> DEFINE n == m + 1
           d == Carried(message.Data, message.bClose)
<1>1. s \in SenderState /\ SenderRight(s, t) /\ t <= Len(s.network)
  BY DEF MaySend
<1>2. SentRight(s.sent, m)
  BY <1>1, SentIsRight
<1>3. /\ y \in SenderState /\ WireIs(y, n)
      /\ y.sent = s.sent \o d \/ y.sent = s.sent
      /\ \/ y.bPausedUntilReliableACK
         \/ ~s.bPausedUntilReliableACK /\ (y.sent = s.sent \/ message.bReliable)
  BY DEF WireSent
<1>4. n \in Nat /\ m <= n /\ message.bClose \in BOOLEAN
  BY DEF Message
<1>5. SentRight(s.sent \o d, n)
  BY <1>2, <1>4, SentMoreRight
<1>6. SentRight(y.sent, n)
  <2>1. CASE y.sent = s.sent \o d
    BY <1>5, <2>1
  <2>2. CASE y.sent = s.sent
    <3>1. Below(ToSet(s.sent), n)
      BY <1>2, <1>4, BelowMore DEF SentRight
    <3> QED BY <1>2, <2>2, <3>1 DEF SentRight
  <2> QED BY <1>3, <2>1, <2>2
<1>7. ASSUME NEW k \in 0 .. Count(y), ~InMessage(y, k)
      PROVE  Whole(Upto(y, k))
  <2>1. CASE k = Count(y)
    <3>1. Upto(y, k) = y.sent
      BY <2>1 DEF SenderRight
    <3> QED BY <1>6, <3>1 DEF SentRight
  <2>2. CASE k # Count(y)
    <3>1. k \in 0 .. Count(s) /\ Upto(y, k) = Upto(s, k) /\ ~InMessage(s, k)
      BY <1>1, <1>3, <1>7, <2>2, EarlierNumbers
    <3> QED BY <3>1 DEF MessagesRight
  <2> QED BY <2>1, <2>2
<1>8. \A k \in DOMAIN d : IsUpdate(d[k]) => d[k] \in ToSet(message.Data)
  BY <1>4, CarriedFields
<1>9. d \in Stream
  BY <1>4, CarriedFields
<1> HIDE DEF d, n
<1>10. ASSUME ~y.bPausedUntilReliableACK PROVE Settled(y)
  <2>1. Settled(s)
    BY <1>3, <1>10 DEF MessagesRight
  <2>2. CASE y.sent = s.sent
    <3> DEFINE e == << >>
    <3>1. s.sent = s.sent \o e /\ e \in Stream
      BY <1>2, NothingIsAdded DEF SentRight
    <3>2. \A k \in DOMAIN e : ~IsUpdate(e[k])
      OBVIOUS
    <3>3. y.sent = s.sent \o e
      BY <2>2, <3>1
    <3> HIDE DEF e
    <3> QED BY <1>1, <2>1, <3>1, <3>2, <3>3, StillSettled
  <2>3. CASE y.sent # s.sent
    <3>1. y.sent = s.sent \o d /\ message.bReliable
      BY <1>3, <1>10, <2>3
    <3>2. \A k \in DOMAIN d : ~IsUpdate(d[k])
      BY <1>8, <3>1
    <3> QED BY <1>1, <1>9, <2>1, <3>1, <3>2, StillSettled
  <2> QED BY <2>2, <2>3
<1>11. MessagesRight(y, n)
  BY <1>3, <1>6, <1>7, <1>10 DEF MessagesRight, WireIs, SentRight
<1> QED BY <1>11 DEF n

\* What is right of the messages depends on the packets and the numbers.
LEMMA MessagesSame ==
  ASSUME NEW x \in SenderState, NEW y \in SenderState, NEW m, MessagesRight(x, m),
         PacketsAlike(x, y), \A n \in DOMAIN y.network : y.network[n] # << >>,
         MergesWhole(y), y.numbered = x.numbered, y.sent = x.sent,
         y.bPausedUntilReliableACK \/ Settled(y)
  PROVE  MessagesRight(y, m) /\ \A id, j : UnitsAhead(y, id, j) = UnitsAhead(x, id, j)
<1>1. /\ WireRight(x, m) /\ Chained(x, {})
      /\ \A k \in 0 .. Count(x) : ~InMessage(x, k) => Whole(Upto(x, k))
      /\ InOrder(x.sent) /\ Below(ToSet(x.sent), m)
  BY DEF MessagesRight
<1>2. /\ WireRight(y, m) /\ Chained(y, {})
      /\ \A id, j : UnitsAhead(y, id, j) = UnitsAhead(x, id, j)
  BY <1>1, AlikePackets
<1>3. /\ Count(y) = Count(x) /\ \A k : Upto(y, k) = Upto(x, k)
      /\ \A k : InMessage(y, k) = InMessage(x, k)
  BY DEF Count, Upto, InMessage, Numbered
<1> QED BY <1>1, <1>2, <1>3 DEF MessagesRight

\* The packets of a sender whose messages are right.
LEMMA WireOf ==
  ASSUME NEW s, NEW m, MessagesRight(s, m)
  PROVE  WireIs(s, m) /\ \A n \in DOMAIN s.network : s.network[n] # << >>
BY DEF MessagesRight, WireIs, WireRight

\* SettledSame: with the same numbers, and no less released.
LEMMA SettledSame ==
  ASSUME NEW x \in SenderState, NEW y \in SenderState, Settled(x), y.numbered = x.numbered,
         y.sent = x.sent, Released(x) \in Nat, Released(y) \in Nat, Released(x) <= Released(y)
  PROVE  Settled(y)
<1>1. SUFFICES ASSUME NEW n \in DOMAIN y.sent, IsUpdate(y.sent[n])
               PROVE  \E k \in 0 .. Released(y) : ~InMessage(y, k) /\ n <= Len(Upto(y, k))
  BY DEF Settled
<1>2. PICK k \in 0 .. Released(x) : ~InMessage(x, k) /\ n <= Len(Upto(x, k))
  BY <1>1 DEF Settled
<1>3. k \in 0 .. Released(y)
  OBVIOUS
<1>4. Upto(y, k) = Upto(x, k) /\ InMessage(y, k) = InMessage(x, k)
  BY DEF Upto, InMessage, Numbered
<1> QED BY <1>2, <1>3, <1>4

\* The messages are right under a higher bound.
LEMMA MessagesMore ==
  ASSUME NEW s, NEW m \in Nat, NEW n \in Nat, m <= n, MessagesRight(s, m)
  PROVE  MessagesRight(s, n)
<1>1. WireRight(s, n)
  BY WireMore DEF MessagesRight
<1>2. Below(ToSet(s.sent), n)
  BY BelowMore DEF MessagesRight
<1> QED BY <1>1, <1>2 DEF MessagesRight

-----------------------------------------------------------------------------
(* The numbers and what was sent                                           *)

\* The updates of a bunch are in its data.
LEMMA CarriedSet ==
  ASSUME NEW data \in Seq(Unit), NEW bClose \in BOOLEAN
  PROVE  /\ ToSet(data) \subseteq ToSet(Carried(data, bClose))
         /\ \A u \in ToSet(Carried(data, bClose)) : IsUpdate(u) => u \in ToSet(data)
<1>1. CASE bClose
  <2>1. data \in Stream /\ CloseMark \in Unit \cup {CloseMark}
    BY StreamFacts
  <2>2. ToSet(Append(data, CloseMark)) = ToSet(data) \cup {CloseMark}
    BY <2>1, Appended DEF Stream
  <2> QED BY <1>1, <2>2, CloseIsNoUnit DEF Carried, IsUpdate
<1>2. CASE ~bClose
  BY <1>2 DEF Carried
<1> QED BY <1>1, <1>2

\* Number k and those before it.
LEMMA NumberAdds ==
  ASSUME NEW s \in SenderState, NumbersRight(s), NEW k \in 1 .. Count(s)
  PROVE  LET bunch == Numbered(s, k)
         IN  /\ bunch \in Bunch /\ bunch.bClose \in BOOLEAN /\ bunch.Data \in Seq(Unit)
             /\ bunch.bReliable /\ Carried(bunch.Data, bunch.bClose) \in Stream
             /\ Upto(s, k - 1) \in Stream /\ Upto(s, k) \in Stream
             /\ Upto(s, k) = Upto(s, k - 1) \o Carried(bunch.Data, bunch.bClose)
<1> DEFINE bunch == Numbered(s, k)
<1>1. NumberRight(s, k) /\ bunch \in Bunch /\ Upto(s, k) = s.numbered[k].upto
  BY NumberedFields DEF NumbersRight
<1>2. bunch.bClose \in BOOLEAN /\ bunch.Data \in Seq(Unit)
  BY <1>1, BunchFields
<1>3. Carried(bunch.Data, bunch.bClose) \in Stream
  BY <1>2, StreamFacts
<1>4. bunch.bReliable /\ Upto(s, k) = Upto(s, k - 1) \o Carried(bunch.Data, bunch.bClose)
  BY <1>1 DEF NumberRight
<1>5. k \in 0 .. Count(s) /\ k - 1 \in 0 .. Count(s)
  BY SenderLengths DEF Count
<1>6. Upto(s, k - 1) \in Stream /\ Upto(s, k) \in Stream
  BY <1>5, UptoType
<1> QED BY <1>1, <1>2, <1>3, <1>4, <1>6

\* What a beginning has, the whole has.
LEMMA PartSet ==
  ASSUME NEW a \in Stream, NEW b \in Stream, IsPart(a, b)
  PROVE  ToSet(a) \subseteq ToSet(b) /\ Len(a) <= Len(b)
<1>1. PICK more \in Stream : b = a \o more
  BY DEF IsPart
<1>2. Len(more) \in Nat /\ Len(a) \in Nat /\ Len(a \o more) = Len(a) + Len(more)
      /\ ToSet(a \o more) = ToSet(a) \cup ToSet(more)
  BY StreamJoin
<1> QED BY <1>1, <1>2

\* What was sent up to a number has the bunches up to it.
LEMMA NumberedInUpto ==
  ASSUME NEW s \in SenderState, NumbersRight(s), NEW last \in 0 .. Count(s), NEW k \in 1 .. last
  PROVE  ToSet(Numbered(s, k).Data) \subseteq ToSet(Upto(s, last))
<1> DEFINE bunch == Numbered(s, k)
           more == Carried(bunch.Data, bunch.bClose)
<1>0. Count(s) \in Nat
  BY SenderLengths DEF Count
<1>1. k \in 1 .. Count(s) /\ k \in 0 .. last
  BY <1>0
<1>2. /\ bunch.bClose \in BOOLEAN /\ bunch.Data \in Seq(Unit)
      /\ more \in Stream /\ Upto(s, k - 1) \in Stream /\ Upto(s, k) \in Stream
      /\ Upto(s, k) = Upto(s, k - 1) \o more
  BY <1>1, NumberAdds
<1>3. ToSet(bunch.Data) \subseteq ToSet(more)
  BY <1>2, CarriedSet
<1>4. ToSet(Upto(s, k - 1) \o more) = ToSet(Upto(s, k - 1)) \cup ToSet(more)
  BY <1>2, StreamJoin
<1>5. IsPart(Upto(s, k), Upto(s, last))
  BY <1>0, <1>1, UptoBetween
<1>6. Upto(s, last) \in Stream
  BY UptoType
<1>7. ToSet(Upto(s, k)) \subseteq ToSet(Upto(s, last))
  BY <1>2, <1>5, <1>6, PartSet
<1> QED BY <1>2, <1>3, <1>4, <1>7

\* An update that was sent is in one of the reliable bunches.
LEMMA UptoFrom ==
  ASSUME NEW s \in SenderState, NumbersRight(s), NEW last \in 0 .. Count(s)
  PROVE  \A u \in ToSet(Upto(s, last)) : IsUpdate(u) =>
           \E k \in 1 .. last : u \in ToSet(Numbered(s, k).Data)
<1> DEFINE From(k) == \A u \in ToSet(Upto(s, k)) : IsUpdate(u) =>
             \E n \in 1 .. k : u \in ToSet(Numbered(s, n).Data)
           S == {k \in 0 .. last : From(k)}
<1>0. Count(s) \in Nat /\ last \in Nat
  BY SenderLengths DEF Count
<1>1. 0 \in S
  <2>1. ToSet(Upto(s, 0)) = {}
    BY DEF Upto, ToSet
  <2> QED BY <1>0, <2>1
<1>2. ASSUME NEW i \in 1 .. last, i - 1 \in S PROVE i \in S
  <2> DEFINE bunch == Numbered(s, i)
             more == Carried(bunch.Data, bunch.bClose)
  <2>1. i \in 1 .. Count(s) /\ i \in 0 .. last
    BY <1>0
  <2>2. /\ bunch.bClose \in BOOLEAN /\ bunch.Data \in Seq(Unit)
        /\ more \in Stream /\ Upto(s, i - 1) \in Stream
        /\ Upto(s, i) = Upto(s, i - 1) \o more
    BY <2>1, NumberAdds
  <2>3. ToSet(Upto(s, i - 1) \o more) = ToSet(Upto(s, i - 1)) \cup ToSet(more)
    BY <2>2, StreamJoin
  <2>4. \A u \in ToSet(more) : IsUpdate(u) => u \in ToSet(bunch.Data)
    BY <2>2, CarriedSet
  <2>5. ASSUME NEW u \in ToSet(Upto(s, i)), IsUpdate(u)
        PROVE  \E n \in 1 .. i : u \in ToSet(Numbered(s, n).Data)
    <3>1. CASE u \in ToSet(Upto(s, i - 1))
      <4>1. PICK n \in 1 .. i - 1 : u \in ToSet(Numbered(s, n).Data)
        BY <1>2, <2>5, <3>1
      <4>2. n \in 1 .. i
        OBVIOUS
      <4> QED BY <4>1, <4>2
    <3>2. CASE u \in ToSet(more)
      <4>1. i \in 1 .. i
        OBVIOUS
      <4> QED BY <2>4, <2>5, <3>2, <4>1
    <3> QED BY <2>2, <2>3, <2>5, <3>1, <3>2
  <2> QED BY <2>1, <2>5
<1> HIDE DEF S
<1>3. last \in S
  BY <1>0, <1>1, <1>2, StepByStep
<1> QED BY <1>3 DEF S

\* What comes after number k, up to the last, is in order and no earlier.
LEMMA UptoInOrder ==
  ASSUME NEW s \in SenderState, NumbersRight(s), InOrder(Upto(s, Count(s))),
         NEW k \in 0 .. Count(s), NEW more \in Stream, IsPart(Upto(s, k) \o more, Upto(s, Count(s)))
  PROVE  InOrder(more) /\ NoLater(ToSet(Upto(s, k)), ToSet(more))
<1> DEFINE a == Upto(s, k)
<1>1. a \in Stream
  BY UptoType
<1>2. PICK rest \in Stream : Upto(s, Count(s)) = (a \o more) \o rest
  BY DEF IsPart
<1> HIDE DEF a
<1>3. a \o more \in Stream
  BY <1>1, StreamFacts
<1>4. InOrder(a \o more)
  BY <1>2, <1>3, OrderedParts DEF Stream
<1>5. InOrder(more) /\ NoLater(ToSet(a), ToSet(more))
  BY <1>1, <1>4, OrderedParts DEF Stream
<1> QED BY <1>5 DEF a

-----------------------------------------------------------------------------
(* The client when the server sends                                        *)

\* NoLater, of smaller sets.
LEMMA NoLaterParts ==
  ASSUME NEW A, NEW B, NEW P, NEW R, NoLater(A, B), P \subseteq A, R \subseteq B
  PROVE  NoLater(P, R)
BY DEF NoLater

\* NoLater, of two sets together.
LEMMA NoLaterJoin ==
  ASSUME NEW A, NEW B, NEW D
  PROVE  /\ NoLater(A, B) /\ NoLater(A, D) => NoLater(A, B \cup D)
         /\ NoLater(A, D) /\ NoLater(B, D) => NoLater(A \cup B, D)
BY DEF NoLater

\* NoLater, of sets without updates.
LEMMA NoneLater ==
  ASSUME NEW A, NEW B, (\A a \in A : ~IsUpdate(a)) \/ (\A b \in B : ~IsUpdate(b))
  PROVE  NoLater(A, B)
BY DEF NoLater

\* Where the stream that was handled ends, in terms of the numbers.
LEMMA EndsKept ==
  ASSUME NEW c, NEW s, NEW y, EndsMessage(c, s), InNumber(c) \in Nat,
         \A k \in 1 .. InNumber(c) : y.numbered[k] = s.numbered[k]
  PROVE  EndsMessage(c, y)
<1>1. PICK k \in 0 .. InNumber(c) :
        /\ ~InMessage(s, k) /\ c.stream = Upto(s, k)
        /\ \A n \in k + 1 .. InNumber(c) : InMessage(s, n)
  BY DEF EndsMessage
<1>2. ASSUME NEW n \in 0 .. InNumber(c)
      PROVE  Upto(y, n) = Upto(s, n) /\ InMessage(y, n) = InMessage(s, n)
  <2>1. CASE n = 0
    BY <2>1 DEF Upto, InMessage
  <2>2. CASE n # 0
    <3>1. n \in 1 .. InNumber(c)
      BY <2>2
    <3> QED BY <3>1 DEF Upto, InMessage, Numbered
  <2> QED BY <2>1, <2>2
<1>3. \A n \in k + 1 .. InNumber(c) : n \in 0 .. InNumber(c)
  OBVIOUS
<1> QED BY <1>1, <1>2, <1>3 DEF EndsMessage

\* No update is pending, once all that were sent reliably are released.
LEMMA NonePending ==
  ASSUME NEW c, NEW s \in SenderState, NumbersRight(s), NEW gap \in {0, 1},
         ClientRight(c, s, gap), EndsMessage(c, s), Settled(s)
  PROVE  \A u \in Pending(c, s) : ~IsUpdate(u)
<1>1. /\ Count(s) \in Nat /\ Released(s) \in 0 .. Count(s) /\ InNumber(c) \in 0 .. Count(s)
      /\ Released(s) <= InNumber(c) /\ c \in ReceiverState
  BY ClientCounts
<1>2. PICK k \in 0 .. InNumber(c) :
        /\ ~InMessage(s, k) /\ c.stream = Upto(s, k)
        /\ \A n \in k + 1 .. InNumber(c) : InMessage(s, n)
  BY DEF EndsMessage
<1>3. SUFFICES ASSUME NEW n \in Len(c.stream) + 1 .. Len(s.sent), IsUpdate(s.sent[n])
               PROVE  FALSE
  BY DEF Pending
<1>4. Len(c.stream) \in Nat /\ s.sent \in Stream
  BY <1>1, ReceiverFields, SenderFields, StreamElements
<1>5. n \in DOMAIN s.sent
  BY <1>4, StreamElements
<1>6. PICK j \in 0 .. Released(s) : ~InMessage(s, j) /\ n <= Len(Upto(s, j))
  BY <1>3, <1>5 DEF Settled
<1>7. j <= k
  <2>1. SUFFICES ASSUME ~(j <= k) PROVE FALSE
    OBVIOUS
  <2>2. j \in k + 1 .. InNumber(c)
    BY <1>1, <2>1
  <2> QED BY <1>2, <1>6, <2>2
<1>8. k \in 0 .. Count(s) /\ j \in 0 .. k /\ j \in 0 .. Count(s)
  BY <1>1, <1>7
<1>9. IsPart(Upto(s, j), Upto(s, k))
  BY <1>1, <1>8, UptoBetween
<1>10. Upto(s, j) \in Stream /\ Upto(s, k) \in Stream
  BY <1>8, UptoType
<1>11. Len(Upto(s, j)) <= Len(Upto(s, k)) /\ Len(Upto(s, j)) \in Nat
  BY <1>9, <1>10, PartSet, StreamElements
<1> QED BY <1>2, <1>4, <1>6, <1>11

\* What is pending when more was sent.
LEMMA PendingMore ==
  ASSUME NEW c, NEW s, NEW y, s.sent \in Stream, NEW d \in Stream, y.sent = s.sent \o d
  PROVE  Pending(c, y) \subseteq Pending(c, s) \cup ToSet(d)
<1> DEFINE a == s.sent
<1>1. a \in Stream
  OBVIOUS
<1> HIDE DEF a
<1>2. LET x == a \o d
      IN  /\ Len(a) \in Nat /\ Len(d) \in Nat /\ Len(x) = Len(a) + Len(d)
          /\ DOMAIN d = 1 .. Len(d) /\ DOMAIN a = 1 .. Len(a)
          /\ \A k \in 1 .. Len(a) : x[k] = a[k]
          /\ \A k \in 1 .. Len(d) : x[Len(a) + k] = d[k]
  BY <1>1, StreamJoin
<1> DEFINE x == a \o d
           l == Len(a)
<1>3. /\ l \in Nat /\ Len(d) \in Nat /\ Len(x) = l + Len(d) /\ DOMAIN d = 1 .. Len(d)
      /\ \A k \in 1 .. l : x[k] = a[k]
      /\ \A k \in 1 .. Len(d) : x[l + k] = d[k]
  BY <1>2
<1>4. y.sent = x
  BY DEF a
<1> HIDE DEF x
<1>5. ASSUME NEW n \in Len(c.stream) + 1 .. Len(x)
      PROVE  x[n] \in {a[i] : i \in Len(c.stream) + 1 .. l} \cup ToSet(d)
  <2> HIDE DEF l
  <2>1. CASE n \in Len(c.stream) + 1 .. l
    <3>1. CASE n \in 1 .. l
      BY <1>3, <2>1, <3>1
    <3>2. CASE n \notin 1 .. l
      <4>1. n \in Int /\ Len(c.stream) \in Int
        BY <1>1, <1>5
      <4> QED BY <1>3, <2>1, <3>2, <4>1
    <3> QED BY <3>1, <3>2
  <2>2. CASE n \notin Len(c.stream) + 1 .. l
    <3>1. n - l \in 1 .. Len(d) /\ n = l + (n - l)
      BY <1>3, <1>5, <2>2
    <3>2. x[n] = d[n - l]
      BY <1>3, <3>1
    <3> QED BY <1>3, <3>1, <3>2 DEF ToSet
  <2> QED BY <2>1, <2>2
<1> QED BY <1>4, <1>5 DEF Pending, a

\* What is handled is as right as before, with more sent by a message: data that is
\* added to what was sent reliably, or a set of units that go unreliably.
LEMMA SeenStays ==
  ASSUME NEW c, NEW s \in SenderState, NEW y, MergeIsUnseen(c, s), Extends(s, y),
         NEW k \in 1 .. Count(s), Has(c, k)
  PROVE  y.numbered[k] = s.numbered[k]
BY DEF MergeIsUnseen, Extends

\* HandledRight, without what it says of each bunch that was handled.
LEMMA HandledInSent ==
  ASSUME NEW c, NEW s, NEW m, NEW A, HandledRight(c, s, m, A)
  PROVE  /\ Below(HandledUnits(c), m) /\ NoLater(HandledUnits(c), A)
         /\ NoLater(HandledUnits(c), Pending(c, s)) /\ NoLater(A, Pending(c, s))
         /\ EndsMessage(c, s)
         /\ \A k \in 1 .. Count(s) : Has(c, k) => NoLater(ToSet(Numbered(s, k).Data), A)
BY DEF HandledRight

\* With the same units ahead, or some of them, or the units of a new message.
Onward(s, m, A, y, B, data, bClose) ==
  \/ y.sent = s.sent \o Carried(data, bClose) /\ B \subseteq A
  \/ /\ y.sent = s.sent /\ B \subseteq A \cup ToSet(data)
     /\ (\A u \in ToSet(data) : ~IsUpdate(u)) \/ Settled(s)

\* What was handled stays right when the server sends more.
LEMMA HandledSent ==
  ASSUME NEW s, NEW t \in Nat, SenderRight(s, t), NEW c, NEW acked, ClientSide(c, s, acked),
         NEW y \in SenderState, NumbersRight(y), Extends(s, y),
         NEW m \in Nat, MessagesRight(s, m), NEW data, NewMessage(data, m),
         NEW bClose \in BOOLEAN, NEW A, Below(A, m), HandledRight(c, s, m, A),
         NEW B, Onward(s, m, A, y, B, data, bClose)
  PROVE  HandledRight(c, y, m + 1, B)
<1> DEFINE d == Carried(data, bClose)
           n == m + 1
           new == ToSet(data)
<1>1. /\ s \in SenderState /\ NumbersRight(s) /\ s.sent = Upto(s, Count(s)) /\ s.sent \in Stream
      /\ ClientRight(c, s, 1) /\ MergeIsUnseen(c, s)
  BY SenderFields DEF SenderRight, SendingRight, ClientSide
<1>2. /\ c \in ReceiverState /\ Count(s) \in Nat /\ InNumber(c) \in 0 .. Count(s)
  BY <1>1, ClientCounts
<1>3. /\ Below(HandledUnits(c), m) /\ NoLater(HandledUnits(c), A)
      /\ NoLater(HandledUnits(c), Pending(c, s)) /\ NoLater(A, Pending(c, s))
      /\ EndsMessage(c, s)
      /\ \A k \in 1 .. Count(s) : Has(c, k) => NoLater(ToSet(Numbered(s, k).Data), A)
  BY HandledInSent
<1>4. /\ data \in Seq(Unit) /\ \A u \in new : u \in Unit /\ u.message = n
  BY NewMessageFields
<1>5. d \in Stream /\ \A u \in ToSet(d) : IsUpdate(u) => u \in new
  BY <1>4, CarriedSet, StreamFacts
<1>6. n \in Nat /\ m <= n
  OBVIOUS
<1>7. \A P : Below(P, m) => NoLater(P, new) /\ NoLater(P, ToSet(d)) /\ Below(P, n)
  <2>1. \A u \in new : IsUpdate(u) => u.message = m + 1
    BY <1>4
  <2>2. \A u \in ToSet(d) : IsUpdate(u) => u.message = m + 1
    BY <1>5, <2>1
  <2> HIDE DEF new, d, n
  <2> QED BY <1>6, <2>1, <2>2, BelowNext, BelowMore
<1>8. Pending(c, y) \subseteq Pending(c, s) \/ Pending(c, y) \subseteq Pending(c, s) \cup ToSet(d)
  <2>1. CASE y.sent = s.sent
    BY <2>1 DEF Pending
  <2>2. CASE y.sent = s.sent \o d
    BY <1>1, <1>5, <2>2, PendingMore
  <2> QED BY <2>1, <2>2 DEF Onward
<1>9. /\ y.sent = s.sent \o d /\ B \subseteq A
      \/ /\ y.sent = s.sent /\ B \subseteq A \cup new
         /\ (\A u \in new : ~IsUpdate(u)) \/ Settled(s)
  BY DEF Onward
<1>10. ASSUME NEW k \in 1 .. Count(s)
       PROVE  Below(ToSet(Numbered(s, k).Data), m)
  <2>1. Count(s) \in 0 .. Count(s)
    BY <1>2
  <2>2. ToSet(Numbered(s, k).Data) \subseteq ToSet(s.sent)
    BY <1>1, <2>1, NumberedInUpto
  <2>3. Below(ToSet(s.sent), m)
    BY DEF MessagesRight
  <2> QED BY <2>2, <2>3 DEF Below
<1> HIDE DEF d, new, n
<1>11. \A P : Below(P, m) /\ NoLater(P, A) => NoLater(P, B)
  BY <1>7, <1>9, NoLaterJoin, NoLaterParts
<1>12. NoLater(HandledUnits(c), B) /\ Below(HandledUnits(c), n)
  BY <1>3, <1>7, <1>11
<1>13. NoLater(HandledUnits(c), Pending(c, y))
  <2>1. NoLater(HandledUnits(c), ToSet(d))
    BY <1>3, <1>7
  <2>2. NoLater(HandledUnits(c), Pending(c, s) \cup ToSet(d))
    BY <1>3, <2>1, NoLaterJoin
  <2>3. Pending(c, y) \subseteq Pending(c, s) \cup ToSet(d)
    BY <1>8
  <2> QED BY <2>2, <2>3, NoLaterParts
<1>14. NoLater(B, Pending(c, y))
  <2>1. CASE y.sent = s.sent \o d /\ B \subseteq A
    <3>1. NoLater(A, Pending(c, s) \cup ToSet(d))
      BY <1>3, <1>7, NoLaterJoin
    <3>2. Pending(c, y) \subseteq Pending(c, s) \cup ToSet(d)
      BY <1>8
    <3> QED BY <2>1, <3>1, <3>2, NoLaterParts
  <2>2. CASE /\ y.sent = s.sent /\ B \subseteq A \cup new
             /\ (\A u \in new : ~IsUpdate(u)) \/ Settled(s)
    <3>1. Pending(c, y) = Pending(c, s)
      BY <2>2 DEF Pending
    <3>2. NoLater(new, Pending(c, s))
      <4>1. CASE \A u \in new : ~IsUpdate(u)
        BY <4>1, NoneLater
      <4>2. CASE Settled(s)
        BY <1>1, <1>3, <4>2, NonePending, NoneLater
      <4> QED BY <2>2, <4>1, <4>2
    <3>3. NoLater(A \cup new, Pending(c, s))
      BY <1>3, <3>2, NoLaterJoin
    <3> QED BY <2>2, <3>1, <3>3, NoLaterParts
  <2> QED BY <1>9, <2>1, <2>2
<1>15. ASSUME NEW k \in 1 .. Count(y), Has(c, k)
       PROVE  NoLater(ToSet(Numbered(y, k).Data), B)
  <2>1. k \in 1 .. Count(s)
    <3>1. k \in Nat
      OBVIOUS
    <3>2. k <= Count(s)
      BY <1>1, <1>15, <3>1, HasUpTo
    <3> QED BY <1>2, <3>1, <3>2
  <2>2. Numbered(y, k) = Numbered(s, k)
    BY <1>1, <1>15, <2>1, SeenStays DEF Numbered
  <2> QED BY <1>3, <1>10, <1>11, <1>15, <2>1, <2>2
<1>16. EndsMessage(c, y)
  <2>1. ASSUME NEW k \in 1 .. InNumber(c) PROVE y.numbered[k] = s.numbered[k]
    <3>1. k \in 1 .. Count(s) /\ Has(c, k)
      BY <1>2 DEF Has
    <3> QED BY <1>1, <3>1, SeenStays
  <2> QED BY <1>2, <1>3, <2>1, EndsKept
<1>17. \A i \in DOMAIN c.received :
       /\ Whole(c.received[i].Data) /\ InOrder(c.received[i].Data)
       /\ \A j \in DOMAIN c.received : i < j =>
            NoLater(ToSet(c.received[i].Data), ToSet(c.received[j].Data))
  BY DEF HandledRight
<1>18. HandledRight(c, y, n, B)
  BY <1>12, <1>13, <1>14, <1>15, <1>16, <1>17 DEF HandledRight
<1> QED BY <1>18 DEF n

\* Or with nothing new.
LEMMA HandledKept ==
  ASSUME NEW c, NEW s, NEW y, NEW m \in Nat, NEW n \in Nat, m <= n, NEW A, NEW B, B \subseteq A,
         HandledRight(c, s, m, A), y.numbered = s.numbered, y.sent = s.sent
  PROVE  HandledRight(c, y, n, B)
<1>1. /\ Count(y) = Count(s) /\ Pending(c, y) = Pending(c, s)
      /\ \A k : Numbered(y, k) = Numbered(s, k)
  BY DEF Count, Pending, Numbered
<1>2. EndsMessage(c, s) => EndsMessage(c, y)
  BY DEF EndsMessage, InMessage, Numbered, Upto
<1>3. Below(HandledUnits(c), n)
  BY BelowMore DEF HandledRight
<1> QED BY <1>1, <1>2, <1>3, NoLaterParts DEF HandledRight

\* The parts of an unreliable message are where they were.
LEMMA UnfinishedKept ==
  ASSUME NEW c, NEW s, NEW y, SentStays(s, y), NEW id, UnfinishedRight(c, s, id, 0)
  PROVE  UnfinishedRight(c, y, id, 0)
<1>1. \A n, j : LastPart(c, s, n, j) => LastPart(c, y, n, j) /\ y.network[n] = s.network[n]
  BY DEF LastPart, SentStays
<1> QED BY <1>1 DEF UnfinishedRight

-----------------------------------------------------------------------------
(* A message is sent, and the client is as right as it was.                *)

\* MInv of a sender and a client that is past the packets up to u.
Agree(s, c, u, m) ==
  /\ MessagesRight(s, m)
  /\ HandledRight(c, s, m, UnitsAhead(s, u + 1, 0))
  /\ UnfinishedRight(c, s, u + 1, 0)

\* The messages ahead are among those that were sent.
LEMMA AheadBelow ==
  ASSUME NEW s \in SenderState, NEW m, WireRight(s, m)
  PROVE  \A id, j : Below(UnitsAhead(s, id, j), m)
<1>1. \A n \in Nat : \A bunch \in InPacket(s, n) : Below(ToSet(bunch.Data), m)
  BY DEF WireRight
<1>2. ASSUME NEW id, NEW j, NEW u \in UnitsAhead(s, id, j), IsUpdate(u)
      PROVE  u.message <= m
  <2>1. PICK n \in Nat : \E k \in DOMAIN Packet(s, n) : u \in ToSet(Packet(s, n)[k].Data)
    BY UnitsAheadAre
  <2>2. PICK k \in DOMAIN Packet(s, n) : u \in ToSet(Packet(s, n)[k].Data)
    BY <2>1
  <2>3. Packet(s, n)[k] \in InPacket(s, n)
    BY PacketFields
  <2> QED BY <1>1, <1>2, <2>2, <2>3 DEF Below
<1> QED BY <1>2 DEF Below

\* Nothing changed that the messages depend on, and no more units are ahead.
Unchanged(s, u, m, y) ==
  /\ y \in SenderState /\ MessagesRight(y, m) /\ y.numbered = s.numbered /\ y.sent = s.sent
  /\ UnitsAhead(y, u + 1, 0) \subseteq UnitsAhead(s, u + 1, 0) /\ SentStays(s, y)

\* A step that leaves what the messages depend on keeps the two sides agreed.
LEMMA UnchangedAgrees ==
  ASSUME NEW s, NEW c, NEW u, NEW m \in Nat, NEW n \in Nat, m <= n, Agree(s, c, u, m),
         NEW y, Unchanged(s, u, m, y)
  PROVE  Agree(y, c, u, n)
<1>1. MessagesRight(y, n)
  BY MessagesMore DEF Unchanged
<1>2. HandledRight(c, y, n, UnitsAhead(y, u + 1, 0))
  BY HandledKept DEF Unchanged, Agree
<1>3. UnfinishedRight(c, y, u + 1, 0)
  BY UnfinishedKept DEF Unchanged, Agree
<1> QED BY <1>1, <1>2, <1>3 DEF Agree

\* With the same packets.
LEMMA SameUnchanged ==
  ASSUME NEW s \in SenderState, NEW y \in SenderState, NEW u, NEW m, MessagesRight(s, m),
         PacketsAlike(s, y), \A n \in DOMAIN y.network : y.network[n] # << >>,
         MergesWhole(y), y.numbered = s.numbered, y.sent = s.sent,
         y.bPausedUntilReliableACK \/ Settled(y), SentStays(s, y)
  PROVE  Unchanged(s, u, m, y)
<1>1. MessagesRight(y, m) /\ \A id, j : UnitsAhead(y, id, j) = UnitsAhead(s, id, j)
  BY MessagesSame
<1> QED BY <1>1 DEF Unchanged

\* All of the packets are the same.
SameBuffers(s, y) ==
  y.network = s.network /\ y.SendBuffer = s.SendBuffer /\ y.AllowMerge = s.AllowMerge

\* A step that leaves the packets and the numbers.
LEMMA BuffersUnchanged ==
  ASSUME NEW s \in SenderState, NEW y \in SenderState, NEW u, NEW m, MessagesRight(s, m),
         SameBuffers(s, y), y.numbered = s.numbered, y.sent = s.sent,
         y.bPausedUntilReliableACK \/ Settled(y)
  PROVE  Unchanged(s, u, m, y)
<1>1. PacketsAlike(s, y)
  BY SamePackets DEF SameBuffers
<1>2. /\ \A n \in DOMAIN s.network : s.network[n] # << >>
      /\ MergesWhole(s)
  BY WireOf DEF WireIs
<1>3. /\ \A n \in DOMAIN y.network : y.network[n] # << >>
      /\ MergesWhole(y)
  BY <1>2 DEF SameBuffers, MergesWhole
<1>4. SentStays(s, y)
  BY SenderLengths DEF SameBuffers, SentStays
<1> QED BY <1>1, <1>3, <1>4, SameUnchanged

\* Giving up the connection in SendBunch.
LEMMA DisconnectedAgrees ==
  ASSUME NEW s \in SenderState, NEW c, NEW u, NEW m \in Nat, Agree(s, c, u, m), NEW no, no = FALSE
  PROVE  Agree([s EXCEPT !.connected = no], c, u, m + 1)
<1> DEFINE y == [s EXCEPT !.connected = no]
<1>1. /\ y \in SenderState /\ y.network = s.network /\ y.SendBuffer = s.SendBuffer
      /\ y.AllowMerge = s.AllowMerge /\ y.numbered = s.numbered /\ y.sent = s.sent
      /\ y.OutRec = s.OutRec /\ y.bPausedUntilReliableACK = s.bPausedUntilReliableACK
  BY DEF SenderState
<1>2. MessagesRight(s, m)
  BY DEF Agree
<1>3. Settled(s) => Settled(y)
  BY <1>1 DEF Settled, Released, Count, InMessage, Numbered, Upto
<1>4. y.bPausedUntilReliableACK \/ Settled(y)
  BY <1>1, <1>2, <1>3 DEF MessagesRight
<1>5. SameBuffers(s, y)
  BY <1>1 DEF SameBuffers
<1> HIDE DEF y
<1>6. Unchanged(s, u, m, y)
  BY <1>1, <1>2, <1>4, <1>5, BuffersUnchanged
<1>7. m + 1 \in Nat /\ m <= m + 1
  OBVIOUS
<1>8. Agree(y, c, u, m + 1)
  BY <1>6, <1>7, UnchangedAgrees
<1> QED BY <1>8 DEF y

\* SendBunch keeps the two sides agreed.
LEMMA SentAgrees ==
  ASSUME NEW s, NEW t \in Nat, MaySend(s, t), NEW c, NEW acked, ClientSide(c, s, acked),
         NEW u \in Nat, u <= Len(s.network), NEW m \in Nat, Agree(s, c, u, m),
         NEW message, Message(s, message), NewMessage(message.Data, m),
         message.bReliable => \A e \in ToSet(message.Data) : ~IsUpdate(e),
         ~message.bReliable => Settled(s),
         NEW y, WireSent(s, message, m, y), SenderRight(y, t), Extends(s, y), NewParts(s, y)
  PROVE  Agree(y, c, u, m + 1)
<1> DEFINE A == UnitsAhead(s, u + 1, 0)
           B == UnitsAhead(y, u + 1, 0)
<1>1. /\ s \in SenderState /\ SenderRight(s, t) /\ y \in SenderState /\ NumbersRight(y)
      /\ MessagesRight(s, m) /\ WireRight(s, m) /\ HandledRight(c, s, m, A)
      /\ UnfinishedRight(c, s, u + 1, 0) /\ SentStays(s, y) /\ message.bClose \in BOOLEAN
  BY DEF MaySend, SenderRight, SendingRight, Agree, MessagesRight, Extends, Message
<1>2. MessagesRight(y, m + 1)
  BY <1>1, MessagesSent
<1>3. Below(A, m)
  BY <1>1, AheadBelow
<1>4. \/ /\ y.sent = s.sent \o Carried(message.Data, message.bClose)
         /\ B \subseteq A
      \/ /\ y.sent = s.sent /\ B \subseteq A \cup ToSet(message.Data)
  BY DEF WireSent
<1>5. (\A e \in ToSet(message.Data) : ~IsUpdate(e)) \/ Settled(s)
  BY DEF Message
<1> DEFINE data == message.Data
           bClose == message.bClose
<1>6. Onward(s, m, A, y, B, data, bClose)
  BY <1>4, <1>5 DEF Onward
<1>7. NewMessage(data, m) /\ bClose \in BOOLEAN
  BY <1>1
<1> HIDE DEF A, B, data, bClose
<1>8. HandledRight(c, y, m + 1, B)
  BY <1>1, <1>3, <1>6, <1>7, HandledSent
<1>9. UnfinishedRight(c, y, u + 1, 0)
  BY <1>1, UnfinishedKept
<1> QED BY <1>2, <1>8, <1>9 DEF Agree, B

\* SendBunch
LEMMA MessageAgrees ==
  ASSUME NEW s, NEW t \in Nat, MaySend(s, t), NEW c, NEW acked, ClientSide(c, s, acked),
         NEW u \in Nat, u <= Len(s.network), NEW m \in Nat, Agree(s, c, u, m),
         NEW message, Message(s, message), NewMessage(message.Data, m),
         message.bReliable => \A e \in ToSet(message.Data) : ~IsUpdate(e),
         ~message.bReliable => Settled(s), NEW merge \in BOOLEAN
  PROVE  Agree(SendBunch(s, message, merge), c, u, m + 1)
<1> DEFINE y == SendBunch(s, message, merge)
           no == FALSE
<1>1. \/ y = [s EXCEPT !.connected = FALSE]
      \/ \E merged \in BOOLEAN, all \in WholeBunch, p \in SenderState :
           SentAs(s, message, merge, merged, all, p, y)
  BY BunchIs
<1>2. BunchDone(s, message, t, y)
  BY BunchSent
<1> HIDE DEF y
<1>3. CASE y = [s EXCEPT !.connected = no]
  <2>1. s \in SenderState /\ no = FALSE
    BY DEF MaySend
  <2> HIDE DEF no
  <2>2. Agree([s EXCEPT !.connected = no], c, u, m + 1)
    BY <2>1, DisconnectedAgrees
  <2>3. Agree(y, c, u, m + 1)
    BY <1>3, <2>2
  <2> QED BY <2>3 DEF y
<1>4. CASE y # [s EXCEPT !.connected = no]
  <2>1. SenderRight(y, t) /\ Extends(s, y) /\ NewParts(s, y)
    BY <1>2, <1>4 DEF BunchDone
  <2>2. PICK merged \in BOOLEAN, all \in WholeBunch, p \in SenderState :
          SentAs(s, message, merge, merged, all, p, y)
    BY <1>1, <1>4
  <2>3. WireIs(s, m)
    BY WireOf DEF Agree
  <2>4. WireSent(s, message, m, y)
    BY <2>2, <2>3, BunchOnWire
  <2>5. Agree(y, c, u, m + 1)
    BY <2>1, <2>4, SentAgrees
  <2> QED BY <2>5 DEF y
<1> QED BY <1>3, <1>4

-----------------------------------------------------------------------------
(* The other things the server does                                        *)

\* Nothing is in flight: all that was sent is released.
LEMMA EmptySettled ==
  ASSUME NEW s \in SenderState, s.OutRec = << >>, ~InMessage(s, Count(s)),
         s.sent = Upto(s, Count(s))
  PROVE  Settled(s)
<1>1. Count(s) \in Nat /\ Released(s) = Count(s)
  BY SenderLengths DEF Count, Released
<1>2. \A n \in DOMAIN s.sent : n <= Len(s.sent)
  BY SenderFields, StreamElements
<1>3. Count(s) \in 0 .. Released(s)
  BY <1>1
<1> QED BY <1>2, <1>3 DEF Settled

\* A step that does nothing.
LEMMA UnchangedItself ==
  ASSUME NEW s \in SenderState, NEW u, NEW m, MessagesRight(s, m)
  PROVE  Unchanged(s, u, m, s)
BY SenderLengths DEF Unchanged, SentStays

\* Steps one after the other.
LEMMA UnchangedTransitive ==
  ASSUME NEW x \in SenderState, NEW y, NEW z, NEW u, NEW m, Unchanged(x, u, m, y),
         Unchanged(y, u, m, z)
  PROVE  Unchanged(x, u, m, z)
<1>1. y \in SenderState /\ z \in SenderState /\ SentStays(x, y) /\ SentStays(y, z)
  BY DEF Unchanged
<1>2. SentStays(x, z)
  BY <1>1, SentStaysTransitive
<1> QED BY <1>2 DEF Unchanged

\* What NewChannel and CleanUp leave of the channel.
LEMMA ResetUnchanged ==
  ASSUME NEW s, NEW t, SenderRight(s, t), NEW u, NEW m, MessagesRight(s, m),
         NEW exists, NEW y, WasReset(s, exists, y)
  PROVE  Unchanged(s, u, m, y)
<1>1. /\ s \in SenderState /\ ~InMessage(s, Count(s)) /\ s.sent = Upto(s, Count(s))
  BY DEF SenderRight, SendingRight
<1>2. /\ y \in SenderState /\ SameBuffers(s, y) /\ y.numbered = s.numbered /\ y.sent = s.sent
      /\ y.OutRec = << >>
  BY DEF WasReset, SameBuffers
<1>3. ~InMessage(y, Count(y)) /\ y.sent = Upto(y, Count(y))
  BY <1>1, <1>2 DEF Count, InMessage, Numbered, Upto
<1>4. Settled(y)
  BY <1>2, <1>3, EmptySettled
<1> QED BY <1>1, <1>2, <1>4, BuffersUnchanged

\* FlushNet.
LEMMA FlushUnchanged ==
  ASSUME NEW s, NEW t, SenderRight(s, t), NEW u, NEW m, MessagesRight(s, m)
  PROVE  Unchanged(s, u, m, FlushNet(s))
<1> DEFINE y == FlushNet(s)
<1>1. s \in SenderState /\ NumbersRight(s)
  BY DEF SenderRight, SendingRight
<1>2. /\ y \in SenderState /\ y.SendBuffer = << >> /\ SameChannel(y, s) /\ SentStays(s, y)
  BY <1>1, FlushKeeps
<1>3. \A n \in DOMAIN s.network : s.network[n] # << >>
  BY WireOf
<1>4. /\ \A n \in Nat : Packet(y, n) = Packet(s, n)
      /\ \A n \in DOMAIN y.network : y.network[n] # << >>
  BY <1>1, <1>3, FlushedPackets
<1> HIDE DEF y
<1>5. PacketsAlike(s, y)
  BY <1>4 DEF PacketsAlike
<1>6. MergesWhole(y)
  BY <1>2 DEF MergesWhole
<1>7. /\ y.numbered = s.numbered /\ y.sent = s.sent /\ y.OutRec = s.OutRec
      /\ y.bPausedUntilReliableACK = s.bPausedUntilReliableACK
  BY <1>2 DEF SameChannel
<1>8. Settled(s) => Settled(y)
  BY <1>7 DEF Settled, Released, Count, InMessage, Numbered, Upto
<1>9. y.bPausedUntilReliableACK \/ Settled(y)
  BY <1>7, <1>8 DEF MessagesRight
<1>10. Unchanged(s, u, m, y)
  BY <1>1, <1>2, <1>4, <1>5, <1>6, <1>7, <1>9, SameUnchanged
<1> QED BY <1>10 DEF y

\* An ack does not pause or resume the channel.
LEMMA AckPause ==
  ASSUME NEW s \in SenderState, NEW id
  PROVE  ReceivedAck(s, id).bPausedUntilReliableACK = s.bPausedUntilReliableACK
<1> DEFINE hasOpen == \E i \in DOMAIN s.OutRec : s.OutRec[i].bunch.bOpen
           a == [s EXCEPT
                  !.OpenAcked = (@ \/ s.OpenPacketId = id) /\ ~hasOpen,
                  !.OutRec = [i \in DOMAIN @ |->
                                IF @[i].PacketId = id THEN [@[i] EXCEPT !.ReceivedAck = TRUE]
                                                      ELSE @[i]]]
<1>1. ReceivedAck(s, id) = ReceivedAcks(a)
  BY DEF ReceivedAck
<1>2. a \in SenderState
  BY MarkedFields
<1>3. a.bPausedUntilReliableACK = s.bPausedUntilReliableACK
  BY DEF SenderState
<1> HIDE DEF a
<1>4. ReceivedAcks(a).bPausedUntilReliableACK = a.bPausedUntilReliableACK
  BY <1>2 DEF ReceivedAcks, SenderState
<1> QED BY <1>1, <1>3, <1>4

\* ReceivedAck.
LEMMA AckUnchanged ==
  ASSUME NEW s, NEW t, SenderRight(s, t), NEW u, NEW m, MessagesRight(s, m), NEW id
  PROVE  Unchanged(s, u, m, ReceivedAck(s, id))
<1> DEFINE y == ReceivedAck(s, id)
<1>1. s \in SenderState /\ Len(s.OutRec) <= Count(s)
  BY DEF SenderRight, SendingRight, NumbersRight
<1>2. PICK count : AcksReleased(s, id, count, y)
  BY <1>1, AckReleases
<1>3. y.bPausedUntilReliableACK = s.bPausedUntilReliableACK
  BY <1>1, AckPause
<1> HIDE DEF y
<1>4. /\ y \in SenderState /\ SameBuffers(s, y) /\ y.numbered = s.numbered /\ y.sent = s.sent
      /\ count \in 0 .. Len(s.OutRec) /\ Len(y.OutRec) = Len(s.OutRec) - count
  BY <1>2 DEF AcksReleased, SameBuffers
<1>5. Released(s) \in Nat /\ Released(y) \in Nat /\ Released(s) <= Released(y)
  <2>1. /\ Released(s) \in 0 .. Count(s) /\ Count(s) = Released(s) + Len(s.OutRec)
        /\ Count(s) \in Nat
    BY <1>1, Counts
  <2>2. Released(y) = Released(s) + count
    BY <1>1, <1>4, <2>1, SenderLengths DEF Released, Count
  <2> QED BY <1>1, <1>4, <2>1, <2>2, SenderLengths
<1>6. Settled(s) => Settled(y)
  BY <1>1, <1>4, <1>5, SettledSame
<1>7. y.bPausedUntilReliableACK \/ Settled(y)
  BY <1>3, <1>6 DEF MessagesRight
<1>8. Unchanged(s, u, m, y)
  BY <1>1, <1>4, <1>7, BuffersUnchanged
<1> QED BY <1>8 DEF y

\* What is right of the numbers stays so on other packets.
LEMMA MessagesOn ==
  ASSUME NEW s, NEW y, NEW m, MessagesRight(s, m), WireIs(y, m), y.numbered = s.numbered,
         y.sent = s.sent, y.bPausedUntilReliableACK \/ Settled(y)
  PROVE  MessagesRight(y, m)
<1>1. /\ Count(y) = Count(s) /\ \A k : Upto(y, k) = Upto(s, k)
      /\ \A k : InMessage(y, k) = InMessage(s, k)
  BY DEF Count, Upto, InMessage, Numbered
<1> QED BY <1>1 DEF MessagesRight, WireIs

\* The sender after some of the bunches of a lost packet are written again.
WireResent(s, m, x) ==
  /\ x \in SenderState /\ NakSame(s, x) /\ WireIs(x, m) /\ SentStays(s, x)
  /\ \A id, j : UnitsAhead(x, id, j) \subseteq UnitsAhead(s, id, j)
  /\ x.bPausedUntilReliableACK = s.bPausedUntilReliableACK

\* Writing a bunch again does not pause or resume the channel.
LEMMA ResendPause ==
  ASSUME NEW x \in SenderState, NEW i \in 1 .. Len(x.OutRec), NEW id
  PROVE  Resend(x, i, id).bPausedUntilReliableACK = x.bPausedUntilReliableACK
<1> DEFINE q == x.OutRec[i]
           bunch == q.bunch
           merge == FALSE
           moved == [q EXCEPT !.PacketId = PacketIdFor(x, bunch)]
           z == SendRawBunch(x, bunch, merge)
           y == [z EXCEPT !.OutRec = [@ EXCEPT ![i] = moved]]
<1>1. i \in DOMAIN x.OutRec
  BY SenderLengths
<1>2. bunch \in Bunch /\ merge \in BOOLEAN
  BY <1>1, OutBunchFields
<1>3. Resend(x, i, id) = IF q.PacketId = id /\ ~q.ReceivedAck THEN y ELSE x
  BY DEF Resend
<1> HIDE DEF moved, merge, bunch
<1>4. z \in SenderState /\ SameChannel(z, x)
  BY <1>2, SendRawBunchWrites DEF Writes
<1> HIDE DEF z
<1>5. y.bPausedUntilReliableACK = z.bPausedUntilReliableACK
  BY <1>4 DEF SenderState
<1> HIDE DEF y
<1> QED BY <1>3, <1>4, <1>5 DEF SameChannel

\* Bunches written again one after the other.
LEMMA NakSameTransitive ==
  ASSUME NEW x, NEW y, NEW z, NakSame(x, y), NakSame(y, z)
  PROVE  NakSame(x, z)
BY DEF NakSame

\* A reliable bunch is written again.
LEMMA ReliableWritten ==
  ASSUME NEW x \in SenderState, NEW y \in SenderState, NEW m, WireRight(x, m), Chained(x, {}),
         NEW w, NEW out \in Bunch, Wrote(x, y, w, out), out.bReliable,
         Below(ToSet(out.Data), m)
  PROVE  /\ WireRight(y, m) /\ Chained(y, {})
         /\ \A id, j : UnitsAhead(y, id, j) \subseteq UnitsAhead(x, id, j)
<1>1. WireRight(y, m)
  BY WireWritten
<1>2. Chained(y, {})
  <2> DEFINE none == {}
  <2>1. /\ \A e \in none : Joins(e, out)
        /\ ~out.bReliable /\ GoesOn(out) => Last(out.Data) \in none
        /\ Chained(x, none)
    OBVIOUS
  <2> HIDE DEF none
  <2>2. Chained(y, none)
    BY <2>1, ChainWritten
  <2> QED BY <2>2 DEF none
<1>3. \A id, j : UnitsAhead(y, id, j) \subseteq
        UnitsAhead(x, id, j) \cup (IF out.bReliable THEN {} ELSE ToSet(out.Data))
  BY WroteAhead
<1> QED BY <1>1, <1>2, <1>3

\* A reliable bunch that is written again is no unit ahead, and the packets stay right.
LEMMA WireResend ==
  ASSUME NEW s \in SenderState, NEW m, NEW x, WireResent(s, m, x), NEW i \in 1 .. Len(s.OutRec),
         s.OutRec[i].bunch.bReliable, Below(ToSet(s.OutRec[i].bunch.Data), m), NEW id
  PROVE  WireResent(s, m, Resend(x, i, id))
<1> DEFINE y == Resend(x, i, id)
           q == x.OutRec[i]
           bunch == q.bunch
           z == SendRawBunch(x, bunch, FALSE)
           w == PacketIdFor(x, bunch)
<1>1. /\ x \in SenderState /\ NakSame(s, x) /\ WireIs(x, m) /\ SentStays(s, x)
      /\ \A n, j : UnitsAhead(x, n, j) \subseteq UnitsAhead(s, n, j)
      /\ x.bPausedUntilReliableACK = s.bPausedUntilReliableACK
  BY DEF WireResent
<1>2. i \in 1 .. Len(x.OutRec) /\ i \in DOMAIN x.OutRec /\ bunch = s.OutRec[i].bunch
  BY <1>1, SenderLengths DEF NakSame
<1>3. CASE ~(q.PacketId = id /\ ~q.ReceivedAck)
  <2>1. y = x
    BY <1>3 DEF Resend
  <2> QED BY <2>1
<1>4. CASE q.PacketId = id /\ ~q.ReceivedAck
  <2>1. ResendDone(x, i, id)
    BY <1>1, <1>2, <1>4, ResendFields
  <2>2. bunch \in Bunch /\ bunch.bReliable /\ Below(ToSet(bunch.Data), m)
    BY <1>1, <1>2, OutBunchFields
  <2>3. /\ y \in SenderState /\ Writes(x, bunch, FALSE, z)
        /\ y.network = z.network /\ y.SendBuffer = z.SendBuffer /\ y.AllowMerge = z.AllowMerge
        /\ NakSame(x, y)
    BY <2>1 DEF ResendDone
  <2>4. y.bPausedUntilReliableACK = x.bPausedUntilReliableACK
    BY <1>1, <1>2, ResendPause
  <2>5. \A n \in DOMAIN x.network : x.network[n] # << >>
    BY <1>1 DEF WireIs, WireRight
  <2>6. Wrote(x, z, w, bunch)
    BY <1>1, <2>2, <2>5, SendRawBunchWrote
  <2> HIDE DEF z, w, bunch, y
  <2>7. Wrote(x, y, w, bunch)
    BY <2>3, <2>6, WroteSame
  <2>8. /\ WireRight(y, m) /\ Chained(y, {})
        /\ \A n, j : UnitsAhead(y, n, j) \subseteq UnitsAhead(x, n, j)
    BY <1>1, <2>2, <2>3, <2>7, ReliableWritten DEF WireIs
  <2>9. MergesWhole(y) /\ SentStays(x, y)
    BY <2>3 DEF Writes, MergesWhole, SentStays
  <2>10. SentStays(s, y) /\ NakSame(s, y)
    BY <1>1, <2>3, <2>9, SentStaysTransitive, NakSameTransitive
  <2>11. WireResent(s, m, y)
    BY <1>1, <2>3, <2>4, <2>8, <2>9, <2>10 DEF WireResent, WireIs
  <2> QED BY <2>11 DEF y
<1> QED BY <1>3, <1>4

\* ReceivedNak.
LEMMA NakUnchanged ==
  ASSUME NEW s, NEW t, SenderRight(s, t), NEW u, NEW m, MessagesRight(s, m), NEW id
  PROVE  Unchanged(s, u, m, ReceivedNak(s, id))
<1> DEFINE L == Len(s.OutRec)
           G == {p \in (0 .. L) \X SenderState : WireResent(s, m, p[2])}
           y == ReceivedNak(s, id)
<1>1. /\ s \in SenderState /\ NumbersRight(s) /\ L \in Nat /\ WireIs(s, m)
      /\ s.sent = Upto(s, Count(s)) /\ Below(ToSet(s.sent), m)
  BY WireOf, SenderLengths DEF SenderRight, SendingRight, MessagesRight
<1>2. ASSUME NEW i \in 1 .. L
      PROVE  s.OutRec[i].bunch.bReliable /\ Below(ToSet(s.OutRec[i].bunch.Data), m)
  <2>1. i \in DOMAIN s.OutRec
    BY <1>1, SenderLengths
  <2>2. Released(s) + i \in 1 .. Count(s) /\ s.OutRec[i].bunch.bReliable
    BY <1>1, <2>1, BufferNumbers
  <2>3. s.OutRec[i].bunch = Numbered(s, Released(s) + i)
    BY <1>1, <2>1 DEF NumbersRight
  <2> DEFINE k == Released(s) + i
  <2> HIDE DEF k
  <2>4. Count(s) \in 0 .. Count(s) /\ k \in 1 .. Count(s)
    BY <2>2, SenderLengths, <1>1 DEF Count, k
  <2>5. ToSet(Numbered(s, k).Data) \subseteq ToSet(s.sent)
    BY <1>1, <2>4, NumberedInUpto
  <2> QED BY <1>1, <2>2, <2>3, <2>5 DEF Below, k
<1>3. WireResent(s, m, s)
  BY <1>1 DEF WireResent, NakSame, SentStays
<1>4. ASSUME NEW i \in 1 .. L, NEW x \in SenderState, <<i - 1, x>> \in G
      PROVE  Resend(x, i, id) \in SenderState /\ <<i, Resend(x, i, id)>> \in G
  <2>1. WireResent(s, m, x)
    BY <1>4
  <2>2. WireResent(s, m, Resend(x, i, id))
    BY <1>1, <1>2, <2>1, WireResend
  <2>3. Resend(x, i, id) \in SenderState /\ i \in 0 .. L
    BY <1>1, <2>2 DEF WireResent
  <2> QED BY <2>2, <2>3
<1>5. <<0, s>> \in G
  BY <1>1, <1>3
<1> HIDE DEF G
<1>6. ResendsKeep(s, id, G)
  BY <1>4, <1>5 DEF ResendsKeep
<1> HIDE DEF L
<1>7. <<L, y>> \in G
  BY <1>1, <1>6, ResendsKept DEF L
<1>8. WireResent(s, m, y)
  BY <1>7 DEF G
<1> HIDE DEF y
<1>9. /\ y \in SenderState /\ WireIs(y, m) /\ SentStays(s, y) /\ y.numbered = s.numbered
      /\ y.sent = s.sent /\ Len(y.OutRec) = Len(s.OutRec)
      /\ UnitsAhead(y, u + 1, 0) \subseteq UnitsAhead(s, u + 1, 0)
      /\ y.bPausedUntilReliableACK = s.bPausedUntilReliableACK
  BY <1>8 DEF WireResent, NakSame
<1>10. Settled(s) => Settled(y)
  BY <1>9 DEF Settled, Released, Count, InMessage, Numbered, Upto
<1>11. y.bPausedUntilReliableACK \/ Settled(y)
  BY <1>9, <1>10 DEF MessagesRight
<1>12. MessagesRight(y, m)
  BY <1>9, <1>11, MessagesOn
<1>13. Unchanged(s, u, m, y)
  BY <1>9, <1>12 DEF Unchanged
<1> QED BY <1>13 DEF y

\* The notification of one packet.
LEMMA NotificationUnchanged ==
  ASSUME NEW s, NEW t, SenderRight(s, t), NEW u, NEW m, MessagesRight(s, m), NEW id,
         NEW isAcked \in BOOLEAN
  PROVE  Unchanged(s, u, m, HandlePacketNotification(s, id, isAcked))
<1>1. s \in SenderState /\ s.exists \in BOOLEAN
  BY SenderFields DEF SenderRight, SendingRight
<1>2. CASE ~s.exists
  BY <1>1, <1>2, UnchangedItself DEF HandlePacketNotification
<1>3. CASE s.exists /\ isAcked
  BY <1>3, AckUnchanged DEF HandlePacketNotification
<1>4. CASE s.exists /\ ~isAcked
  BY <1>4, NakUnchanged DEF HandlePacketNotification
<1> QED BY <1>1, <1>2, <1>3, <1>4

\* The notifications of one packet header.
LEMMA NotificationsUnchanged ==
  ASSUME NEW s, NEW t \in Nat, SenderRight(s, t), NEW last \in Nat, t <= last,
         last <= Len(s.network), NEW c, NEW acked, ClientSide(c, s, acked),
         acked \subseteq DOMAIN s.network, NEW u, NEW m, MessagesRight(s, m)
  PROVE  Unchanged(s, u, m, AfterNotifications(s, t, last, acked)[last - t])
<1> DEFINE L == last - t
           G == {p \in (0 .. L) \X SenderState :
                   Told(s, t + p[1], c, acked, p[2]) /\ Unchanged(s, u, m, p[2])}
           y == AfterNotifications(s, t, last, acked)[L]
<1>1. s \in SenderState /\ L \in Nat /\ t + L = last /\ Len(s.network) \in Nat
  BY SenderLengths DEF SenderRight, SendingRight
<1>2. Told(s, t, c, acked, s) /\ Unchanged(s, u, m, s)
  BY <1>1, UnchangedItself DEF Told, SentStays
<1>3. ASSUME NEW n \in 1 .. L, NEW x \in SenderState,
             Told(s, t + (n - 1), c, acked, x), Unchanged(s, u, m, x)
      PROVE  LET z == HandlePacketNotification(x, t + n, t + n \in acked)
             IN  z \in SenderState /\ Told(s, t + n, c, acked, z) /\ Unchanged(s, u, m, z)
  <2> DEFINE id == t + n
             before == t + (n - 1)
             isAcked == id \in acked
             z == HandlePacketNotification(x, id, isAcked)
  <2>1. before \in Nat /\ id = before + 1 /\ id <= Len(s.network) /\ id \in Nat
    BY <1>1
  <2>2. SenderRight(x, before) /\ ClientSide(c, x, acked) /\ SentStays(s, x)
        /\ Told(s, before, c, acked, x)
    BY <1>3 DEF Told
  <2>3. isAcked \in BOOLEAN /\ (isAcked <=> id \in acked)
    OBVIOUS
  <2> HIDE DEF id, before, isAcked, z, L
  <2>4. id <= Len(x.network) /\ acked \subseteq DOMAIN x.network
    <3>1. Len(x.network) \in Nat /\ Len(s.network) <= Len(x.network)
          /\ DOMAIN s.network \subseteq DOMAIN x.network
      BY <1>3, <2>2, SenderLengths DEF SentStays
    <3> QED BY <1>1, <2>1, <3>1
  <2>5. Told(x, id, c, acked, z)
    BY <2>1, <2>2, <2>3, <2>4, NotificationRight DEF z
  <2>6. Told(s, id, c, acked, z)
    BY <1>1, <1>3, <2>2, <2>5, ToldAgain
  <2>7. z \in SenderState
    BY <2>6 DEF Told, SenderRight, SendingRight
  <2>8. Unchanged(x, u, m, z)
    <3>1. MessagesRight(x, m)
      BY <1>3 DEF Unchanged
    <3> QED BY <2>2, <2>3, <3>1, NotificationUnchanged DEF z
  <2>9. Unchanged(s, u, m, z)
    BY <1>1, <1>3, <2>8, UnchangedTransitive
  <2> QED BY <2>6, <2>7, <2>9 DEF z, id, isAcked
<1> HIDE DEF L
<1>4. NotificationsKeep(s, t, last, acked, G)
  <2>1. <<0, s>> \in G
    BY <1>1, <1>2
  <2>2. ASSUME NEW n \in 1 .. L, NEW x \in SenderState, <<n - 1, x>> \in G
        PROVE  LET z == HandlePacketNotification(x, t + n, t + n \in acked)
               IN  z \in SenderState /\ <<n, z>> \in G
    <3>1. Told(s, t + (n - 1), c, acked, x) /\ Unchanged(s, u, m, x)
      BY <2>2
    <3>2. n \in 0 .. L
      BY <1>1
    <3> QED BY <1>3, <3>1, <3>2
  <2> HIDE DEF G
  <2> QED BY <2>1, <2>2 DEF NotificationsKeep, L
<1> HIDE DEF G
<1>5. <<L, y>> \in G
  BY <1>1, <1>4, NotificationsKept DEF L
<1>6. Unchanged(s, u, m, y)
  BY <1>5 DEF G
<1> QED BY <1>6 DEF y, L

\* Closing the channels that may be closed.
LEMMA CloseUnchanged ==
  ASSUME NEW s, NEW t, SenderRight(s, t), NEW u, NEW m, MessagesRight(s, m), NEW reached
  PROVE  Unchanged(s, u, m, CloseChannels(s, reached))
<1> DEFINE no == FALSE
           closes == reached /\ s.ChannelsToClose /\ s.exists
           closed == IF closes THEN CleanUp(s) ELSE s
           y == [closed EXCEPT !.ChannelsToClose = no]
<1>1. s \in SenderState
  BY DEF SenderRight, SendingRight
<1>2. closed \in SenderState /\ Unchanged(s, u, m, closed)
  <2>1. CASE closes
    <3>1. closed = IndexReset(s, no)
      BY <2>1 DEF CleanUp, IndexReset
    <3>2. no \in BOOLEAN
      OBVIOUS
    <3> HIDE DEF no, closed
    <3>3. WasReset(s, no, closed)
      BY <1>1, <3>1, <3>2, NewFields
    <3>4. Unchanged(s, u, m, closed)
      BY <3>3, ResetUnchanged
    <3> QED BY <3>3, <3>4 DEF WasReset
  <2>2. CASE ~closes
    BY <1>1, <2>2, UnchangedItself
  <2> QED BY <2>1, <2>2
<1>3. CloseChannels(s, reached) = y
  BY DEF CloseChannels
<1>4. no \in BOOLEAN
  OBVIOUS
<1> HIDE DEF closed, no
<1>5. /\ y \in SenderState /\ y.network = closed.network /\ y.SendBuffer = closed.SendBuffer
      /\ y.AllowMerge = closed.AllowMerge /\ y.numbered = closed.numbered
      /\ y.sent = closed.sent /\ y.OutRec = closed.OutRec
      /\ y.bPausedUntilReliableACK = closed.bPausedUntilReliableACK
  BY <1>2, <1>4 DEF SenderState
<1> HIDE DEF y
<1>6. MessagesRight(closed, m)
  BY <1>2 DEF Unchanged
<1>7. Settled(closed) => Settled(y)
  BY <1>5 DEF Settled, Released, Count, InMessage, Numbered, Upto
<1>8. y.bPausedUntilReliableACK \/ Settled(y)
  BY <1>5, <1>6, <1>7 DEF MessagesRight
<1>9. SameBuffers(closed, y)
  BY <1>5 DEF SameBuffers
<1>10. Unchanged(closed, u, m, y)
  BY <1>2, <1>5, <1>6, <1>8, <1>9, BuffersUnchanged
<1>11. Unchanged(s, u, m, y)
  BY <1>1, <1>2, <1>10, UnchangedTransitive
<1> QED BY <1>3, <1>11

-----------------------------------------------------------------------------
(* The steps of the server                                                 *)

\* The units of the next message are new.
LEMMA UnitsAreNew ==
  ASSUME NEW m \in Nat, NEW size \in Nat, NEW update \in BOOLEAN
  PROVE  LET data == Units(m + 1, size, update)
         IN  /\ NewMessage(data, m) /\ data \in Seq(Unit)
             /\ ~update => \A u \in ToSet(data) : ~IsUpdate(u)
<1> DEFINE data == Units(m + 1, size, update)
           n == m + 1
<1>1. n \in Nat /\ data = Units(n, size, update)
  OBVIOUS
<1> HIDE DEF data, n
<1>2. MessageOf(data, n, size, update)
  BY <1>1, UnitsFields
<1>3. NewMessage(data, m)
  BY <1>2 DEF NewMessage, n
<1>4. data \in Seq(Unit) /\ \A k \in DOMAIN data : data[k].update = update
  BY <1>2 DEF MessageOf
<1>5. ~update => \A u \in ToSet(data) : ~IsUpdate(u)
  BY <1>4 DEF ToSet, IsUpdate
<1> QED BY <1>3, <1>4, <1>5 DEF data

\* MInv is that the server and the client agree.
LEMMA MessagesInvariant == MInv <=> Agree(server, client, settled, messages)
BY DEF MInv, Agree

\* What is known of the server before a step.
LEMMA Known ==
  ASSUME IInv, MInv
  PROVE  /\ Sides(server, client, told, settled, accepted) /\ messages \in Nat
         /\ Agree(server, client, settled, messages) /\ MessagesRight(server, messages)
         /\ server \in SenderState /\ told \in Nat /\ settled \in Nat
         /\ settled <= Len(server.network) /\ told <= settled /\ told <= Len(server.network)
         /\ accepted \subseteq DOMAIN server.network /\ ~server.ChannelsToClose
         /\ SenderRight(server, told) /\ ClientSide(client, server, accepted)
<1>1. Sides(server, client, told, settled, accepted) /\ messages \in Nat
  BY InvariantParts, BoundsAre
<1>2. Agree(server, client, settled, messages) /\ MessagesRight(server, messages)
  BY MessagesInvariant DEF Agree
<1>3. /\ server \in SenderState /\ told \in Nat /\ settled \in Nat
      /\ settled <= Len(server.network) /\ told <= settled /\ told <= Len(server.network)
      /\ accepted \subseteq DOMAIN server.network
  BY <1>1, SidesFacts
<1> QED BY <1>1, <1>2, <1>3 DEF Sides

\* SendReliable and Close keep MInv.
LEMMA SendMessages ==
  ASSUME IInv, MInv, NEW bClose \in BOOLEAN, NEW size \in Nat, NEW merge \in BOOLEAN,
         Send(TRUE, bClose, size, merge)
  PROVE  Agree(server', client, settled, messages + 1)
<1> DEFINE data == Units(messages + 1, size, FALSE)
           message == [bReliable |-> TRUE, bClose |-> bClose, Data |-> data]
<1>1. /\ Agree(server, client, settled, messages) /\ messages \in Nat
      /\ server \in SenderState /\ told \in Nat /\ settled \in Nat
      /\ settled <= Len(server.network) /\ told <= Len(server.network)
      /\ ~server.ChannelsToClose
      /\ SenderRight(server, told) /\ ClientSide(client, server, accepted)
  BY Known
<1>2. server.exists /\ ~server.Closing /\ server' = SendBunch(server, message, merge)
  BY DEF Send
<1>3. /\ NewMessage(data, messages) /\ data \in Seq(Unit)
      /\ \A e \in ToSet(data) : ~IsUpdate(e)
  BY <1>1, UnitsAreNew
<1> HIDE DEF data
<1>4. /\ Message(server, message) /\ NewMessage(message.Data, messages)
      /\ message.bReliable => \A e \in ToSet(message.Data) : ~IsUpdate(e)
      /\ ~message.bReliable => Settled(server)
  BY <1>3 DEF Message
<1> HIDE DEF message
<1>5. MaySend(server, told)
  BY <1>1, <1>2 DEF MaySend
<1> QED BY <1>1, <1>2, <1>4, <1>5, MessageAgrees

\* A channel that is not paused has nothing in flight that an update could overtake.
LEMMA UnpausedAgrees ==
  ASSUME NEW s, NEW t, SenderRight(s, t), ~IsPaused(s), NEW c, NEW u, NEW m \in Nat,
         Agree(s, c, u, m)
  PROVE  Agree(Unpaused(s), c, u, m) /\ Settled(Unpaused(s))
<1> DEFINE x == Unpaused(s)
<1>1. /\ s \in SenderState /\ ~InMessage(s, Count(s)) /\ s.sent = Upto(s, Count(s))
      /\ MessagesRight(s, m)
  BY DEF SenderRight, SendingRight, Agree
<1>2. Settled(s)
  <2>1. CASE ~s.bPausedUntilReliableACK
    BY <1>1, <2>1 DEF MessagesRight
  <2>2. CASE s.OutRec = << >>
    BY <1>1, <2>2, EmptySettled
  <2> QED BY <2>1, <2>2 DEF IsPaused
<1>3. /\ x \in SenderState
      /\ x.SendBuffer = s.SendBuffer /\ x.network = s.network /\ x.OutRec = s.OutRec
      /\ x.numbered = s.numbered /\ x.AllowMerge = s.AllowMerge /\ x.sent = s.sent
  BY <1>1, UnpausedFields
<1> HIDE DEF x
<1>4. Settled(x)
  BY <1>2, <1>3 DEF Settled, Released, Count, InMessage, Numbered, Upto
<1>5. Unchanged(s, u, m, x)
  BY <1>1, <1>3, <1>4, BuffersUnchanged DEF SameBuffers
<1>6. Agree(x, c, u, m)
  BY <1>5, UnchangedAgrees
<1> QED BY <1>4, <1>6 DEF x

\* ReplicateActor keeps MInv: it is the only step that sends an update.
LEMMA ReplicateMessages ==
  ASSUME IInv, MInv, NEW size \in Nat, ReplicateActor(size)
  PROVE  Agree(server', client, settled, messages + 1)
<1> DEFINE data == Units(messages + 1, size, TRUE)
           message == [bReliable |-> FALSE, bClose |-> FALSE, Data |-> data]
           x == Unpaused(server)
           merge == TRUE
<1>1. /\ Agree(server, client, settled, messages) /\ messages \in Nat
      /\ Sides(server, client, told, settled, accepted)
      /\ server \in SenderState /\ told \in Nat /\ settled \in Nat
      /\ settled <= Len(server.network) /\ told <= Len(server.network)
      /\ SenderRight(server, told)
  BY Known
<1>2. /\ server.exists /\ ~server.Closing /\ server.OpenPacketId # 0 /\ ~IsPaused(server)
      /\ server' = SendBunch(x, message, merge)
  BY DEF ReplicateActor, Unpaused
<1>3. /\ NewMessage(data, messages) /\ data \in Seq(Unit)
  BY <1>1, UnitsAreNew
<1>4. /\ x.exists = server.exists /\ x.Closing = server.Closing
      /\ x.OpenPacketId = server.OpenPacketId /\ x.network = server.network
  BY <1>1, UnpausedFields
<1>5. Sides(x, client, told, settled, accepted)
  BY <1>1, UnpausedSides
<1>6. Agree(x, client, settled, messages) /\ Settled(x)
  BY <1>1, <1>2, UnpausedAgrees
<1> HIDE DEF x, data
<1>7. /\ Message(x, message) /\ NewMessage(message.Data, messages)
      /\ message.bReliable => \A e \in ToSet(message.Data) : ~IsUpdate(e)
      /\ merge \in BOOLEAN
  BY <1>2, <1>3, <1>4 DEF Message
<1> HIDE DEF message, merge
<1>8. MaySend(x, told) /\ ClientSide(client, x, accepted)
  BY <1>1, <1>2, <1>4, <1>5 DEF MaySend, Sides
<1>9. settled <= Len(x.network)
  BY <1>1, <1>4
<1> QED BY <1>1, <1>2, <1>6, <1>7, <1>8, <1>9, MessageAgrees

\* CreateChannel keeps MInv.
LEMMA CreateMessages ==
  ASSUME IInv, MInv, CreateChannel
  PROVE  Agree(server', client, settled, messages)
<1>1. /\ Agree(server, client, settled, messages) /\ messages \in Nat
      /\ server \in SenderState /\ SenderRight(server, told) /\ MessagesRight(server, messages)
  BY Known
<1>2. server' = NewChannel(server)
  BY DEF CreateChannel
<1>3. WasReset(server, TRUE, server')
  BY <1>1, <1>2, NewIsReset
<1>4. Unchanged(server, settled, messages, server')
  BY <1>1, <1>3, ResetUnchanged
<1> QED BY <1>1, <1>4, UnchangedAgrees

\* Flush keeps MInv.
LEMMA FlushMessages ==
  ASSUME IInv, MInv, Flush
  PROVE  Agree(server', client, settled, messages)
<1>1. /\ Agree(server, client, settled, messages) /\ messages \in Nat
      /\ SenderRight(server, told) /\ MessagesRight(server, messages)
  BY Known
<1>2. server' = FlushNet(server)
  BY DEF Flush
<1>3. Unchanged(server, settled, messages, server')
  BY <1>1, <1>2, FlushUnchanged
<1> QED BY <1>1, <1>3, UnchangedAgrees

\* Notify keeps MInv.
LEMMA NotifyMessages ==
  ASSUME IInv, MInv, NEW id \in told + 1 .. settled, NEW reached \in BOOLEAN,
         Notify(id, reached)
  PROVE  Agree(server', client, settled, messages)
<1> DEFINE x == AfterNotifications(server, told, id, accepted)[id - told]
           y == CloseChannels(x, reached)
<1>1. /\ Agree(server, client, settled, messages) /\ messages \in Nat
      /\ server \in SenderState /\ told \in Nat /\ settled \in Nat
      /\ settled <= Len(server.network) /\ told <= settled
      /\ accepted \subseteq DOMAIN server.network /\ MessagesRight(server, messages)
      /\ SenderRight(server, told) /\ ClientSide(client, server, accepted)
  BY Known
<1>2. server' = y
  BY DEF Notify
<1>3. id \in Nat /\ told <= id /\ id <= Len(server.network)
  BY <1>1, SenderLengths
<1>4. Told(server, id, client, accepted, x)
  BY <1>1, <1>3, NotificationsRight
<1>5. Unchanged(server, settled, messages, x)
  BY <1>1, <1>3, NotificationsUnchanged
<1> HIDE DEF x
<1>6. SenderRight(x, id) /\ MessagesRight(x, messages)
  BY <1>4, <1>5 DEF Told, Unchanged
<1>7. Unchanged(x, settled, messages, y)
  BY <1>6, CloseUnchanged
<1> HIDE DEF y
<1>8. Unchanged(server, settled, messages, y)
  BY <1>1, <1>5, <1>7, UnchangedTransitive
<1> QED BY <1>1, <1>2, <1>8, UnchangedAgrees

-----------------------------------------------------------------------------
(* What the client handles                                                 *)

\* What the messages of a sender are to a client.
Source(s, m) ==
  /\ s \in SenderState /\ NumbersRight(s) /\ s.sent = Upto(s, Count(s))
  /\ InOrder(s.sent) /\ Below(ToSet(s.sent), m)
  /\ \A k \in 0 .. Count(s) : ~InMessage(s, k) => Whole(Upto(s, k))

HasRight(c, s, A) == \A k \in 1 .. Count(s) :
  Has(c, k) => NoLater(ToSet(Numbered(s, k).Data), A)

\* What the client needs to know of a sender that is right.
LEMMA SourceOf ==
  ASSUME NEW s, NEW t, SenderRight(s, t), NEW m, MessagesRight(s, m)
  PROVE  Source(s, m)
BY DEF Source, SenderRight, SendingRight, MessagesRight

\* Nothing was handled; or a bunch w was.
Leaves(x, y) == y.received = x.received /\ y.stream = x.stream

HandledAdds(x, y, w) ==
  /\ y.received = Append(x.received, [bReliable |-> w.bReliable, bClose |-> w.bClose,
                                      Data |-> w.Data])
  /\ y.stream = IF w.bReliable THEN x.stream \o Carried(w.Data, w.bClose) ELSE x.stream

\* What is not finished was so before.
KeepsPart(x, y) == Unfinished(y) =>
  y.InPartialBunch = x.InPartialBunch /\ (x.exists => y.exists)

\* The unfinished message over two steps.
LEMMA KeepsTransitive ==
  ASSUME NEW x, NEW y, NEW z, KeepsPart(x, y), KeepsPart(y, z)
  PROVE  KeepsPart(x, z)
BY DEF KeepsPart, Unfinished

\* The unfinished message is where it was.
LEMMA PartKeptRight ==
  ASSUME NEW x, NEW y, KeepsPart(x, y), NEW s, NEW id, NEW j, UnfinishedRight(x, s, id, j)
  PROVE  UnfinishedRight(y, s, id, j)
<1> SUFFICES ASSUME Unfinished(y) PROVE UnfinishedRight(y, s, id, j)
  BY DEF UnfinishedRight
<1>1. y.InPartialBunch = x.InPartialBunch /\ (x.exists => y.exists) /\ Unfinished(x)
  BY DEF KeepsPart, Unfinished
<1> QED BY <1>1 DEF UnfinishedRight, LastPart

\* What was handled stays right when nothing more is.
LEMMA HandledSame ==
  ASSUME NEW x, NEW y, NEW s, NEW m, NEW A, HandledRight(x, s, m, A), Leaves(x, y),
         EndsMessage(y, s), HasRight(y, s, A)
  PROVE  HandledRight(y, s, m, A)
<1>1. HandledUnits(y) = HandledUnits(x) /\ Pending(y, s) = Pending(x, s)
  BY DEF HandledUnits, Pending, Leaves
<1>2. y.received = x.received
  BY DEF Leaves
<1> QED BY <1>1, <1>2 DEF HandledRight, HasRight

\* What is added to what was handled.
LEMMA AddedUnits ==
  ASSUME NEW x \in ReceiverState, NEW y, NEW w \in Bunch, HandledAdds(x, y, w)
  PROVE  /\ Len(x.received) \in Nat /\ DOMAIN x.received = 1 .. Len(x.received)
         /\ DOMAIN y.received = 1 .. Len(x.received) + 1
         /\ y.received[Len(x.received) + 1].Data = w.Data
         /\ \A i \in 1 .. Len(x.received) : y.received[i] = x.received[i]
         /\ HandledUnits(y) = HandledUnits(x) \cup ToSet(w.Data)
<1> DEFINE entry == [bReliable |-> w.bReliable, bClose |-> w.bClose, Data |-> w.Data]
           r == x.received
           L == Len(r)
<1>1. y.received = Append(r, entry)
  BY DEF HandledAdds
<1>2. r \in Seq(Handled) /\ entry \in Handled /\ entry.Data = w.Data
  BY ReceiverFields, BunchFields DEF Handled
<1> HIDE DEF entry, r
<1>3. /\ L \in Nat /\ DOMAIN r = 1 .. L /\ DOMAIN y.received = 1 .. L + 1
      /\ y.received[L + 1] = entry
      /\ \A i \in 1 .. L : y.received[i] = r[i]
  BY <1>1, <1>2, Appended
<1> HIDE DEF L
<1>4. \A i : i \in 1 .. L + 1 <=> i \in 1 .. L \/ i = L + 1
  BY <1>3
<1>5. HandledUnits(y) = HandledUnits(x) \cup ToSet(w.Data)
  <2>1. HandledUnits(x) = UNION {ToSet(r[i].Data) : i \in 1 .. L}
    BY <1>3 DEF HandledUnits, r
  <2>2. HandledUnits(y) = UNION {ToSet(y.received[i].Data) : i \in 1 .. L + 1}
    BY <1>3 DEF HandledUnits
  <2>3. \A i \in 1 .. L : ToSet(y.received[i].Data) = ToSet(r[i].Data)
    BY <1>3
  <2>4. ToSet(y.received[L + 1].Data) = ToSet(w.Data)
    BY <1>2, <1>3
  <2> DEFINE f(i) == ToSet(y.received[i].Data)
             g(i) == ToSet(r[i].Data)
  <2>5. \A u : (\E i \in 1 .. L + 1 : u \in f(i)) <=> (\E i \in 1 .. L : u \in g(i)) \/ u \in ToSet(w.Data)
    BY <1>4, <2>3, <2>4
  <2> QED BY <2>1, <2>2, <2>5
<1> QED BY <1>2, <1>3, <1>5 DEF r, L

\* What was handled stays right with a bunch more.
LEMMA HandledMore ==
  ASSUME NEW x \in ReceiverState, NEW y, NEW s, NEW m, NEW A, HandledRight(x, s, m, A),
         NEW w \in Bunch, HandledAdds(x, y, w), Whole(w.Data), InOrder(w.Data),
         Below(ToSet(w.Data), m), NoLater(HandledUnits(x), ToSet(w.Data)),
         NoLater(ToSet(w.Data), A), NoLater(ToSet(w.Data), Pending(y, s)),
         Pending(y, s) \subseteq Pending(x, s), EndsMessage(y, s), HasRight(y, s, A)
  PROVE  HandledRight(y, s, m, A)
<1> DEFINE L == Len(x.received)
           d == ToSet(w.Data)
<1>1. /\ L \in Nat /\ DOMAIN x.received = 1 .. L /\ DOMAIN y.received = 1 .. L + 1
      /\ y.received[L + 1].Data = w.Data
      /\ \A i \in 1 .. L : y.received[i] = x.received[i]
      /\ HandledUnits(y) = HandledUnits(x) \cup d
  BY AddedUnits
<1>2. /\ Below(HandledUnits(x), m) /\ NoLater(HandledUnits(x), A)
      /\ NoLater(HandledUnits(x), Pending(x, s)) /\ NoLater(A, Pending(x, s))
  BY HandledInSent
<1>3. \A i \in 1 .. L :
       /\ Whole(x.received[i].Data) /\ InOrder(x.received[i].Data)
       /\ ToSet(x.received[i].Data) \subseteq HandledUnits(x)
       /\ \A j \in 1 .. L : i < j =>
            NoLater(ToSet(x.received[i].Data), ToSet(x.received[j].Data))
  BY <1>1 DEF HandledRight, HandledUnits
<1>10. NoLater(d, A) /\ NoLater(d, Pending(y, s))
  OBVIOUS
<1> HIDE DEF L, d
<1>4. \A i \in 1 .. L + 1 : i \in 1 .. L \/ i = L + 1
  BY <1>1
<1>5. ASSUME NEW i \in 1 .. L + 1
      PROVE  /\ Whole(y.received[i].Data) /\ InOrder(y.received[i].Data)
             /\ \A j \in 1 .. L + 1 : i < j =>
                  NoLater(ToSet(y.received[i].Data), ToSet(y.received[j].Data))
  <2>1. Whole(y.received[i].Data) /\ InOrder(y.received[i].Data)
    BY <1>1, <1>3, <1>4
  <2>2. ASSUME NEW j \in 1 .. L + 1, i < j
        PROVE  NoLater(ToSet(y.received[i].Data), ToSet(y.received[j].Data))
    <3>1. i \in 1 .. L
      BY <1>1, <2>2
    <3>2. CASE j \in 1 .. L
      BY <1>1, <1>3, <2>2, <3>1, <3>2
    <3>3. CASE j = L + 1
      <4>1. NoLater(ToSet(x.received[i].Data), d)
        BY <1>3, <3>1, NoLaterParts DEF d
      <4> QED BY <1>1, <3>1, <3>3, <4>1 DEF d
    <3> QED BY <1>4, <3>2, <3>3
  <2> QED BY <2>1, <2>2
<1>6. Below(HandledUnits(y), m)
  BY <1>1, <1>2 DEF Below, d
<1>7. NoLater(HandledUnits(y), A)
  <2>1. NoLater(HandledUnits(x) \cup d, A)
    BY <1>2, <1>10, NoLaterJoin
  <2> QED BY <1>1, <2>1
<1>8. NoLater(HandledUnits(y), Pending(y, s))
  <2>1. NoLater(HandledUnits(x), Pending(y, s))
    BY <1>2, NoLaterParts
  <2>2. NoLater(HandledUnits(x) \cup d, Pending(y, s))
    BY <1>10, <2>1, NoLaterJoin
  <2> QED BY <1>1, <2>2
<1>9. NoLater(A, Pending(y, s))
  BY <1>2, NoLaterParts
<1> QED BY <1>1, <1>5, <1>6, <1>7, <1>8, <1>9 DEF HandledRight, HasRight

-----------------------------------------------------------------------------
(* What becomes of a bunch                                                 *)

\* The client goes on without the bunch.
Ignores(x, y) ==
  Leaves(x, y) /\ y.InPartialBunch = x.InPartialBunch /\ y.exists = x.exists

\* A bunch that is an error is not handled.
LEMMA ErrorIgnores ==
  ASSUME NEW x \in ReceiverState, NEW error
  PROVE  Ignores(x, Error(x, error))
<1> DEFINE e == Append(x.errors, error)
           y == [x EXCEPT !.errors = e]
<1>1. Error(x, error) = y
  BY DEF Error
<1> HIDE DEF e
<1>2. /\ y.received = x.received /\ y.stream = x.stream
      /\ y.InPartialBunch = x.InPartialBunch /\ y.exists = x.exists
  BY DEF ReceiverState
<1> QED BY <1>1, <1>2 DEF Ignores, Leaves

\* A bunch whose packet is not acknowledged is not handled.
LEMMA SkipAckIgnores ==
  ASSUME NEW x \in ReceiverState
  PROVE  Ignores(x, SkipAck(x))
<1> DEFINE yes == TRUE
           y == [x EXCEPT !.bSkipAck = yes]
<1>1. SkipAck(x) = y
  BY DEF SkipAck
<1> HIDE DEF yes
<1>2. /\ y.received = x.received /\ y.stream = x.stream
      /\ y.InPartialBunch = x.InPartialBunch /\ y.exists = x.exists
  BY DEF ReceiverState
<1> QED BY <1>1, <1>2 DEF Ignores, Leaves

\* A partial bunch takes the place of another.
Sets(x, y, part) == Leaves(x, y) /\ y.InPartialBunch = part /\ y.exists = x.exists

\* Assigning InPartialBunch.
LEMMA PartSets ==
  ASSUME NEW x \in ReceiverState, NEW part \in Bunch \cup {None}
  PROVE  LET y == [x EXCEPT !.InPartialBunch = part]
         IN  Sets(x, y, part) /\ y \in ReceiverState /\ y.InRec = x.InRec
<1> DEFINE y == [x EXCEPT !.InPartialBunch = part]
<1>1. /\ y \in ReceiverState /\ y.InPartialBunch = part /\ y.exists = x.exists
      /\ y.received = x.received /\ y.stream = x.stream /\ y.InRec = x.InRec
  BY PartialFields
<1> HIDE DEF y
<1> QED BY <1>1 DEF Sets, Leaves, y

\* HandleBunch
Handles(x, w, y) ==
  /\ Leaves(x, y) \/ HandledAdds(x, y, w)
  /\ y.InPartialBunch = None \/ (y.InPartialBunch = x.InPartialBunch /\ y.exists = x.exists)

\* HandleBunch handles its bunch, and closes the channel if the bunch does.
LEMMA BunchHandles ==
  ASSUME NEW x \in ReceiverState, NEW w \in Bunch, w.bClose => x.InRec = << >>
  PROVE  Handles(x, w, HandleBunch(x, w))
<1> DEFINE y == HandleBunch(x, w)
           z == ReceivedSequencedBunch([x EXCEPT !.OpenAcked = TRUE], w)
<1>1. \/ y = Error(x, "AlreadyOpen") \/ y = Error(x, "ReliableBeforeOpen")
      \/ y = SkipAck(x) \/ y = z
  BY DEF HandleBunch
<1>2. WasHandled(x, w, z)
  BY SequencedFields
<1> HIDE DEF y, z
<1>3. w.bClose \in BOOLEAN
  BY BunchFields
<1>4. Handles(x, w, z)
  BY <1>2, <1>3 DEF WasHandled, Handles, HandledAdds
<1>5. \A v : Ignores(x, v) => Handles(x, w, v)
  BY DEF Ignores, Handles
<1>6. Handles(x, w, y)
  BY <1>1, <1>4, <1>5, ErrorIgnores, SkipAckIgnores
<1> QED BY <1>6 DEF y

\* The next reliable bunch
LEMMA NextHandles ==
  ASSUME NEW x \in ReceiverState, NEW bunch \in Bunch, bunch.bReliable,
         bunch.ChSequence = x.InReliable + 1, bunch.bClose => x.InRec = << >>
  PROVE  LET y == ReceivedNextBunch(x, bunch)
         IN  /\ KeepsPart(x, y)
             /\ \/ Leaves(x, y)
                \/ ~GoesOn(bunch) /\ \E w \in Bunch : w.bReliable /\ HandledAdds(x, y, w)
<1> DEFINE part == x.InPartialBunch
           retired == [x EXCEPT !.InReliable = bunch.ChSequence]
           y == ReceivedNextBunch(x, bunch)
<1>1. Retired(x, retired) /\ retired.InPartialBunch = part
  BY RetiredFields
<1>2. y = IF ~bunch.bPartial THEN HandleBunch(retired, bunch)
          ELSE IF bunch.bPartialInitial THEN ReceivedPartialInitial(retired, bunch)
          ELSE ReceivedPartialNext(retired, bunch)
  BY DEF ReceivedNextBunch
<1> HIDE DEF retired, y
<1>3. /\ retired \in ReceiverState /\ retired.received = x.received
      /\ retired.stream = x.stream /\ retired.exists = x.exists /\ retired.InRec = x.InRec
      /\ part \in Bunch \cup {None}
  BY <1>1, ReceiverFields DEF Retired
<1>4. ASSUME NEW v, Ignores(retired, v) PROVE KeepsPart(x, v) /\ Leaves(x, v)
  BY <1>1, <1>3, <1>4 DEF Ignores, Leaves, KeepsPart
<1>5. ASSUME NEW v, NEW w, Sets(retired, v, w), w = None \/ w.bReliable
      PROVE KeepsPart(x, v) /\ Leaves(x, v)
  BY <1>3, <1>5 DEF Sets, Leaves, KeepsPart, Unfinished
<1>6. CASE ~bunch.bPartial
  <2>1. Handles(retired, bunch, y)
    BY <1>2, <1>3, <1>6, BunchHandles
  <2>2. KeepsPart(x, y)
    BY <1>1, <1>3, <2>1 DEF Handles, KeepsPart, Unfinished
  <2>3. Leaves(x, y) \/ HandledAdds(x, y, bunch)
    BY <1>3, <2>1 DEF Handles, Leaves, HandledAdds
  <2> QED BY <1>6, <2>2, <2>3 DEF GoesOn, y
<1>7. CASE bunch.bPartial /\ bunch.bPartialInitial
  <2>1. \/ y = Error(retired, "PartialInitialReliableDestroy")
        \/ y = [retired EXCEPT !.InPartialBunch = bunch]
    BY <1>2, <1>7 DEF ReceivedPartialInitial
  <2>2. Ignores(retired, Error(retired, "PartialInitialReliableDestroy"))
    BY <1>3, ErrorIgnores
  <2>3. Sets(retired, [retired EXCEPT !.InPartialBunch = bunch], bunch)
    <3>1. bunch \in Bunch \cup {None}
      OBVIOUS
    <3> QED BY <1>3, <3>1, PartSets
  <2>4. KeepsPart(x, y) /\ Leaves(x, y)
    BY <1>4, <1>5, <2>1, <2>2, <2>3
  <2> QED BY <2>4 DEF y
<1>8. CASE bunch.bPartial /\ ~bunch.bPartialInitial
  <2>1. y = ReceivedPartialNext(retired, bunch)
    BY <1>2, <1>8
  <2>2. CASE ContinuesPartial(retired, bunch)
    <3>1. part \in Bunch /\ part.bReliable
      BY <1>1, <1>3, <2>2 DEF ContinuesPartial
    <3> DEFINE w == Joined(part, bunch)
               z == [retired EXCEPT !.InPartialBunch = w]
    <3>2. w \in Bunch /\ w.bClose = bunch.bClose /\ w.bReliable = part.bReliable
      BY <3>1, JoinedFields
    <3>3. y = IF bunch.bPartialFinal THEN HandleBunch(z, w) ELSE z
      BY <1>1, <2>1, <2>2 DEF ReceivedPartialNext, Joined
    <3> HIDE DEF w
    <3>4. Sets(retired, z, w) /\ z \in ReceiverState /\ z.InRec = x.InRec
      <4>1. w \in Bunch \cup {None}
        BY <3>2
      <4> QED BY <1>3, <4>1, PartSets
    <3> HIDE DEF z
    <3>5. KeepsPart(x, z) /\ Leaves(x, z) /\ z.InPartialBunch = w
      BY <1>5, <3>1, <3>2, <3>4 DEF Sets
    <3>6. CASE ~bunch.bPartialFinal
      BY <3>3, <3>5, <3>6 DEF y
    <3>7. CASE bunch.bPartialFinal
      <4>1. Handles(z, w, y)
        BY <3>2, <3>3, <3>4, <3>7, BunchHandles
      <4>2. KeepsPart(x, y)
        BY <3>1, <3>2, <3>5, <4>1 DEF Handles, KeepsPart, Unfinished
      <4>3. Leaves(x, y) \/ HandledAdds(x, y, w)
        BY <3>5, <4>1 DEF Handles, Leaves, HandledAdds
      <4> QED BY <3>1, <3>2, <3>7, <4>2, <4>3 DEF GoesOn, y
    <3> QED BY <3>6, <3>7
  <2>3. CASE ~ContinuesPartial(retired, bunch) /\ ~HoldsReliablePartial(retired)
    <3> DEFINE noone == None
               z == [retired EXCEPT !.InPartialBunch = noone]
    <3>1. y = SkipAck(z)
      BY <2>1, <2>3 DEF ReceivedPartialNext
    <3>2. noone \in Bunch \cup {None} /\ noone = None
      OBVIOUS
    <3> HIDE DEF noone
    <3>3. Sets(retired, z, noone) /\ z \in ReceiverState
      BY <1>3, <3>2, PartSets
    <3> HIDE DEF z
    <3>4. Ignores(z, y)
      BY <3>1, <3>3, SkipAckIgnores
    <3>5. Sets(retired, y, noone)
      BY <3>3, <3>4 DEF Sets, Ignores, Leaves
    <3> QED BY <1>5, <3>2, <3>5 DEF y
  <2>4. CASE ~ContinuesPartial(retired, bunch) /\ HoldsReliablePartial(retired)
    <3> DEFINE z == SkipAck(retired)
    <3>1. y = Error(z, "PartialMergeReliableDestroy")
      BY <2>1, <2>4 DEF ReceivedPartialNext
    <3>2. Ignores(retired, z) /\ z \in ReceiverState
      BY <1>3, SkipAckIgnores, SkipAckSide DEF Side
    <3> HIDE DEF z
    <3>3. Ignores(z, y)
      BY <3>1, <3>2, ErrorIgnores
    <3>4. Ignores(retired, y)
      BY <3>2, <3>3 DEF Ignores, Leaves
    <3> QED BY <1>4, <3>4 DEF y
  <2> QED BY <2>2, <2>3, <2>4
<1> QED BY <1>6, <1>7, <1>8

-----------------------------------------------------------------------------
(* The next reliable bunch                                                 *)

\* What is pending is the rest of what was sent.
LEMMA PendingRest ==
  ASSUME NEW c, NEW s, c.stream \in Stream, NEW rest \in Stream, s.sent = c.stream \o rest
  PROVE  Pending(c, s) = ToSet(rest)
<1> DEFINE a == c.stream
           x == s.sent
           L == Len(a)
           M == Len(rest)
<1>1. x = a \o rest /\ a \in Stream
  OBVIOUS
<1>2. Pending(c, s) = {x[n] : n \in L + 1 .. Len(x)}
  BY DEF Pending
<1> HIDE DEF a, x
<1>3. /\ L \in Nat /\ M \in Nat /\ Len(x) = L + M /\ DOMAIN rest = 1 .. M
      /\ \A k \in 1 .. M : x[L + k] = rest[k]
  BY <1>1, StreamJoin
<1> HIDE DEF L, M
<1>4. ASSUME NEW n \in L + 1 .. Len(x) PROVE x[n] \in ToSet(rest)
  <2> DEFINE k == n - L
  <2>1. k \in 1 .. M /\ L + k = n
    BY <1>3
  <2> HIDE DEF k
  <2> QED BY <1>3, <2>1 DEF ToSet
<1>5. ASSUME NEW u \in ToSet(rest) PROVE \E n \in L + 1 .. Len(x) : u = x[n]
  <2>1. PICK k \in 1 .. M : u = rest[k]
    BY <1>3 DEF ToSet
  <2>2. L + k \in L + 1 .. Len(x)
    BY <1>3
  <2> QED BY <1>3, <2>1, <2>2
<1> QED BY <1>2, <1>4, <1>5

\* A message ends where the stream does.
LEMMA NextEnds ==
  ASSUME NEW x, NEW y, NEW s, EndsMessage(x, s), InNumber(x) \in Nat,
         NEW n, n = InNumber(x) + 1, InNumber(y) = n,
         \/ InMessage(s, n) /\ y.stream = x.stream
         \/ ~InMessage(s, n) /\ y.stream = Upto(s, n)
  PROVE  EndsMessage(y, s)
<1> DEFINE k == InNumber(x)
<1>1. k \in Nat /\ n = k + 1 /\ n \in Nat
  OBVIOUS
<1>2. CASE InMessage(s, n) /\ y.stream = x.stream
  <2>1. PICK e \in 0 .. k : /\ ~InMessage(s, e) /\ x.stream = Upto(s, e)
                            /\ \A i \in e + 1 .. k : InMessage(s, i)
    BY DEF EndsMessage
  <2> HIDE DEF k
  <2>2. e \in 0 .. n /\ \A i \in e + 1 .. n : i \in e + 1 .. k \/ i = n
    BY <1>1
  <2> QED BY <1>2, <2>1, <2>2 DEF EndsMessage
<1>3. CASE ~InMessage(s, n) /\ y.stream = Upto(s, n)
  <2>1. n \in 0 .. n /\ \A i \in n + 1 .. n : FALSE
    BY <1>1
  <2> QED BY <1>3, <2>1 DEF EndsMessage
<1> QED BY <1>2, <1>3

\* What is added to the stream, up to the end of a message.
AddsRight(x, y, s, m, n, d) ==
  /\ Whole(d) /\ InOrder(d) /\ Below(ToSet(d), m)
  /\ ToSet(d) \subseteq Pending(x, s) /\ ToSet(d) \subseteq ToSet(Upto(s, n))
  /\ Pending(y, s) \subseteq Pending(x, s) /\ NoLater(ToSet(d), Pending(y, s))

\* A reliable message that is complete adds whole messages, in order.
LEMMA StreamAdds ==
  ASSUME NEW s, NEW m, Source(s, m), NEW x \in ReceiverState, NEW y, EndsMessage(x, s),
         InNumber(x) \in 0 .. Count(s), Count(s) \in Nat,
         NEW d \in Seq(Unit), NEW bClose \in BOOLEAN, NEW n \in 0 .. Count(s), ~InMessage(s, n),
         y.stream = x.stream \o Carried(d, bClose), y.stream = Upto(s, n)
  PROVE  AddsRight(x, y, s, m, n, d)
<1> DEFINE a == x.stream
           more == Carried(d, bClose)
<1>1. /\ s \in SenderState /\ NumbersRight(s) /\ s.sent = Upto(s, Count(s))
      /\ InOrder(s.sent) /\ Below(ToSet(s.sent), m)
      /\ \A k \in 0 .. Count(s) : ~InMessage(s, k) => Whole(Upto(s, k))
  BY DEF Source
<1>2. a \in Stream /\ more \in Stream /\ d \in Stream
  BY ReceiverFields, StreamFacts
<1>3. PICK e \in 0 .. InNumber(x) : ~InMessage(s, e) /\ a = Upto(s, e)
  BY DEF EndsMessage
<1>4. e \in 0 .. Count(s)
  BY <1>3
<1>5. a \o more = Upto(s, n) /\ y.stream = a \o more
  OBVIOUS
<1>6. Count(s) \in 0 .. Count(s)
  OBVIOUS
<1>7. PICK rest \in Stream : s.sent = (a \o more) \o rest
  <2>1. IsPart(Upto(s, n), Upto(s, Count(s)))
    BY <1>1, <1>6, UptoBetween
  <2> QED BY <1>1, <1>5, <2>1 DEF IsPart
<1>8. ToSet(d) \subseteq ToSet(more)
  BY CarriedSet
<1>9. Whole(more) => Whole(d)
  BY CloseIsWhole
<1>10. InOrder(more) => InOrder(d)
  <2>1. CASE bClose
    <3>1. CloseMark \in Unit \cup {CloseMark}
      OBVIOUS
    <3>2. more = Append(d, CloseMark)
      BY <2>1 DEF Carried
    <3>3. Append(d, CloseMark) = d \o <<CloseMark>> /\ <<CloseMark>> \in Stream
      BY <1>2, <3>1 DEF Stream
    <3> HIDE DEF more
    <3> QED BY <1>2, <3>2, <3>3, OrderedParts DEF Stream
  <2>2. CASE ~bClose
    BY <2>2 DEF Carried
  <2> QED BY <2>1, <2>2
<1> HIDE DEF a, more
<1>11. a \o more \in Stream /\ more \o rest \in Stream
  BY <1>2, <1>7, StreamFacts
<1>12. InOrder(a \o more) /\ NoLater(ToSet(a \o more), ToSet(rest))
  BY <1>1, <1>7, <1>11, OrderedParts DEF Stream
<1>13. InOrder(more)
  BY <1>2, <1>12, OrderedParts DEF Stream
<1>14. Whole(more)
  <2>1. Whole(a)
    BY <1>1, <1>3, <1>4 DEF a
  <2>2. Whole(a \o more)
    BY <1>1, <1>5
  <2> QED BY <1>2, <2>1, <2>2, WholeRest
<1>15. Pending(y, s) = ToSet(rest)
  <2>1. y.stream \in Stream /\ s.sent = y.stream \o rest
    BY <1>5, <1>7, <1>11
  <2> QED BY <2>1, PendingRest
<1>16. Pending(x, s) = ToSet(more \o rest)
  <2>1. s.sent = a \o (more \o rest)
    BY <1>2, <1>7, StreamsJoin
  <2>2. x.stream \in Stream /\ s.sent = x.stream \o (more \o rest)
    BY <1>2, <2>1 DEF a
  <2> QED BY <1>11, <2>2, PendingRest
<1>17. ToSet(more \o rest) = ToSet(more) \cup ToSet(rest)
  BY <1>2, StreamJoin
<1>18. ToSet(a \o more) = ToSet(a) \cup ToSet(more)
  BY <1>2, StreamJoin
<1>19. ToSet(s.sent) = ToSet(a \o more) \cup ToSet(rest)
  BY <1>7, <1>11, StreamJoin
<1>20. ToSet(d) \subseteq ToSet(s.sent) /\ ToSet(d) \subseteq ToSet(a \o more)
  BY <1>8, <1>18, <1>19
<1>21. Below(ToSet(d), m)
  BY <1>1, <1>20 DEF Below
<1>22. NoLater(ToSet(d), Pending(y, s))
  BY <1>12, <1>15, <1>20, NoLaterParts
<1>23. ToSet(d) \subseteq Pending(x, s) /\ Pending(y, s) \subseteq Pending(x, s)
  BY <1>8, <1>15, <1>16, <1>17
<1>24. ToSet(d) \subseteq ToSet(Upto(s, n))
  BY <1>5, <1>20
<1> QED BY <1>9, <1>10, <1>13, <1>14, <1>21, <1>22, <1>23, <1>24 DEF AddsRight

\* The updates among the numbers that the client has are no later than those ahead.
LEMMA NumbersNoLater ==
  ASSUME NEW s \in SenderState, NumbersRight(s), NEW y, NEW A, HasRight(y, s, A),
         NEW n \in 0 .. Count(s), InNumber(y) = n, Count(s) \in Nat
  PROVE  NoLater(ToSet(Upto(s, n)), A)
<1>1. \A u \in ToSet(Upto(s, n)) : IsUpdate(u) =>
        \E k \in 1 .. n : u \in ToSet(Numbered(s, k).Data)
  BY UptoFrom
<1>2. ASSUME NEW k \in 1 .. n PROVE NoLater(ToSet(Numbered(s, k).Data), A)
  <2>1. k \in 1 .. Count(s) /\ k <= n
    OBVIOUS
  <2>2. Has(y, k)
    BY <2>1 DEF Has
  <2> QED BY <2>1, <2>2 DEF HasRight
<1> QED BY <1>1, <1>2 DEF NoLater

\* A last bunch that closes has none that wait behind it.
LEMMA NoneBehind ==
  ASSUME NEW s \in SenderState, NumbersRight(s), NEW x, Receiving(x, s, 1),
         NEW bunch, NextIs(s, InNumber(x), bunch), bunch.bClose
  PROVE  x.InRec = << >>
<1> SUFFICES ASSUME x.InRec # << >> PROVE FALSE
  OBVIOUS
<1> DEFINE k == InNumber(x)
           C == Count(s)
<1>1. x \in ReceiverState /\ C \in Nat /\ k \in 0 .. C
  BY ReceivingCounts
<1>2. k + 1 = C
  BY DEF NextIs
<1>3. 1 \in DOMAIN x.InRec
  BY <1>1, ReceiverFields
<1>4. PICK n \in k + 1 + 1 .. C : x.InRec[1] = Numbered(s, n)
  BY <1>3 DEF QueueRight, Receiving
<1> QED BY <1>1, <1>2, <1>4

\* The next reliable bunch is handled rightly.
LEMMA NextHandled ==
  ASSUME NEW s, NEW m, Source(s, m), NEW x, Receiving(x, s, 1),
         NEW bunch, NextIs(s, InNumber(x), bunch), InNumber(x) < Count(s),
         NEW A, HandledRight(x, s, m, A), NEW y, y = ReceivedNextBunch(x, bunch),
         NextDone(s, x, y), HasRight(y, s, A)
  PROVE  HandledRight(y, s, m, A) /\ KeepsPart(x, y)
<1> DEFINE k == InNumber(x)
           n == k + 1
<1>1. s \in SenderState /\ NumbersRight(s)
  BY DEF Source
<1>2. /\ x \in ReceiverState /\ Count(s) \in Nat /\ k \in 0 .. Count(s)
      /\ x.InReliable = InitReliable + k /\ InitReliable \in Nat
  BY <1>1, ReceivingCounts, Constants
<1>3. /\ bunch = Numbered(s, n) /\ bunch \in Bunch /\ bunch.bReliable
      /\ bunch.ChSequence = InitReliable + k + 1
  BY DEF NextIs
<1>4. bunch.bClose => x.InRec = << >>
  BY <1>1, NoneBehind
<1>5. InNumber(y) = n /\ PartialRight(y, s)
  BY DEF NextDone, Receiving
<1>6. /\ KeepsPart(x, y)
      /\ \/ Leaves(x, y)
         \/ ~GoesOn(bunch) /\ \E w \in Bunch : w.bReliable /\ HandledAdds(x, y, w)
  <2>1. bunch.ChSequence = x.InReliable + 1
    BY <1>2, <1>3
  <2> QED BY <1>2, <1>3, <1>4, <2>1, NextHandles
<1>7. k < Count(s) /\ EndsMessage(x, s) /\ InNumber(x) = k
  BY DEF HandledRight
<1> HIDE DEF k
<1>8. k \in Nat /\ n \in Nat /\ n \in 0 .. Count(s) /\ n # 0 /\ InNumber(x) \in 0 .. Count(s)
  BY <1>2, <1>7
<1> HIDE DEF n
<1>9. InMessage(s, n) <=> GoesOn(bunch)
  BY <1>3, <1>8 DEF InMessage
<1>10. ~InMessage(s, n) => y.stream = Upto(s, n)
  BY <1>5 DEF PartialRight
<1>11. CASE InMessage(s, n)
  <2>1. Leaves(x, y) /\ y.stream = x.stream
    BY <1>6, <1>9, <1>11 DEF Leaves
  <2>2. EndsMessage(y, s)
    BY <1>5, <1>7, <1>8, <1>11, <2>1, NextEnds DEF n
  <2> QED BY <1>6, <2>1, <2>2, HandledSame
<1>12. CASE ~InMessage(s, n)
  <2>1. y.stream = Upto(s, n)
    BY <1>10, <1>12
  <2>2. EndsMessage(y, s)
    BY <1>5, <1>7, <1>8, <1>12, <2>1, NextEnds DEF n
  <2>3. CASE Leaves(x, y)
    BY <1>6, <2>2, <2>3, HandledSame
  <2>4. CASE \E w \in Bunch : w.bReliable /\ HandledAdds(x, y, w)
    <3>1. PICK w \in Bunch : w.bReliable /\ HandledAdds(x, y, w)
      BY <2>4
    <3> DEFINE d == w.Data
    <3>2. w.bClose \in BOOLEAN /\ d \in Seq(Unit)
      BY BunchFields
    <3>3. y.stream = x.stream \o Carried(d, w.bClose)
      BY <3>1 DEF HandledAdds
    <3>4. AddsRight(x, y, s, m, n, d)
      BY <1>2, <1>7, <1>8, <1>12, <2>1, <3>2, <3>3, StreamAdds
    <3>5. /\ Whole(d) /\ InOrder(d) /\ Below(ToSet(d), m)
          /\ ToSet(d) \subseteq Pending(x, s) /\ ToSet(d) \subseteq ToSet(Upto(s, n))
          /\ Pending(y, s) \subseteq Pending(x, s) /\ NoLater(ToSet(d), Pending(y, s))
      BY <3>4 DEF AddsRight
    <3>6. NoLater(ToSet(d), A)
      <4>1. NoLater(ToSet(Upto(s, n)), A)
        BY <1>1, <1>2, <1>5, <1>8, NumbersNoLater
      <4> QED BY <3>5, <4>1, NoLaterParts
    <3>7. NoLater(HandledUnits(x), ToSet(d))
      <4>1. NoLater(HandledUnits(x), Pending(x, s))
        BY HandledInSent
      <4> QED BY <3>5, <4>1, NoLaterParts
    <3>8. HandledRight(y, s, m, A)
      BY <1>2, <2>2, <3>1, <3>5, <3>6, <3>7, HandledMore
    <3> QED BY <1>6, <3>8
  <2> QED BY <1>6, <2>3, <2>4
<1> QED BY <1>11, <1>12

-----------------------------------------------------------------------------
(* The bunches that waited                                                 *)

\* HasRight, of a client that has no more bunches.
LEMMA HasFewer ==
  ASSUME NEW x, NEW y, \A n \in Nat : Has(y, n) => Has(x, n), NEW s, NEW A, HasRight(x, s, A)
  PROVE  HasRight(y, s, A)
<1>1. \A k \in 1 .. Count(s) : k \in Nat
  OBVIOUS
<1> QED BY <1>1 DEF HasRight

\* The bunches the client has are no later than those ahead.
LEMMA HasOf ==
  ASSUME NEW x, NEW s, NEW m, NEW A, HandledRight(x, s, m, A)
  PROVE  HasRight(x, s, A)
BY DEF HasRight, HandledRight

\* With the same stream up to the same number.
LEMMA SameEnds ==
  ASSUME NEW x, NEW y, NEW s, y.stream = x.stream, y.InReliable = x.InReliable,
         EndsMessage(x, s)
  PROVE  EndsMessage(y, s)
<1>1. InNumber(y) = InNumber(x)
  BY DEF InNumber
<1> QED BY <1>1 DEF EndsMessage

\* Taking the first bunch of the queue handles nothing.
LEMMA TakenHandled ==
  ASSUME NEW x \in ReceiverState, x.InRec # << >>, NEW s, NEW m, NEW A, HandledRight(x, s, m, A)
  PROVE  HandledRight(Taken(x), s, m, A) /\ KeepsPart(x, Taken(x))
<1> DEFINE p == Taken(x)
<1>1. /\ p.exists = x.exists /\ p.InPartialBunch = x.InPartialBunch
      /\ p.InReliable = x.InReliable /\ p.received = x.received /\ p.stream = x.stream
      /\ InNumber(p) = InNumber(x) /\ DOMAIN p.InRec = 1 .. Len(x.InRec) - 1
      /\ \A m1 \in 1 .. Len(x.InRec) - 1 : p.InRec[m1] = x.InRec[m1 + 1]
  BY TakenFields
<1>2. Len(x.InRec) \in Nat /\ DOMAIN x.InRec = 1 .. Len(x.InRec)
  BY ReceiverFields
<1> HIDE DEF p
<1>3. \A n \in Nat : Has(p, n) => Has(x, n)
  <2>1. \A i \in 1 .. Len(x.InRec) - 1 : i + 1 \in 1 .. Len(x.InRec)
    BY <1>2
  <2> QED BY <1>1, <1>2, <2>1 DEF Has
<1>4. HasRight(p, s, A)
  BY <1>3, HasFewer, HasOf
<1>5. Leaves(x, p) /\ KeepsPart(x, p)
  BY <1>1 DEF Leaves, KeepsPart
<1>6. EndsMessage(p, s)
  BY <1>1, SameEnds DEF HandledRight
<1> QED BY <1>4, <1>5, <1>6, HandledSame DEF p

\* The bunches that waited in the queue are handled rightly.
LEMMA UnleashHandled ==
  ASSUME NEW s, NEW m, Source(s, m), NEW x, ClientRight(x, s, 0), x.exists \/ x.InRec = << >>,
         NEW A, HandledRight(x, s, m, A), NEW bunch
  PROVE  HandledRight(Unleash(x, bunch), s, m, A) /\ KeepsPart(x, Unleash(x, bunch))
<1> DEFINE u == Unleash(x, bunch)
<1>1. x \in ReceiverState /\ s \in SenderState /\ NumbersRight(s)
  BY DEF ClientRight, Source
<1>2. x.InRec \in Seq(Bunch) /\ Len(x.InRec) \in Nat /\ DOMAIN x.InRec = 1 .. Len(x.InRec)
  BY <1>1, ReceiverFields
<1>3. CASE x.InRec # << >> /\ Head(x.InRec) = bunch /\ bunch.ChSequence = x.InReliable + 1
  <2> DEFINE p == Taken(x)
             z == ReceivedNextBunch(p, bunch)
  <2>1. x.InRec[1] = bunch /\ x.exists
    BY <1>2, <1>3
  <2>2. u = [z EXCEPT !.bSkipAck = x.bSkipAck]
    BY <1>3 DEF Unleash, Taken
  <2> HIDE DEF u
  <2>3. /\ InNumber(x) < Count(s) /\ x.InRec[1] = Numbered(s, InNumber(x) + 1)
        /\ Receiving(p, s, 1)
    BY <1>1, <1>3, <2>1, TakenRight
  <2>4. p.exists = x.exists /\ p.bSkipAck = x.bSkipAck /\ InNumber(p) = InNumber(x)
    BY <1>1, <1>3, TakenFields
  <2>5. NextIs(s, InNumber(p), bunch)
    <3>1. InNumber(p) \in Nat /\ Released(s) <= InNumber(p)
      BY <1>1, <2>3, ReceivingCounts
    <3>2. InNumber(p) < Count(s)
      BY <2>3, <2>4
    <3>3. NextIs(s, InNumber(p), Numbered(s, InNumber(p) + 1))
      BY <1>1, <3>1, <3>2, NextNumber
    <3> QED BY <2>1, <2>3, <2>4, <3>3
  <2>6. p.exists /\ InNumber(p) < Count(s)
    BY <2>1, <2>3, <2>4
  <2>7. NextDone(s, p, z)
    BY <1>1, <2>3, <2>5, <2>6, NextRight
  <2>8. HandledRight(p, s, m, A) /\ KeepsPart(x, p)
    BY <1>1, <1>3, TakenHandled
  <2>9. z = ReceivedNextBunch(p, bunch)
    OBVIOUS
  <2> HIDE DEF z
  <2>10. HasRight(z, s, A)
    <3>1. \A n \in Nat : Has(z, n) => Has(x, n)
      BY <1>1, <1>3, <2>1, <2>7, TakenGrows
    <3> QED BY <3>1, HasFewer, HasOf
  <2> HIDE DEF p
  <2>11. HandledRight(z, s, m, A) /\ KeepsPart(p, z)
    BY <2>3, <2>5, <2>6, <2>7, <2>8, <2>9, <2>10, NextHandled
  <2>12. u = z
    <3>1. z.bSkipAck = x.bSkipAck /\ z \in ReceiverState
      BY <2>4, <2>7 DEF NextDone, Receiving
    <3> QED BY <2>2, <3>1 DEF ReceiverState
  <2>13. KeepsPart(x, z)
    BY <2>8, <2>11, KeepsTransitive
  <2> QED BY <2>11, <2>12, <2>13 DEF u
<1>4. CASE ~(x.InRec # << >> /\ Head(x.InRec) = bunch /\ bunch.ChSequence = x.InReliable + 1)
  <2>1. u = x
    BY <1>4 DEF Unleash
  <2> QED BY <2>1 DEF KeepsPart
<1> QED BY <1>3, <1>4

\* The loop over them
LEMMA WaitingHandled ==
  ASSUME NEW s, NEW m, Source(s, m), NEW y, ClientRight(y, s, 0), y.exists \/ y.InRec = << >>,
         NEW A, HandledRight(y, s, m, A)
  PROVE  HandledRight(DispatchWaiting(y), s, m, A) /\ KeepsPart(y, DispatchWaiting(y))
<1> DEFINE q == y.InRec
           L == Len(q)
           Also(i, x) == /\ Waits(s, y, q, i, x)
                         /\ HandledRight(x, s, m, A) /\ KeepsPart(y, x)
           Step(i, x) == Unleash(x, q[i])
           F == [p \in (1 .. L) \X ReceiverState |-> Step(p[1], p[2])]
           G == {p \in (0 .. L) \X ReceiverState : Also(p[1], p[2])}
           g == AfterWaiting(y)
<1>0. s \in SenderState /\ NumbersRight(s)
  BY DEF Source
<1>1. y \in ReceiverState /\ L \in Nat /\ q \in Seq(Bunch)
  <2>1. y \in ReceiverState
    BY DEF ClientRight
  <2> QED BY <2>1, ReceiverFields
<1>2. Also(0, y)
  <2>1. Grows(y, y)
    BY <1>1, GrowsItself
  <2>2. L = L - 0 /\ \A i \in 1 .. L - 0 : 0 + i = i
    BY <1>1
  <2>3. \A i \in 1 .. L - 0 : q[i] = q[0 + i]
    BY <2>2
  <2>4. Waits(s, y, q, 0, y)
    BY <2>1, <2>2, <2>3 DEF Waits
  <2> QED BY <2>4 DEF KeepsPart
<1> HIDE DEF q
<1>3. ASSUME NEW i \in 1 .. L, NEW x \in ReceiverState, Also(i - 1, x)
      PROVE  Step(i, x) \in ReceiverState /\ Also(i, Step(i, x))
  <2>1. Waits(s, y, q, i, Step(i, x))
    BY <1>0, <1>1, <1>3, WaitStep
  <2>2. ClientRight(x, s, 0) /\ (x.exists \/ x.InRec = << >>)
    BY <1>3 DEF Waits
  <2>3. HandledRight(Step(i, x), s, m, A) /\ KeepsPart(x, Step(i, x))
    BY <1>3, <2>2, UnleashHandled
  <2>4. KeepsPart(y, Step(i, x))
    BY <1>3, <2>3, KeepsTransitive
  <2> QED BY <2>1, <2>3, <2>4 DEF Waits, ClientRight
<1>4. g = CHOOSE f : f = [i \in 0 .. L |-> IF i = 0 THEN y ELSE Step(i, f[i - 1])]
  BY DEF AfterWaiting, q
<1> HIDE DEF Step, g, L, Also
<1>5. \A i \in 1 .. L : \A x \in ReceiverState : F[<<i, x>>] = Step(i, x)
  OBVIOUS
<1> HIDE DEF F
<1>6. Keeps(L, ReceiverState, F, y, G)
  <2>1. <<0, y>> \in G
    BY <1>1, <1>2
  <2>2. ASSUME NEW i \in 1 .. L, NEW x \in ReceiverState, <<i - 1, x>> \in G
        PROVE  F[<<i, x>>] \in ReceiverState /\ <<i, F[<<i, x>>]>> \in G
    <3>1. Also(i - 1, x)
      BY <2>2
    <3>2. i \in 0 .. L
      BY <1>1
    <3> QED BY <1>3, <1>5, <3>1, <3>2
  <2> QED BY <1>1, <2>1, <2>2 DEF Keeps
<1> HIDE DEF G
<1>7. PICK f \in [0 .. L -> ReceiverState] :
        f[0] = y /\ \A i \in 1 .. L : f[i] = F[<<i, f[i - 1]>>]
  BY <1>1, <1>6, LoopExists
<1>8. f = [i \in 0 .. L |-> IF i = 0 THEN y ELSE Step(i, f[i - 1])]
  <2>1. ASSUME NEW i \in 0 .. L, i # 0 PROVE f[i] = Step(i, f[i - 1])
    <3>1. i - 1 \in 0 .. L /\ i \in 1 .. L
      BY <1>1, <2>1
    <3> QED BY <1>5, <1>7, <3>1
  <2> QED BY <1>7, <2>1
<1>9. g = [i \in 0 .. L |-> IF i = 0 THEN y ELSE Step(i, g[i - 1])]
  BY <1>4, <1>8
<1>10. Follows(L, ReceiverState, F, y, g)
  <2>1. 0 \in 0 .. L /\ \A i \in 1 .. L : i \in 0 .. L /\ i # 0
    BY <1>1
  <2> QED BY <1>5, <1>9, <2>1 DEF Follows
<1>11. \A i \in 0 .. L : g[i] \in ReceiverState /\ <<i, g[i]>> \in G
  BY <1>1, <1>6, <1>10, LoopKeeps
<1>12. L \in 0 .. L
  BY <1>1
<1>13. Also(L, g[L])
  BY <1>11, <1>12 DEF G
<1>14. g[L] = DispatchWaiting(y)
  BY DEF DispatchWaiting, g, L, q
<1> QED BY <1>13, <1>14 DEF Also

-----------------------------------------------------------------------------
(* A reliable bunch of a packet                                            *)

\* The client has one bunch more.
LEMMA LearnedRight ==
  ASSUME NEW x, NEW y, NEW s, NEW A, HasRight(x, s, A), NEW n, Learns(x, y, n),
         n # 0 => NoLater(ToSet(Numbered(s, n).Data), A)
  PROVE  HasRight(y, s, A)
<1> SUFFICES ASSUME NEW k \in 1 .. Count(s), Has(y, k)
             PROVE  NoLater(ToSet(Numbered(s, k).Data), A)
  BY DEF HasRight
<1>1. k \in Nat /\ k # 0
  OBVIOUS
<1>2. Has(x, k) \/ k = n
  BY <1>1 DEF Learns
<1>3. CASE Has(x, k)
  BY <1>3 DEF HasRight
<1>4. CASE k = n
  BY <1>1, <1>4
<1> QED BY <1>2, <1>3, <1>4

\* Creating the channel handles nothing.
LEMMA CreatedHandled ==
  ASSUME NEW s, NEW m, NEW A, NEW c, ClientRight(c, s, 1), HandledRight(c, s, m, A)
  PROVE  HandledRight(Created(c), s, m, A) /\ KeepsPart(c, Created(c))
<1> DEFINE yes == TRUE
           x == [c EXCEPT !.exists = yes]
<1>1. Created(c) = x /\ yes = TRUE
  BY DEF Created
<1> HIDE DEF yes
<1>2. /\ x.received = c.received /\ x.stream = c.stream /\ x.InReliable = c.InReliable
      /\ x.InPartialBunch = c.InPartialBunch /\ x.exists = yes
  BY DEF ReceiverState, ClientRight
<1>3. Learns(c, Created(c), 0)
  BY CreatedRight
<1> HIDE DEF x
<1>4. Learns(c, x, 0)
  BY <1>1, <1>3
<1>5. HasRight(x, s, A)
  BY <1>4, LearnedRight, HasOf
<1>6. EndsMessage(x, s)
  BY <1>2, SameEnds DEF HandledRight
<1>7. Leaves(c, x) /\ KeepsPart(c, x)
  BY <1>1, <1>2 DEF Leaves, KeepsPart
<1>8. HandledRight(x, s, m, A)
  BY <1>5, <1>6, <1>7, HandledSame
<1> QED BY <1>1, <1>7, <1>8

\* Queueing a bunch handles nothing.
LEMMA QueueIgnores ==
  ASSUME NEW x \in ReceiverState, NEW bunch
  PROVE  Ignores(x, Queue(x, bunch)) /\ Queue(x, bunch).InReliable = x.InReliable
<1> DEFINE w == InsertAt(x.InRec, Cardinality({i \in DOMAIN x.InRec :
                          x.InRec[i].ChSequence < bunch.ChSequence}) + 1, bunch)
           p == [x EXCEPT !.InRec = w]
           e == Append(p.errors, "MaxReliableExceeded")
           z == [p EXCEPT !.errors = e]
           y == Queue(x, bunch)
<1>1. y = x \/ y = p \/ y = z
  BY DEF Queue, Error
<1> HIDE DEF w, y
<1>2. /\ p.received = x.received /\ p.stream = x.stream /\ p.InReliable = x.InReliable
      /\ p.InPartialBunch = x.InPartialBunch /\ p.exists = x.exists
  BY DEF ReceiverState
<1>3. DOMAIN p = DOMAIN x
  OBVIOUS
<1> HIDE DEF e
<1>4. /\ z.received = p.received /\ z.stream = p.stream /\ z.InReliable = p.InReliable
      /\ z.InPartialBunch = p.InPartialBunch /\ z.exists = p.exists
  BY <1>3 DEF ReceiverState
<1> HIDE DEF p, z
<1> QED BY <1>1, <1>2, <1>4 DEF Ignores, Leaves, y

\* A bunch in the queue is right to wait.
LEMMA QueueHandled ==
  ASSUME NEW s, NEW m, NEW A, NEW x \in ReceiverState, HandledRight(x, s, m, A),
         NEW bunch, NEW n, Learns(x, Queue(x, bunch), n),
         n # 0 => NoLater(ToSet(Numbered(s, n).Data), A)
  PROVE  HandledRight(Queue(x, bunch), s, m, A) /\ KeepsPart(x, Queue(x, bunch))
<1> DEFINE y == Queue(x, bunch)
<1>1. Ignores(x, y) /\ y.InReliable = x.InReliable /\ Learns(x, y, n)
  BY QueueIgnores
<1> HIDE DEF y
<1>2. HasRight(y, s, A)
  BY <1>1, LearnedRight, HasOf
<1>3. Leaves(x, y) /\ y.stream = x.stream /\ KeepsPart(x, y)
  BY <1>1 DEF Ignores, Leaves, KeepsPart
<1>4. EndsMessage(y, s)
  BY <1>1, <1>3, SameEnds DEF HandledRight
<1> QED BY <1>2, <1>3, <1>4, HandledSame DEF y

\* ReceivedRawBunch, for a reliable bunch that the client is not past.
LEMMA ReliableHandled ==
  ASSUME NEW s, NEW m, Source(s, m), Room(s), NEW c, ClientRight(c, s, 1),
         NEW n \in Nat, Ahead(c, s, n), NEW bunch, bunch = Numbered(s, n),
         NEW A, HandledRight(c, s, m, A), NoLater(ToSet(bunch.Data), A)
  PROVE  LET y == ReceivedRawBunch(Created(c), bunch)
         IN  HandledRight(y, s, m, A) /\ KeepsPart(c, y)
<1> DEFINE x == Created(c)
           y == ReceivedRawBunch(x, bunch)
           next == ReceivedNextBunch(x, bunch)
           k == InNumber(x)
<1>0. s \in SenderState /\ NumbersRight(s)
  BY DEF Source
<1>1. /\ Receiving(x, s, 1) /\ x.exists /\ k = InNumber(c) /\ x \in ReceiverState
  BY CreatedRight
<1>2. HandledRight(x, s, m, A) /\ KeepsPart(c, x)
  BY CreatedHandled
<1> HIDE DEF x
<1>3. /\ Count(s) \in Nat /\ k \in 0 .. Count(s) /\ Released(s) <= k
      /\ x.InReliable = InitReliable + k /\ InitReliable \in Nat
  BY <1>0, <1>1, ReceivingCounts, Constants
<1>4. n \in k + 1 .. Count(s) /\ n \in 1 .. Count(s) /\ n # 0
  BY <1>1, <1>3 DEF Ahead
<1>5. bunch.bReliable /\ bunch.ChSequence = InitReliable + n
  <2>1. NumberRight(s, n)
    BY <1>0, <1>4 DEF NumbersRight
  <2> QED BY <2>1 DEF NumberRight
<1>6. CASE n = k + 1
  <2>1. y = IF next.exists /\ next.errors = x.errors THEN DispatchWaiting(next) ELSE next
    BY <1>3, <1>5, <1>6 DEF ReceivedRawBunch
  <2>2. k \in Nat /\ k < Count(s)
    BY <1>3, <1>4, <1>6
  <2>3. NextIs(s, k, bunch)
    <3>1. NextIs(s, k, Numbered(s, k + 1))
      <4> HIDE DEF k
      <4> QED BY <1>0, <1>3, <2>2, NextNumber
    <3> QED BY <1>6, <3>1
  <2>4. NextDone(s, x, next)
    BY <1>0, <1>1, <2>2, <2>3, NextRight
  <2>5. next = ReceivedNextBunch(x, bunch)
    OBVIOUS
  <2> HIDE DEF next, y
  <2>6. Learns(x, next, n) /\ next \in ReceiverState
    BY <1>0, <1>1, <1>6, <2>4, NextLearns DEF k
  <2>7. HasRight(next, s, A)
    BY <1>2, <2>6, LearnedRight, HasOf
  <2>8. HandledRight(next, s, m, A) /\ KeepsPart(x, next)
    BY <1>1, <1>2, <2>2, <2>3, <2>4, <2>5, <2>7, NextHandled DEF k
  <2>9. KeepsPart(c, next)
    BY <1>2, <2>8, KeepsTransitive
  <2>10. /\ Receiving(next, s, 0)
         /\ \/ ~next.exists /\ next.InRec = << >>
            \/ next.exists /\ InUse(next, s)
    BY <2>4 DEF NextDone
  <2>11. ClientRight(next, s, 0) /\ (next.exists \/ next.InRec = << >>)
    BY <2>10, ClientParts DEF InUse
  <2>12. HandledRight(DispatchWaiting(next), s, m, A) /\ KeepsPart(next, DispatchWaiting(next))
    BY <2>8, <2>11, WaitingHandled
  <2>13. KeepsPart(c, DispatchWaiting(next))
    BY <2>9, <2>12, KeepsTransitive
  <2> QED BY <2>1, <2>8, <2>9, <2>12, <2>13 DEF y, x
<1>7. CASE n # k + 1
  <2>1. y = Queue(x, bunch)
    <3>1. bunch.ChSequence # x.InReliable + 1
      BY <1>3, <1>4, <1>5, <1>7
    <3> QED BY <1>5, <3>1 DEF ReceivedRawBunch
  <2> HIDE DEF y
  <2>2. Early(x, s, n)
    <3>1. n \in k + 1 + 1 .. Count(s)
      BY <1>3, <1>4, <1>7
    <3> QED BY <3>1 DEF Early
  <2>3. Dealt(s, x, y, n)
    BY <1>0, <1>1, <2>1, <2>2, QueueIsRight
  <2>4. HandledRight(y, s, m, A) /\ KeepsPart(x, y)
    BY <1>1, <1>2, <1>4, <2>1, <2>3, QueueHandled DEF Dealt
  <2>5. KeepsPart(c, y)
    BY <1>2, <2>4, KeepsTransitive
  <2> QED BY <2>4, <2>5 DEF y, x
<1> QED BY <1>6, <1>7

\* DispatchBunch, for a reliable bunch.
LEMMA ReliableDelivered ==
  ASSUME NEW s, NEW m, Source(s, m), Room(s), NEW c, ClientRight(c, s, 1),
         NEW wire, InFlight(s, wire), wire.bReliable, NEW id,
         NEW A, HandledRight(c, s, m, A), NoLater(ToSet(wire.Data), A)
  PROVE  LET y == DispatchBunch(c, wire, id)
         IN  HandledRight(y, s, m, A) /\ KeepsPart(c, y)
<1> DEFINE y == DispatchBunch(c, wire, id)
           k == InNumber(c)
<1>0. s \in SenderState /\ NumbersRight(s)
  BY DEF Source
<1>1. /\ Count(s) \in Nat /\ Released(s) \in 0 .. Count(s)
      /\ k \in 0 .. Count(s) /\ c.InReliable = InitReliable + k /\ InitReliable \in Nat
  <2> DEFINE gap == 1
  <2>1. gap \in {0, 1} /\ ClientRight(c, s, gap)
    OBVIOUS
  <2> HIDE DEF gap
  <2> QED BY <1>0, <2>1, ClientCounts, Constants
<1>2. PICK n \in Released(s) + 1 .. Count(s) : wire = Numbered(s, n)
  BY DEF InFlight
<1>3. n \in 1 .. Count(s) /\ n \in Nat
  BY <1>1
<1>4. wire.ChSequence = InitReliable + n
  <2>1. NumberRight(s, n)
    BY <1>0, <1>3 DEF NumbersRight
  <2> QED BY <1>2, <2>1 DEF NumberRight
<1>5. y = IF wire.ChSequence <= c.InReliable THEN c ELSE ReceivedRawBunch(Created(c), wire)
  BY <1>0, ReliableWire
<1> HIDE DEF y
<1>6. CASE wire.ChSequence <= c.InReliable
  BY <1>5, <1>6 DEF KeepsPart, y
<1>7. CASE ~(wire.ChSequence <= c.InReliable)
  <2>1. Ahead(c, s, n)
    <3>1. n \in k + 1 .. Count(s)
      BY <1>1, <1>3, <1>4, <1>7
    <3> QED BY <3>1 DEF Ahead
  <2> DEFINE z == ReceivedRawBunch(Created(c), wire)
  <2>2. HandledRight(z, s, m, A) /\ KeepsPart(c, z)
    BY <1>2, <1>3, <2>1, ReliableHandled
  <2>3. y = z
    BY <1>5, <1>7
  <2> HIDE DEF z
  <2> QED BY <2>2, <2>3 DEF y
<1> QED BY <1>6, <1>7

-----------------------------------------------------------------------------
(* Where a client is in the packets                                        *)

\* Bunch j of packet id.
IsBunch(s, id, j, wire) ==
  id \in DOMAIN s.network /\ j \in DOMAIN s.network[id] /\ wire = s.network[id][j]

\* A bunch of a packet that was sent.
LEMMA BunchPlace ==
  ASSUME NEW s \in SenderState, NEW id, NEW j, NEW wire, IsBunch(s, id, j, wire)
  PROVE  /\ id \in Nat /\ j \in Nat /\ j # 0 /\ Packet(s, id) = s.network[id]
         /\ j \in DOMAIN Packet(s, id) /\ Packet(s, id)[j] = wire
         /\ wire \in Bunch /\ wire \in InPacket(s, id)
<1>1. id \in Nat /\ Packet(s, id) = s.network[id]
  BY SenderLengths DEF IsBunch, Packet
<1>2. DOMAIN Packet(s, id) = 1 .. Len(Packet(s, id)) /\ j \in DOMAIN Packet(s, id)
  BY <1>1, PacketFields DEF IsBunch
<1>3. Packet(s, id)[j] = wire
  BY <1>1 DEF IsBunch
<1>4. wire \in Bunch /\ wire \in InPacket(s, id)
  BY <1>1, <1>2, <1>3, PacketFields
<1>5. Len(Packet(s, id)) \in Nat
  BY <1>1, PacketFields
<1>6. j \in Nat /\ j # 0
  BY <1>2, <1>5
<1> QED BY <1>1, <1>2, <1>3, <1>4, <1>6

\* The next part of a message that is not complete comes next, unless packets were lost.
LEMMA FollowsPart ==
  ASSUME NEW s \in SenderState, NEW m, MessagesRight(s, m), NEW id, NEW j, NEW wire,
         IsBunch(s, id, j, wire), NEW x, Unfinished(x), UnfinishedRight(x, s, id, j - 1)
  PROVE  \/ x.InPartialBunch.ChSequence < id - 1
         \/ Joins(Last(x.InPartialBunch.Data), wire)
<1> DEFINE at == x.InPartialBunch.ChSequence
           unit == Last(x.InPartialBunch.Data)
<1>1. /\ id \in Nat /\ j \in Nat /\ j # 0 /\ Packet(s, id) = s.network[id]
      /\ j \in DOMAIN Packet(s, id) /\ Packet(s, id)[j] = wire
  BY BunchPlace
<1>2. /\ Len(Packet(s, id)) \in Nat /\ DOMAIN Packet(s, id) = 1 .. Len(Packet(s, id))
  BY <1>1, PacketFields
<1>3. Chained(s, {}) /\ s.network[id] # << >>
  BY DEF MessagesRight, WireRight, IsBunch
<1>4. \A n \in DOMAIN s.network : n \in Nat /\ Packet(s, n) = s.network[n]
  BY SenderLengths DEF Packet
<1>5. \/ at < id - 1
      \/ at = id - 1 /\ j - 1 = 0 /\ LastPart(x, s, at, Len(s.network[at]))
      \/ at = id /\ LastPart(x, s, at, j - 1)
  BY DEF UnfinishedRight
<1> HIDE DEF at
<1>6. CASE at = id - 1 /\ j - 1 = 0 /\ LastPart(x, s, at, Len(s.network[at]))
  <2> DEFINE l == Len(s.network[at])
  <2>1. /\ at \in DOMAIN s.network /\ l \in DOMAIN s.network[at]
        /\ ~s.network[at][l].bReliable /\ GoesOn(s.network[at][l])
        /\ Last(s.network[at][l].Data) = unit
    BY <1>6 DEF LastPart
  <2>2. at \in Nat /\ Packet(s, at) = s.network[at]
    BY <1>4, <2>1
  <2>3. FollowedIn(s, at, l, {})
    BY <1>3, <2>1, <2>2 DEF Chained
  <2>4. at + 1 = id /\ j = 1
    BY <1>1, <1>6, <2>2
  <2>5. l = Len(Packet(s, at)) /\ Packet(s, at)[l] = s.network[at][l]
    BY <2>2
  <2> HIDE DEF l
  <2>6. Joins(unit, Packet(s, id)[1])
    BY <1>1, <1>3, <2>1, <2>3, <2>4, <2>5 DEF FollowedIn
  <2> QED BY <1>1, <2>4, <2>6
<1>7. CASE at = id /\ LastPart(x, s, at, j - 1)
  <2> DEFINE l == j - 1
  <2>1. /\ l \in DOMAIN s.network[id]
        /\ ~s.network[id][l].bReliable /\ GoesOn(s.network[id][l])
        /\ Last(s.network[id][l].Data) = unit
    BY <1>7 DEF LastPart
  <2>2. FollowedIn(s, id, l, {})
    BY <1>1, <1>3, <2>1 DEF Chained
  <2>3. l # Len(Packet(s, id)) /\ l + 1 = j
    BY <1>1, <1>2
  <2> HIDE DEF l
  <2>4. Joins(unit, Packet(s, id)[j])
    BY <1>1, <2>1, <2>2, <2>3 DEF FollowedIn
  <2> QED BY <1>1, <2>4
<1> QED BY <1>5, <1>6, <1>7 DEF at

\* A bunch that does not go on with it comes after a packet was lost.
LEMMA PartIsOld ==
  ASSUME NEW s \in SenderState, NEW m, MessagesRight(s, m), NEW id, NEW j, NEW wire,
         IsBunch(s, id, j, wire), NEW x, UnfinishedRight(x, s, id, j - 1),
         wire.bReliable \/ ~wire.bPartial \/ wire.bPartialInitial
  PROVE  UnfinishedRight(x, s, id, j)
<1> SUFFICES ASSUME Unfinished(x) PROVE UnfinishedRight(x, s, id, j)
  BY DEF UnfinishedRight
<1>1. x.InPartialBunch.ChSequence < id - 1
  BY FollowsPart DEF Joins
<1> QED BY <1>1 DEF UnfinishedRight

\* What is ahead of the client, bunch by bunch and from packet to packet.
LEMMA AheadStep ==
  ASSUME NEW s \in SenderState, NEW id, NEW j, NEW wire, IsBunch(s, id, j, wire)
  PROVE  /\ UnitsAhead(s, id, j) \subseteq UnitsAhead(s, id, j - 1)
         /\ ~wire.bReliable => ToSet(wire.Data) \subseteq UnitsAhead(s, id, j - 1)
<1>1. /\ id \in Nat /\ j \in Nat /\ j # 0
      /\ j \in DOMAIN Packet(s, id) /\ Packet(s, id)[j] = wire
  BY BunchPlace
<1>2. \A n \in Nat : \A k \in DOMAIN Packet(s, n) : IsAhead(id, j, n, k) => IsAhead(id, j - 1, n, k)
  <2> SUFFICES ASSUME NEW n \in Nat, NEW k \in DOMAIN Packet(s, n), IsAhead(id, j, n, k)
               PROVE  IsAhead(id, j - 1, n, k)
    OBVIOUS
  <2>1. k \in Nat
    <3>1. Len(Packet(s, n)) \in Nat /\ DOMAIN Packet(s, n) = 1 .. Len(Packet(s, n))
      BY PacketFields
    <3> QED BY <3>1
  <2> QED BY <1>1, <2>1 DEF IsAhead
<1>3. ASSUME NEW u \in UnitsAhead(s, id, j) PROVE u \in UnitsAhead(s, id, j - 1)
  <2>1. \E n \in Nat : \E k \in DOMAIN Packet(s, n) :
             /\ IsAhead(id, j, n, k) /\ ~Packet(s, n)[k].bReliable
             /\ u \in ToSet(Packet(s, n)[k].Data)
    BY UnitsAheadAre
  <2>2. \E n \in Nat : \E k \in DOMAIN Packet(s, n) :
             /\ IsAhead(id, j - 1, n, k) /\ ~Packet(s, n)[k].bReliable
             /\ u \in ToSet(Packet(s, n)[k].Data)
    BY <1>2, <2>1
  <2> QED BY <2>2, UnitsAheadAre
<1>4. ASSUME ~wire.bReliable, NEW u \in ToSet(wire.Data) PROVE u \in UnitsAhead(s, id, j - 1)
  <2>1. IsAhead(id, j - 1, id, j)
    BY <1>1 DEF IsAhead
  <2>2. \E n \in Nat : \E k \in DOMAIN Packet(s, n) :
             /\ IsAhead(id, j - 1, n, k) /\ ~Packet(s, n)[k].bReliable
             /\ u \in ToSet(Packet(s, n)[k].Data)
    BY <1>1, <1>4, <2>1
  <2> QED BY <2>2, UnitsAheadAre
<1> QED BY <1>3, <1>4

\* What is ahead from the next packet on is ahead from here on.
LEMMA AheadNext ==
  ASSUME NEW s \in SenderState, NEW id \in Nat, NEW j
  PROVE  UnitsAhead(s, id + 1, 0) \subseteq UnitsAhead(s, id, j)
<1> SUFFICES ASSUME NEW u \in UnitsAhead(s, id + 1, 0) PROVE u \in UnitsAhead(s, id, j)
  OBVIOUS
<1>1. PICK n \in Nat : \E k \in DOMAIN Packet(s, n) :
             /\ IsAhead(id + 1, 0, n, k) /\ ~Packet(s, n)[k].bReliable
             /\ u \in ToSet(Packet(s, n)[k].Data)
  <2> DEFINE next == id + 1
             none == 0
  <2>1. u \in UnitsAhead(s, next, none)
    OBVIOUS
  <2> HIDE DEF next, none
  <2>2. \E n \in Nat : \E k \in DOMAIN Packet(s, n) :
             /\ IsAhead(next, none, n, k) /\ ~Packet(s, n)[k].bReliable
             /\ u \in ToSet(Packet(s, n)[k].Data)
    BY <2>1, UnitsAheadAre
  <2> QED BY <2>2 DEF next, none
<1>2. \A k : IsAhead(id + 1, 0, n, k) => IsAhead(id, j, n, k)
  BY DEF IsAhead
<1> QED BY <1>1, <1>2, UnitsAheadAre

-----------------------------------------------------------------------------
(* An unreliable bunch of a packet                                         *)

\* Data that may be handled next, with units B ahead.
Fits(x, s, m, B, d) ==
  /\ Whole(d) /\ InOrder(d) /\ Below(ToSet(d), m)
  /\ NoLater(HandledUnits(x), ToSet(d)) /\ NoLater(ToSet(d), B)
  /\ NoLater(ToSet(d), Pending(x, s))

\* Units of an unreliable bunch of the packet.
Ready(x, s, m, B, d) ==
  /\ Below(d, m) /\ NoLater(HandledUnits(x), d) /\ NoLater(d, B) /\ NoLater(d, Pending(x, s))

\* The data of an unreliable bunch that arrives next may be handled next.
LEMMA WireReady ==
  ASSUME NEW s \in SenderState, NEW m, MessagesRight(s, m), NEW id, NEW j, NEW wire,
         IsBunch(s, id, j, wire), ~wire.bReliable, NEW x,
         HandledRight(x, s, m, UnitsAhead(s, id, j - 1))
  PROVE  /\ Ready(x, s, m, UnitsAhead(s, id, j), ToSet(wire.Data))
         /\ DataRight(wire) /\ InOrder(wire.Data)
<1> DEFINE A == UnitsAhead(s, id, j - 1)
           B == UnitsAhead(s, id, j)
           d == ToSet(wire.Data)
<1>1. /\ id \in Nat /\ j \in DOMAIN Packet(s, id) /\ Packet(s, id)[j] = wire
      /\ wire \in InPacket(s, id)
  BY BunchPlace
<1>2. WireRight(s, m)
  BY DEF MessagesRight
<1>3. Below(d, m) /\ DataRight(wire) /\ InOrder(wire.Data) /\ NoLater(d, B)
  BY <1>1, <1>2 DEF WireRight
<1>4. d \subseteq A
  BY AheadStep
<1>5. HandledRight(x, s, m, A)
  OBVIOUS
<1> HIDE DEF A, B, d
<1>6. NoLater(HandledUnits(x), A) /\ NoLater(A, Pending(x, s))
  BY <1>5, HandledInSent
<1>7. NoLater(HandledUnits(x), d)
  BY <1>4, <1>6, NoLaterParts
<1>8. NoLater(d, Pending(x, s))
  BY <1>4, <1>6, NoLaterParts
<1> QED BY <1>3, <1>7, <1>8 DEF Ready, B, d

\* All the parts of a message fit when the last does.
LEMMA PartsFit ==
  ASSUME NEW x, NEW s, NEW m, NEW B, NEW d, Ready(x, s, m, B, d),
         NEW data \in Seq(Unit), Begins(data), Ends(data), Last(data) \in d
  PROVE  Fits(x, s, m, B, data)
<1> DEFINE u == Last(data)
           L == Len(data)
<1>1. Parts(data) /\ Whole(data)
  BY AllPartsAreWhole DEF Begins
<1>2. /\ InOrder(data)
      /\ \A A : NoLater(A, {u}) => NoLater(A, ToSet(data))
      /\ \A A : NoLater({u}, A) => NoLater(ToSet(data), A)
  BY <1>1, PartsInOrder
<1>3. \A k \in DOMAIN data : /\ data[k] \in Unit
                             /\ data[k].message = data[1].message /\ data[k].update = data[1].update
  BY <1>1, PartsAlike
<1>4. L \in DOMAIN data /\ u = data[L]
  <2>1. L \in Nat /\ DOMAIN data = 1 .. L /\ data # << >>
    BY <1>1 DEF Parts
  <2>2. L # 0
    BY <2>1
  <2> QED BY <2>1, <2>2 DEF Last
<1> HIDE DEF L, u
<1>5. {u} \subseteq d
  BY DEF u
<1>6. NoLater(HandledUnits(x), {u})
  BY <1>5, NoLaterParts DEF Ready
<1>7. NoLater({u}, B)
  BY <1>5, NoLaterParts DEF Ready
<1>8. NoLater({u}, Pending(x, s))
  BY <1>5, NoLaterParts DEF Ready
<1>9. Below(ToSet(data), m)
  <2> SUFFICES ASSUME NEW k \in DOMAIN data, IsUpdate(data[k]) PROVE data[k].message <= m
    BY DEF Below, ToSet
  <2>1. u \in Unit /\ u.message = data[k].message /\ u.update = data[k].update
    BY <1>3, <1>4
  <2>2. IsUpdate(u)
    BY <2>1 DEF IsUpdate
  <2>3. u.message <= m
    BY <1>5, <2>2 DEF Ready, Below
  <2> QED BY <2>1, <2>3
<1> QED BY <1>1, <1>2, <1>6, <1>7, <1>8, <1>9 DEF Fits

\* What is handled of an unreliable bunch, or not.
LEMMA SideHandled ==
  ASSUME NEW x \in ReceiverState, NEW s, NEW m \in Nat, NEW A, HandledRight(x, s, m, A),
         NEW B, B \subseteq A, NEW y, Side(x, y), NEW w \in Bunch, ~w.bReliable,
         Leaves(x, y) \/ (HandledAdds(x, y, w) /\ Fits(x, s, m, B, w.Data))
  PROVE  HandledRight(y, s, m, B)
<1>1. HandledRight(x, s, m, B)
  BY HandledKept
<1>2. y.stream = x.stream /\ y.InReliable = x.InReliable /\ y.InRec = x.InRec
  BY DEF Side
<1>3. EndsMessage(y, s)
  BY <1>1, <1>2, SameEnds DEF HandledRight
<1>4. HasRight(y, s, B)
  <2>1. \A n \in Nat : Has(y, n) => Has(x, n)
    BY <1>2 DEF Has, InNumber
  <2> QED BY <1>1, <2>1, HasFewer, HasOf
<1>5. CASE Leaves(x, y)
  BY <1>1, <1>3, <1>4, <1>5, HandledSame
<1>6. CASE HandledAdds(x, y, w) /\ Fits(x, s, m, B, w.Data)
  <2>1. Pending(y, s) = Pending(x, s)
    BY <1>2 DEF Pending
  <2>2. /\ Whole(w.Data) /\ InOrder(w.Data) /\ Below(ToSet(w.Data), m)
        /\ NoLater(HandledUnits(x), ToSet(w.Data)) /\ NoLater(ToSet(w.Data), B)
        /\ NoLater(ToSet(w.Data), Pending(x, s))
    BY <1>6 DEF Fits
  <2> QED BY <1>1, <1>3, <1>4, <1>6, <2>1, <2>2, HandledMore
<1> QED BY <1>5, <1>6

\* What an unreliable bunch leaves of the client, after the j-th of packet id.
Delivered(y, s, m, id, j) ==
  HandledRight(y, s, m, UnitsAhead(s, id, j)) /\ UnfinishedRight(y, s, id, j)

\* A part that is not complete, after its bunch was handled.
LEMMA PartLast ==
  ASSUME NEW y, NEW s, NEW id \in Nat, NEW j, NEW wire, IsBunch(s, id, j, wire), ~wire.bReliable,
         NEW w, y.InPartialBunch = w, w.ChSequence = id, Last(w.Data) = Last(wire.Data),
         GoesOn(wire), Begins(w.Data), y.exists
  PROVE  UnfinishedRight(y, s, id, j)
<1>1. LastPart(y, s, id, j)
  BY DEF LastPart, IsBunch
<1>2. y.InPartialBunch.ChSequence = id /\ Begins(y.InPartialBunch.Data)
  OBVIOUS
<1> QED BY <1>1, <1>2 DEF UnfinishedRight

\* No message is unfinished.
LEMMA NotUnfinished ==
  ASSUME NEW y, NEW s, NEW id, NEW j, ~Unfinished(y)
  PROVE  UnfinishedRight(y, s, id, j)
BY DEF UnfinishedRight

\* The bunch, as it is given to ReceivedNextBunch.
Given(s, id, j, wire, bunch) ==
  /\ IsBunch(s, id, j, wire) /\ ~wire.bReliable /\ id \in Nat
  /\ bunch \in Bunch /\ ~bunch.bReliable /\ bunch.bPartial = wire.bPartial
  /\ bunch.bPartialInitial = wire.bPartialInitial
  /\ bunch.bPartialFinal = wire.bPartialFinal /\ bunch.Data = wire.Data
  /\ (wire.bPartial => bunch.ChSequence = id)
  /\ Sound(bunch)

\* The client before it.
Before(x, s, m, id, j) ==
  /\ x \in ReceiverState /\ x.exists /\ Delivered(x, s, m, id, j - 1)
  /\ x.InPartialBunch # None /\ ~x.InPartialBunch.bReliable =>
           ~x.InPartialBunch.bOpen /\ ~x.InPartialBunch.bClose

\* A bunch w that is handled, or ignored.
LEMMA HandledNow ==
  ASSUME NEW s \in SenderState, NEW m \in Nat, NEW id, NEW j, NEW wire,
         IsBunch(s, id, j, wire), NEW x, Before(x, s, m, id, j),
         NEW z \in ReceiverState, Side(x, z), Leaves(x, z),
         NEW w \in Bunch, ~w.bReliable, ~w.bOpen, ~w.bClose,
         Fits(x, s, m, UnitsAhead(s, id, j), w.Data)
  PROVE  LET y == HandleBunch(z, w)
         IN  /\ HandledRight(y, s, m, UnitsAhead(s, id, j))
             /\ y.InPartialBunch = z.InPartialBunch /\ y.exists = x.exists
<1> DEFINE y == HandleBunch(z, w)
           A == UnitsAhead(s, id, j - 1)
           B == UnitsAhead(s, id, j)
<1>1. Side(z, y) /\ y.InPartialBunch = z.InPartialBunch
  BY UnreliableHandled
<1>2. Handles(z, w, y)
  BY BunchHandles
<1>3. x \in ReceiverState /\ HandledRight(x, s, m, A) /\ B \subseteq A
  BY AheadStep DEF Before, Delivered
<1>4. Fits(x, s, m, B, w.Data)
  OBVIOUS
<1> HIDE DEF y, A, B
<1>5. Side(x, y)
  BY <1>1, SideTransitive
<1>6. Leaves(x, y) \/ HandledAdds(x, y, w)
  BY <1>2 DEF Handles, Leaves, HandledAdds
<1>7. HandledRight(y, s, m, B)
  BY <1>3, <1>4, <1>5, <1>6, SideHandled
<1>8. y.exists = x.exists
  BY <1>5 DEF Side
<1> QED BY <1>1, <1>7, <1>8 DEF y, B

\* Where the client is past an unreliable bunch that it did not handle.
LEMMA LeftNow ==
  ASSUME NEW s \in SenderState, NEW m \in Nat, NEW id, NEW j, NEW wire,
         IsBunch(s, id, j, wire), ~wire.bReliable, NEW x, Before(x, s, m, id, j),
         NEW y, Side(x, y), Leaves(x, y)
  PROVE  HandledRight(y, s, m, UnitsAhead(s, id, j)) /\ y.exists
<1> DEFINE A == UnitsAhead(s, id, j - 1)
           B == UnitsAhead(s, id, j)
<1>1. x \in ReceiverState /\ HandledRight(x, s, m, A) /\ B \subseteq A /\ x.exists
  BY AheadStep DEF Before, Delivered
<1>2. wire \in Bunch
  BY BunchPlace
<1> HIDE DEF A, B
<1>3. HandledRight(y, s, m, B)
  BY <1>1, <1>2, SideHandled
<1>4. y.exists
  BY <1>1 DEF Side
<1> QED BY <1>3, <1>4 DEF B

\* A bunch that is not partial.
LEMMA WholeDelivered ==
  ASSUME NEW s \in SenderState, NEW m \in Nat, MessagesRight(s, m), NEW id, NEW j, NEW wire,
         NEW bunch, Given(s, id, j, wire, bunch), NEW x, Before(x, s, m, id, j), ~bunch.bPartial
  PROVE  Delivered(HandleBunch(x, bunch), s, m, id, j)
<1> DEFINE y == HandleBunch(x, bunch)
           B == UnitsAhead(s, id, j)
<1>1. /\ IsBunch(s, id, j, wire) /\ ~wire.bReliable /\ bunch \in Bunch /\ ~bunch.bReliable
      /\ bunch.Data = wire.Data /\ ~wire.bPartial /\ ~bunch.bOpen /\ ~bunch.bClose
      /\ x \in ReceiverState /\ HandledRight(x, s, m, UnitsAhead(s, id, j - 1))
      /\ UnfinishedRight(x, s, id, j - 1)
  BY DEF Given, Before, Delivered, Sound
<1>2. Ready(x, s, m, B, ToSet(wire.Data)) /\ DataRight(wire) /\ InOrder(wire.Data)
  BY <1>1, WireReady
<1>3. Fits(x, s, m, B, bunch.Data)
  BY <1>1, <1>2 DEF Fits, Ready, DataRight
<1>4. Side(x, x) /\ Leaves(x, x)
  BY <1>1, SideItself DEF Leaves
<1>5. HandledRight(y, s, m, B) /\ y.InPartialBunch = x.InPartialBunch /\ y.exists = x.exists
  BY <1>1, <1>3, <1>4, HandledNow
<1>6. UnfinishedRight(x, s, id, j)
  BY <1>1, PartIsOld
<1> HIDE DEF y, B
<1>7. KeepsPart(x, y)
  BY <1>5 DEF KeepsPart
<1>8. UnfinishedRight(y, s, id, j)
  BY <1>6, <1>7, PartKeptRight
<1> QED BY <1>5, <1>8 DEF Delivered, y, B

\* ReceivedPartialInitial
LEMMA FirstDelivered ==
  ASSUME NEW s \in SenderState, NEW m \in Nat, MessagesRight(s, m), NEW id, NEW j, NEW wire,
         NEW bunch, Given(s, id, j, wire, bunch), NEW x, Before(x, s, m, id, j),
         bunch.bPartial, bunch.bPartialInitial
  PROVE  Delivered(ReceivedPartialInitial(x, bunch), s, m, id, j)
<1> DEFINE y == ReceivedPartialInitial(x, bunch)
           part == x.InPartialBunch
           B == UnitsAhead(s, id, j)
<1>1. /\ IsBunch(s, id, j, wire) /\ ~wire.bReliable /\ bunch \in Bunch /\ ~bunch.bReliable
      /\ bunch.Data = wire.Data /\ wire.bPartial /\ wire.bPartialInitial /\ GoesOn(wire)
      /\ bunch.ChSequence = id /\ id \in Nat
      /\ x \in ReceiverState /\ HandledRight(x, s, m, UnitsAhead(s, id, j - 1))
  BY DEF Given, Before, Delivered, Sound, GoesOn
<1>2. Begins(wire.Data)
  BY <1>1, WireReady DEF DataRight
<1>3. CASE HoldsReliablePartial(x) /\ ~part.bPartialFinal
  <2>1. y = SkipAck(x)
    BY <1>1, <1>3 DEF ReceivedPartialInitial
  <2> HIDE DEF y
  <2>2. Side(x, y) /\ Ignores(x, y)
    BY <1>1, <2>1, SkipAckSide, SkipAckIgnores
  <2>3. HandledRight(y, s, m, B)
    BY <1>1, <2>2, LeftNow DEF Ignores
  <2>4. ~Unfinished(y)
    BY <1>3, <2>2 DEF Unfinished, Ignores, HoldsReliablePartial
  <2> QED BY <2>3, <2>4, NotUnfinished DEF Delivered, y
<1>4. CASE ~(HoldsReliablePartial(x) /\ ~part.bPartialFinal)
  <2>1. y = [x EXCEPT !.InPartialBunch = bunch]
    BY <1>1, <1>4 DEF ReceivedPartialInitial
  <2>2. bunch \in Bunch \cup {None}
    BY <1>1
  <2>3. Side(x, y) /\ Sets(x, y, bunch)
    BY <1>1, <2>1, <2>2, PartSide, PartSets
  <2> HIDE DEF y
  <2>4. HandledRight(y, s, m, B) /\ y.exists
    BY <1>1, <2>3, LeftNow DEF Sets
  <2>5. UnfinishedRight(y, s, id, j)
    BY <1>1, <1>2, <2>3, <2>4, PartLast DEF Sets
  <2> QED BY <2>4, <2>5 DEF Delivered, y
<1> QED BY <1>3, <1>4

\* ReceivedPartialNext
LEMMA PartDelivered ==
  ASSUME NEW s \in SenderState, NEW m \in Nat, MessagesRight(s, m), NEW id, NEW j, NEW wire,
         NEW bunch, Given(s, id, j, wire, bunch), NEW x, Before(x, s, m, id, j),
         bunch.bPartial, ~bunch.bPartialInitial
  PROVE  Delivered(ReceivedPartialNext(x, bunch), s, m, id, j)
<1> DEFINE y == ReceivedPartialNext(x, bunch)
           part == x.InPartialBunch
           B == UnitsAhead(s, id, j)
<1>1. /\ IsBunch(s, id, j, wire) /\ ~wire.bReliable /\ bunch \in Bunch /\ ~bunch.bReliable
      /\ bunch.Data = wire.Data /\ wire.bPartial /\ bunch.bPartialFinal = wire.bPartialFinal
      /\ bunch.ChSequence = id /\ id \in Nat /\ ~bunch.bClose
      /\ x \in ReceiverState /\ HandledRight(x, s, m, UnitsAhead(s, id, j - 1))
      /\ UnfinishedRight(x, s, id, j - 1) /\ part \in Bunch \cup {None}
  BY ReceiverFields DEF Given, Before, Delivered, Sound
<1>2. CASE ContinuesPartial(x, bunch)
  <2>1. /\ part \in Bunch /\ ~part.bReliable /\ ~part.bOpen /\ ~part.bClose /\ Unfinished(x)
        /\ id = part.ChSequence + 1 \/ id = part.ChSequence
    BY <1>1, <1>2 DEF ContinuesPartial, Before, Unfinished
  <2>2. Begins(part.Data)
    BY <1>1, <2>1 DEF UnfinishedRight
  <2>3. Joins(Last(part.Data), wire)
    <3>1. part.ChSequence < id - 1 \/ Joins(Last(part.Data), wire)
      BY <1>1, <2>1, FollowsPart
    <3>2. part.ChSequence \in Nat
      BY <2>1 DEF Bunch
    <3> QED BY <1>1, <2>1, <3>1, <3>2
  <2>4. /\ Ready(x, s, m, B, ToSet(wire.Data)) /\ Parts(wire.Data)
        /\ wire.bPartialFinal => Ends(wire.Data)
    BY <1>1, WireReady DEF DataRight
  <2> DEFINE w == Joined(part, bunch)
             z == [x EXCEPT !.InPartialBunch = w]
  <2>5. /\ w \in Bunch /\ w.Data = part.Data \o bunch.Data
        /\ w.ChSequence = bunch.ChSequence /\ w.bPartialFinal = bunch.bPartialFinal
        /\ w.bClose = bunch.bClose /\ w.bOpen = part.bOpen /\ w.bReliable = part.bReliable
    BY <1>1, <2>1, JoinedFields
  <2>6. y = IF bunch.bPartialFinal THEN HandleBunch(z, w) ELSE z
    BY <1>2 DEF ReceivedPartialNext, Joined
  <2> HIDE DEF w
  <2>7. Side(x, z) /\ Sets(x, z, w) /\ z \in ReceiverState
    <3>1. w \in Bunch \cup {None}
      BY <2>5
    <3> QED BY <1>1, <3>1, PartSide, PartSets
  <2> HIDE DEF z, y
  <2>8. /\ Parts(w.Data) /\ Begins(w.Data) /\ Last(w.Data) = Last(wire.Data)
        /\ (wire.bPartialFinal => Ends(w.Data)) /\ w.Data \in Seq(Unit)
    <3>1. part.Data \in Seq(Unit) /\ wire.Data \in Seq(Unit) /\ Parts(part.Data)
      BY <1>1, <2>1, <2>2, BunchFields DEF Begins
    <3>2. Continues(Last(part.Data), wire.Data[1])
      BY <2>3 DEF Joins
    <3>3. w.Data = part.Data \o wire.Data
      BY <1>1, <2>5
    <3> QED BY <2>2, <2>4, <3>1, <3>2, <3>3, MorePartsFollow
  <2>9. Leaves(x, z) /\ z.InPartialBunch = w
    BY <2>7 DEF Sets
  <2>10. CASE ~bunch.bPartialFinal
    <3>1. y = z /\ GoesOn(wire)
      BY <1>1, <2>6, <2>10 DEF GoesOn
    <3>2. HandledRight(y, s, m, B) /\ y.exists
      BY <1>1, <2>7, <2>9, <3>1, LeftNow
    <3>3. UnfinishedRight(y, s, id, j)
      BY <1>1, <2>5, <2>8, <2>9, <3>1, <3>2, PartLast
    <3> QED BY <3>2, <3>3 DEF Delivered, y
  <2>11. CASE bunch.bPartialFinal
    <3>1. Last(w.Data) \in ToSet(wire.Data)
      <4> DEFINE L == Len(wire.Data)
      <4>1. wire.Data \in Seq(Unit) /\ wire.Data # << >>
        BY <1>1, <2>4, BunchFields DEF Parts
      <4>2. L \in Nat /\ L # 0 /\ DOMAIN wire.Data = 1 .. L
        BY <4>1
      <4>3. L \in DOMAIN wire.Data
        BY <4>2
      <4> HIDE DEF L
      <4>4. wire.Data[L] \in ToSet(wire.Data)
        BY <4>3 DEF ToSet
      <4> QED BY <2>8, <4>4 DEF Last, L
    <3>2. Fits(x, s, m, B, w.Data)
      BY <1>1, <2>4, <2>8, <2>11, <3>1, PartsFit
    <3>3. HandledRight(HandleBunch(z, w), s, m, B) /\ HandleBunch(z, w).InPartialBunch = w
      <4>1. w \in Bunch /\ ~w.bReliable /\ ~w.bOpen /\ ~w.bClose
        BY <1>1, <2>1, <2>5
      <4>2. z \in ReceiverState /\ Side(x, z) /\ Leaves(x, z) /\ IsBunch(s, id, j, wire)
        BY <1>1, <2>7, <2>9
      <4>3. /\ HandledRight(HandleBunch(z, w), s, m, UnitsAhead(s, id, j))
            /\ HandleBunch(z, w).InPartialBunch = z.InPartialBunch
        BY <3>2, <4>1, <4>2, HandledNow
      <4> QED BY <2>9, <4>3
    <3>4. y = HandleBunch(z, w)
      BY <2>6, <2>11
    <3>5. HandledRight(y, s, m, B) /\ y.InPartialBunch = w
      BY <3>3, <3>4
    <3>6. ~Unfinished(y)
      BY <2>5, <2>11, <3>5 DEF Unfinished
    <3> QED BY <3>5, <3>6, NotUnfinished DEF Delivered, y
  <2> QED BY <2>10, <2>11
<1>3. CASE ~ContinuesPartial(x, bunch) /\ ~HoldsReliablePartial(x)
  <2> DEFINE noone == None
             z == [x EXCEPT !.InPartialBunch = noone]
  <2>1. y = SkipAck(z)
    BY <1>3 DEF ReceivedPartialNext
  <2>2. noone \in Bunch \cup {None} /\ noone = None
    OBVIOUS
  <2> HIDE DEF noone, y
  <2>3. Side(x, z) /\ Sets(x, z, noone) /\ z \in ReceiverState
    BY <1>1, <2>2, PartSide, PartSets
  <2> HIDE DEF z
  <2>4. Side(z, y) /\ Ignores(z, y)
    BY <2>1, <2>3, SkipAckSide, SkipAckIgnores
  <2>5. Side(x, y) /\ Leaves(x, y) /\ y.InPartialBunch = None
    BY <2>2, <2>3, <2>4, SideTransitive DEF Sets, Ignores, Leaves
  <2>6. HandledRight(y, s, m, B)
    BY <1>1, <2>5, LeftNow
  <2> QED BY <2>5, <2>6, NotUnfinished DEF Delivered, Unfinished, y
<1>4. CASE ~ContinuesPartial(x, bunch) /\ HoldsReliablePartial(x)
  <2>1. y = SkipAck(x)
    BY <1>1, <1>4 DEF ReceivedPartialNext
  <2> HIDE DEF y
  <2>2. Side(x, y) /\ Ignores(x, y)
    BY <1>1, <2>1, SkipAckSide, SkipAckIgnores
  <2>3. HandledRight(y, s, m, B)
    BY <1>1, <2>2, LeftNow DEF Ignores
  <2>4. ~Unfinished(y)
    BY <1>4, <2>2 DEF Unfinished, Ignores, HoldsReliablePartial
  <2> QED BY <2>3, <2>4, NotUnfinished DEF Delivered, y
<1> QED BY <1>2, <1>3, <1>4

\* ReceivedNextBunch, for an unreliable bunch: handled, started, continued or dropped.
LEMMA NextDelivered ==
  ASSUME NEW s \in SenderState, NEW m \in Nat, MessagesRight(s, m), NEW id, NEW j, NEW wire,
         NEW bunch, Given(s, id, j, wire, bunch), NEW x, Before(x, s, m, id, j)
  PROVE  Delivered(ReceivedNextBunch(x, bunch), s, m, id, j)
<1> DEFINE y == ReceivedNextBunch(x, bunch)
<1>1. ~bunch.bReliable
  BY DEF Given
<1>2. y = IF ~bunch.bPartial THEN HandleBunch(x, bunch)
          ELSE IF bunch.bPartialInitial THEN ReceivedPartialInitial(x, bunch)
          ELSE ReceivedPartialNext(x, bunch)
  BY <1>1 DEF ReceivedNextBunch
<1> HIDE DEF y
<1>3. Delivered(y, s, m, id, j)
  BY <1>2, WholeDelivered, FirstDelivered, PartDelivered
<1> QED BY <1>3 DEF y

\* The same client is there after the bunches that waited.
LEMMA KeptDelivered ==
  ASSUME NEW x, NEW y, NEW s, NEW m, NEW id, NEW j, Delivered(x, s, m, id, j),
         HandledRight(y, s, m, UnitsAhead(s, id, j)), KeepsPart(x, y)
  PROVE  Delivered(y, s, m, id, j)
<1>1. UnfinishedRight(y, s, id, j)
  BY PartKeptRight DEF Delivered
<1> QED BY <1>1 DEF Delivered

\* DispatchBunch, for an unreliable bunch.
LEMMA UnreliableDelivered ==
  ASSUME NEW s, NEW m \in Nat, Source(s, m), MessagesRight(s, m), NEW c, ClientRight(c, s, 1),
         NEW id, NEW j, NEW wire, IsBunch(s, id, j, wire), ~wire.bReliable, Sound(wire),
         Delivered(c, s, m, id, j - 1)
  PROVE  Delivered(DispatchBunch(c, wire, id), s, m, id, j)
<1> DEFINE y == DispatchBunch(c, wire, id)
           bunch == Stamped(wire, id)
<1>0. s \in SenderState /\ NumbersRight(s) /\ c \in ReceiverState /\ PartialRight(c, s)
  BY DEF Source, ClientRight
<1>1. id \in Nat /\ wire \in Bunch
  BY <1>0, BunchPlace
<1>2. /\ y = IF ~c.exists THEN SkipAck(c) ELSE ReceivedRawBunch(Created(c), bunch)
      /\ Given(s, id, j, wire, bunch) /\ bunch \in Bunch /\ ~bunch.bReliable /\ Sound(bunch)
  BY <1>0, <1>1, UnreliableWire DEF Given
<1> HIDE DEF y, bunch
<1>3. c.InPartialBunch # None /\ ~c.InPartialBunch.bReliable =>
        ~c.InPartialBunch.bOpen /\ ~c.InPartialBunch.bClose
  BY <1>0 DEF PartialRight
<1>4. CASE ~c.exists
  <2>1. y = SkipAck(c)
    BY <1>2, <1>4
  <2>2. Side(c, y) /\ Ignores(c, y)
    BY <1>0, <2>1, SkipAckSide, SkipAckIgnores
  <2>3. HandledRight(y, s, m, UnitsAhead(s, id, j))
    <3> DEFINE A == UnitsAhead(s, id, j - 1)
               B == UnitsAhead(s, id, j)
    <3>1. HandledRight(c, s, m, A) /\ B \subseteq A
      BY <1>0, AheadStep DEF Delivered
    <3>2. Leaves(c, y)
      BY <2>2 DEF Ignores
    <3> HIDE DEF A, B
    <3>3. HandledRight(y, s, m, B)
      BY <1>0, <1>1, <2>2, <3>1, <3>2, SideHandled
    <3> QED BY <3>3 DEF B
  <2>4. ~Unfinished(c)
    BY <1>4 DEF Delivered, UnfinishedRight
  <2>5. ~Unfinished(y)
    BY <2>2, <2>4 DEF Ignores, Unfinished
  <2> QED BY <2>3, <2>5, NotUnfinished DEF Delivered, y
<1>5. CASE c.exists
  <2> DEFINE next == ReceivedNextBunch(c, bunch)
  <2>1. y = ReceivedRawBunch(c, bunch)
    BY <1>2, <1>5, CreatedRight
  <2>2. y = IF next.exists /\ next.errors = c.errors THEN DispatchWaiting(next) ELSE next
    BY <1>2, <2>1 DEF ReceivedRawBunch
  <2>3. Before(c, s, m, id, j)
    BY <1>0, <1>3, <1>5 DEF Before
  <2>4. Delivered(next, s, m, id, j)
    BY <1>0, <1>2, <2>3, NextDelivered
  <2>5. Side(c, next) /\ Replaces(c, next)
    BY <1>0, <1>2, <1>3, UnreliableNext
  <2> HIDE DEF next
  <2>6. y = DispatchWaiting(next) /\ next.exists
    BY <1>5, <2>2, <2>5 DEF Side
  <2>7. Dealt(s, c, next, 0)
    BY <1>0, <2>5, SideRight
  <2>8. ClientRight(next, s, 0)
    BY <1>0, <2>7, GapClosed DEF Dealt
  <2>9. /\ HandledRight(DispatchWaiting(next), s, m, UnitsAhead(s, id, j))
        /\ KeepsPart(next, DispatchWaiting(next))
    <3> DEFINE B == UnitsAhead(s, id, j)
    <3>1. HandledRight(next, s, m, B)
      BY <2>4 DEF Delivered
    <3> HIDE DEF B
    <3>2. HandledRight(DispatchWaiting(next), s, m, B) /\ KeepsPart(next, DispatchWaiting(next))
      BY <2>6, <2>8, <3>1, WaitingHandled
    <3> QED BY <3>2 DEF B
  <2> QED BY <2>4, <2>6, <2>9, KeptDelivered DEF y
<1> QED BY <1>4, <1>5

\* DispatchBunch
LEMMA BunchDelivered ==
  ASSUME NEW s, NEW m \in Nat, Source(s, m), MessagesRight(s, m), Room(s),
         NEW c, ClientRight(c, s, 1), NEW id, NEW j, NEW wire, IsBunch(s, id, j, wire),
         InFlight(s, wire), Delivered(c, s, m, id, j - 1)
  PROVE  Delivered(DispatchBunch(c, wire, id), s, m, id, j)
<1>1. CASE ~wire.bReliable
  BY <1>1, UnreliableDelivered DEF InFlight
<1>2. CASE wire.bReliable
  <2> DEFINE A == UnitsAhead(s, id, j - 1)
             B == UnitsAhead(s, id, j)
             y == DispatchBunch(c, wire, id)
  <2>1. s \in SenderState
    BY DEF Source
  <2>2. B \subseteq A
    BY <2>1, AheadStep
  <2>3. NoLater(ToSet(wire.Data), B)
    BY <2>1, BunchPlace DEF MessagesRight, WireRight
  <2>4. HandledRight(c, s, m, A) /\ UnfinishedRight(c, s, id, j - 1)
    BY DEF Delivered
  <2>5. UnfinishedRight(c, s, id, j)
    BY <1>2, <2>1, <2>4, PartIsOld
  <2>6. B = UnitsAhead(s, id, j) /\ y = DispatchBunch(c, wire, id)
    OBVIOUS
  <2> HIDE DEF A, B, y
  <2>7. HandledRight(c, s, m, B)
    BY <2>2, <2>4, HandledKept
  <2>8. HandledRight(y, s, m, B) /\ KeepsPart(c, y)
    BY <1>2, <2>3, <2>6, <2>7, ReliableDelivered
  <2>9. Delivered(c, s, m, id, j)
    BY <2>5, <2>6, <2>7 DEF Delivered
  <2> QED BY <2>6, <2>8, <2>9, KeptDelivered
<1> QED BY <1>1, <1>2

-----------------------------------------------------------------------------
(* A packet arrives, or is lost                                            *)

\* The client after i bunches of packet id.
Along(s, m, id, i, x) == ClientRight(x, s, 1) /\ Delivered(x, s, m, id, i)

\* DispatchBunch takes the client past one bunch of a packet.
LEMMA AlongStep ==
  ASSUME NEW s, NEW m \in Nat, Source(s, m), MessagesRight(s, m), Room(s),
         NEW id, NEW i, NEW wire, IsBunch(s, id, i, wire), InFlight(s, wire),
         NEW x, Along(s, m, id, i - 1, x)
  PROVE  Along(s, m, id, i, DispatchBunch(x, wire, id))
<1> DEFINE y == DispatchBunch(x, wire, id)
<1>1. s \in SenderState /\ NumbersRight(s) /\ ClientRight(x, s, 1)
  BY DEF Source, Along
<1>2. id \in Nat
  BY <1>1, BunchPlace
<1>3. Dispatched(s, x, wire, y)
  BY <1>1, <1>2, BunchRight
<1>4. ClientRight(y, s, 1)
  BY <1>3 DEF Dispatched, Dealt
<1>5. Delivered(y, s, m, id, i)
  BY <1>1, BunchDelivered DEF Along
<1> QED BY <1>4, <1>5 DEF Along

\* The client before the first bunch of a packet.
LEMMA AckingAlong ==
  ASSUME NEW s, NEW m, NEW id, NEW c, Along(s, m, id, 0, c)
  PROVE  Along(s, m, id, 0, Acking(c))
<1> DEFINE no == FALSE
           a == [c EXCEPT !.bSkipAck = no]
           B == UnitsAhead(s, id, 0)
<1>1. ClientRight(c, s, 1) /\ HandledRight(c, s, m, B) /\ UnfinishedRight(c, s, id, 0)
  BY DEF Along, Delivered
<1>2. Acking(c) = a
  BY DEF Acking
<1>3. c \in ReceiverState /\ ClientRight(Acking(c), s, 1)
  BY <1>1, AckingSame
<1> HIDE DEF no, B
<1>4. /\ a.received = c.received /\ a.stream = c.stream /\ a.InReliable = c.InReliable
      /\ a.InPartialBunch = c.InPartialBunch /\ a.exists = c.exists /\ a.InRec = c.InRec
  BY <1>3 DEF ReceiverState
<1> HIDE DEF a
<1>5. Leaves(c, a) /\ KeepsPart(c, a)
  BY <1>4 DEF Leaves, KeepsPart
<1>6. EndsMessage(a, s)
  BY <1>1, <1>4, SameEnds DEF HandledRight
<1>7. HasRight(a, s, B)
  <2>1. \A n \in Nat : Has(a, n) => Has(c, n)
    BY <1>4 DEF Has, InNumber
  <2> QED BY <1>1, <2>1, HasFewer, HasOf
<1>8. HandledRight(a, s, m, B)
  BY <1>1, <1>5, <1>6, <1>7, HandledSame
<1>9. UnfinishedRight(a, s, id, 0)
  BY <1>1, <1>5, PartKeptRight
<1> QED BY <1>2, <1>3, <1>8, <1>9 DEF Along, Delivered, B

\* The loop over a packet takes the client past all its bunches.
LEMMA PacketDelivered ==
  ASSUME NEW s, NEW m \in Nat, Source(s, m), MessagesRight(s, m), Room(s),
         NEW c, NEW id \in DOMAIN s.network, NEW packet, packet = s.network[id],
         packet \in Seq(Bunch), \A j \in DOMAIN packet : InFlight(s, packet[j]),
         Along(s, m, id, 0, c)
  PROVE  Along(s, m, id, Len(packet), DispatchPacket(c, packet, id))
<1> DEFINE L == Len(packet)
           a == Acking(c)
           Step(i, x) == DispatchBunch(x, packet[i], id)
           F == [p \in (1 .. L) \X ReceiverState |-> Step(p[1], p[2])]
           G == {p \in (0 .. L) \X ReceiverState : Along(s, m, id, p[1], p[2])}
           g == AfterBunches(c, packet, id)
<1>1. L \in Nat /\ DOMAIN packet = 1 .. L
  OBVIOUS
<1>2. Along(s, m, id, 0, a) /\ a \in ReceiverState
  BY AckingAlong DEF Along, ClientRight
<1>3. g = CHOOSE f : f = [i \in 0 .. L |-> IF i = 0 THEN a ELSE Step(i, f[i - 1])]
  BY DEF AfterBunches, Acking
<1> HIDE DEF a, g
<1>4. ASSUME NEW i \in 1 .. L, NEW x \in ReceiverState, Along(s, m, id, i - 1, x)
      PROVE  Step(i, x) \in ReceiverState /\ Along(s, m, id, i, Step(i, x))
  <2>1. IsBunch(s, id, i, packet[i]) /\ InFlight(s, packet[i])
    BY <1>1 DEF IsBunch
  <2>2. Along(s, m, id, i, Step(i, x))
    BY <1>4, <2>1, AlongStep
  <2> QED BY <2>2 DEF Along, ClientRight
<1> HIDE DEF L, Step
<1>5. \A i \in 1 .. L : \A x \in ReceiverState : F[<<i, x>>] = Step(i, x)
  OBVIOUS
<1> HIDE DEF F
<1>6. Keeps(L, ReceiverState, F, a, G)
  <2>1. <<0, a>> \in G
    BY <1>1, <1>2
  <2>2. ASSUME NEW i \in 1 .. L, NEW x \in ReceiverState, <<i - 1, x>> \in G
        PROVE  F[<<i, x>>] \in ReceiverState /\ <<i, F[<<i, x>>]>> \in G
    <3>1. Along(s, m, id, i - 1, x)
      BY <2>2
    <3>2. i \in 0 .. L
      BY <1>1
    <3> QED BY <1>4, <1>5, <3>1, <3>2
  <2> QED BY <1>2, <2>1, <2>2 DEF Keeps
<1> HIDE DEF G
<1>7. PICK f \in [0 .. L -> ReceiverState] :
        f[0] = a /\ \A i \in 1 .. L : f[i] = F[<<i, f[i - 1]>>]
  BY <1>1, <1>6, LoopExists
<1>8. f = [i \in 0 .. L |-> IF i = 0 THEN a ELSE Step(i, f[i - 1])]
  <2>1. ASSUME NEW i \in 0 .. L, i # 0 PROVE f[i] = Step(i, f[i - 1])
    <3>1. i - 1 \in 0 .. L /\ i \in 1 .. L
      BY <1>1, <2>1
    <3> QED BY <1>5, <1>7, <3>1
  <2> QED BY <1>7, <2>1
<1>9. g = [i \in 0 .. L |-> IF i = 0 THEN a ELSE Step(i, g[i - 1])]
  BY <1>3, <1>8
<1>10. Follows(L, ReceiverState, F, a, g)
  <2>1. 0 \in 0 .. L /\ \A i \in 1 .. L : i \in 0 .. L /\ i # 0
    BY <1>1
  <2> QED BY <1>5, <1>9, <2>1 DEF Follows
<1>11. \A i \in 0 .. L : g[i] \in ReceiverState /\ <<i, g[i]>> \in G
  BY <1>1, <1>6, <1>10, LoopKeeps
<1>12. L \in 0 .. L
  BY <1>1
<1>13. Along(s, m, id, L, g[L])
  BY <1>11, <1>12 DEF G
<1> QED BY <1>13 DEF DispatchPacket, g, L

\* From the end of a packet to the start of the next, or past a packet.
LEMMA PastPacket ==
  ASSUME NEW s \in SenderState, NEW m \in Nat, NEW id \in DOMAIN s.network, NEW c \in ReceiverState,
         NEW j, j = 0 \/ j = Len(s.network[id]), Delivered(c, s, m, id, j)
  PROVE  Delivered(c, s, m, id + 1, 0)
<1> DEFINE A == UnitsAhead(s, id, j)
           B == UnitsAhead(s, id + 1, 0)
           at == c.InPartialBunch.ChSequence
<1>1. id \in Nat /\ s.network[id] \in Seq(Bunch)
  <2>1. s.network \in Seq(Seq(Bunch)) /\ DOMAIN s.network = 1 .. Len(s.network)
        /\ Len(s.network) \in Nat
    BY SenderFields
  <2> QED BY <2>1
<1>2. B \subseteq A
  BY <1>1, AheadNext
<1>3. HandledRight(c, s, m, A) /\ UnfinishedRight(c, s, id, j)
  BY DEF Delivered
<1> HIDE DEF A, B
<1>4. HandledRight(c, s, m, B)
  BY <1>2, <1>3, HandledKept
<1>5. ASSUME Unfinished(c) PROVE UnfinishedRight(c, s, id + 1, 0)
  <2>1. at \in Nat
    <3>1. c.InPartialBunch \in Bunch
      BY <1>5, ReceiverFields DEF Unfinished
    <3> QED BY <3>1, BunchFields
  <2>2. /\ c.exists /\ Begins(c.InPartialBunch.Data)
        /\ \/ at < id - 1
           \/ at = id - 1 /\ j = 0 /\ LastPart(c, s, at, Len(s.network[at]))
           \/ at = id /\ LastPart(c, s, at, j)
    BY <1>3, <1>5 DEF UnfinishedRight
  <2>3. at = id /\ LastPart(c, s, at, j) => LastPart(c, s, at, Len(s.network[at]))
    <3> SUFFICES ASSUME at = id, LastPart(c, s, at, j) PROVE j = Len(s.network[at])
      OBVIOUS
    <3>1. j \in DOMAIN s.network[id]
      BY DEF LastPart
    <3>2. j # 0
      BY <1>1, <3>1
    <3> QED BY <3>2
  <2> HIDE DEF at
  <2> DEFINE next == id + 1
  <2>4. \/ at < next - 1
        \/ at = next - 1 /\ LastPart(c, s, at, Len(s.network[at]))
    BY <1>1, <2>1, <2>2, <2>3
  <2> HIDE DEF next
  <2>5. UnfinishedRight(c, s, next, 0)
    BY <2>2, <2>4 DEF UnfinishedRight, at
  <2> QED BY <2>5 DEF next
<1>6. UnfinishedRight(c, s, id + 1, 0)
  BY <1>5, NotUnfinished
<1> QED BY <1>4, <1>6 DEF Delivered, B

-----------------------------------------------------------------------------
(* All the steps                                                           *)

\* MInv holds at first.
LEMMA InitMessages ==
  ASSUME Init
  PROVE  MInv
<1> DEFINE A == UnitsAhead(server, settled + 1, 0)
<1>1. /\ server.OutRec = << >> /\ server.SendBuffer = << >> /\ server.network = << >>
      /\ server.sent = << >> /\ server.numbered = << >> /\ messages = 0
      /\ client.InPartialBunch = None /\ client.InReliable = InitReliable
      /\ client.received = << >> /\ client.stream = << >>
  BY DEF Init
<1> HIDE DEF A
<1>2. Count(server) = 0 /\ Upto(server, 0) = << >> /\ ~InMessage(server, 0) /\ InNumber(client) = 0
  BY <1>1, Constants DEF Count, Upto, InMessage, InNumber
<1>3. \A id \in Nat : Packet(server, id) = << >> /\ InPacket(server, id) = {}
  BY <1>1 DEF Packet, InPacket, ToSet
<1>4. DOMAIN << >> = {} /\ ToSet(<< >>) = {}
  BY DEF ToSet
<1>5. WireRight(server, messages) /\ Chained(server, {})
  BY <1>1, <1>3, <1>4 DEF WireRight, Chained
<1>6. MergesWhole(server) /\ Settled(server)
  BY <1>1, <1>4 DEF MergesWhole, Settled
<1>7. Whole(<< >>) /\ InOrder(<< >>) /\ Below(ToSet(<< >>), messages)
  BY <1>4 DEF Whole, InOrder, Below
<1>8. MessagesRight(server, messages)
  <2>1. \A k \in 0 .. Count(server) : k = 0
    BY <1>2
  <2> QED BY <1>1, <1>2, <1>5, <1>6, <1>7, <2>1 DEF MessagesRight
<1>9. HandledUnits(client) = {} /\ Pending(client, server) = {}
  <2>1. HandledUnits(client) = {}
    BY <1>1, <1>4 DEF HandledUnits
  <2>2. Pending(client, server) = {}
    BY <1>1 DEF Pending
  <2> QED BY <2>1, <2>2
<1>10. EndsMessage(client, server)
  BY <1>1, <1>2 DEF EndsMessage
<1>11. HandledRight(client, server, messages, A)
  BY <1>1, <1>2, <1>4, <1>9, <1>10 DEF HandledRight, Below, NoLater
<1>12. UnfinishedRight(client, server, settled + 1, 0)
  BY <1>1 DEF UnfinishedRight, Unfinished
<1> QED BY <1>8, <1>11, <1>12 DEF MInv, A

\* Arrive keeps MInv.
LEMMA ArriveMessages ==
  ASSUME IInv, MInv, HasRoom, Arrive
  PROVE  Agree(server, client', settled + 1, messages)
<1> DEFINE id == settled + 1
           packet == server.network[id]
           y == DispatchPacket(client, packet, id)
<1>1. /\ messages \in Nat /\ MessagesRight(server, messages) /\ server \in SenderState
      /\ told \in Nat /\ settled \in Nat /\ told <= settled
      /\ SenderRight(server, told) /\ ClientSide(client, server, accepted)
      /\ Agree(server, client, settled, messages)
  BY Known
<1>2. settled < Len(server.network) /\ client' = y
  BY DEF Arrive
<1>3. Delivered(client, server, messages, id, 0)
  BY <1>1 DEF Agree, Delivered
<1>4. id \in DOMAIN server.network /\ told < id
  BY <1>1, <1>2, SenderLengths
<1> HIDE DEF id
<1>5. packet \in Seq(Bunch) /\ \A j \in DOMAIN packet : InFlight(server, packet[j])
  BY <1>1, <1>4, PacketFlies DEF SenderRight
<1>6. Source(server, messages) /\ Room(server)
  BY <1>1, SourceOf DEF HasRoom, Room
<1>7. Along(server, messages, id, 0, client)
  BY <1>1, <1>3 DEF Along, ClientSide
<1>8. Along(server, messages, id, Len(packet), y)
  BY <1>1, <1>4, <1>5, <1>6, <1>7, PacketDelivered
<1> HIDE DEF y
<1>9. y \in ReceiverState /\ Delivered(y, server, messages, id, Len(packet))
  BY <1>8 DEF Along, ClientRight
<1>10. Delivered(y, server, messages, id + 1, 0)
  BY <1>1, <1>4, <1>9, PastPacket
<1> QED BY <1>1, <1>2, <1>10 DEF Agree, Delivered, id

\* LosePacket keeps MInv: what is lost is no longer ahead.
LEMMA LoseMessages ==
  ASSUME IInv, MInv, LosePacket
  PROVE  Agree(server, client, settled + 1, messages)
<1> DEFINE id == settled + 1
<1>1. /\ messages \in Nat /\ MessagesRight(server, messages) /\ server \in SenderState
      /\ settled \in Nat /\ ClientSide(client, server, accepted)
      /\ Agree(server, client, settled, messages)
  BY Known
<1>2. settled < Len(server.network)
  BY DEF LosePacket
<1>3. Delivered(client, server, messages, id, 0) /\ client \in ReceiverState
  BY <1>1 DEF Agree, Delivered, ClientSide, ClientRight
<1>4. id \in DOMAIN server.network
  BY <1>1, <1>2, SenderLengths
<1> HIDE DEF id
<1>5. Delivered(client, server, messages, id + 1, 0)
  BY <1>1, <1>3, <1>4, PastPacket
<1> QED BY <1>1, <1>5 DEF Agree, Delivered, id

\* MInv after a step is that the two sides agree then.
LEMMA MessagesNext ==
  ASSUME Agree(server', client', settled', messages')
  PROVE  MInv'
BY DEF MInv, Agree

\* After a step.
StepAgrees == Agree(server', client', settled', messages')

\* Every step keeps the two sides agreed.
LEMMA NextMessages ==
  ASSUME IInv, MInv, HasRoom, Next
  PROVE  StepAgrees
<1>1. ASSUME Agree(server', client, settled, messages), client' = client, settled' = settled,
             messages' = messages
      PROVE  StepAgrees
  BY <1>1 DEF StepAgrees
<1>2. ASSUME Agree(server', client, settled, messages + 1), client' = client,
             settled' = settled, messages' = messages + 1
      PROVE  StepAgrees
  BY <1>2 DEF StepAgrees
<1>3. CASE CreateChannel
  <2>1. client' = client /\ settled' = settled /\ messages' = messages
    BY <1>3 DEF CreateChannel
  <2> QED BY <1>1, <1>3, <2>1, CreateMessages
<1>4. ASSUME NEW bClose \in BOOLEAN, NEW size \in Nat, NEW merge \in BOOLEAN,
             Send(TRUE, bClose, size, merge)
      PROVE  StepAgrees
  <2>1. client' = client /\ settled' = settled /\ messages' = messages + 1
    BY <1>4 DEF Send
  <2> QED BY <1>2, <1>4, <2>1, SendMessages
<1>5. ASSUME NEW size \in ReliableSizes, SendReliable(size) PROVE StepAgrees
  <2>1. Send(TRUE, FALSE, size, TRUE)
    BY <1>5 DEF SendReliable
  <2>2. size \in Nat
    BY Constants
  <2> QED BY <1>4, <2>1, <2>2
<1>6. ASSUME NEW size \in PropertySizes, ReplicateActor(size) PROVE StepAgrees
  <2>1. client' = client /\ settled' = settled /\ messages' = messages + 1
    BY <1>6 DEF ReplicateActor
  <2>2. size \in Nat
    BY Constants
  <2> QED BY <1>2, <1>6, <2>1, <2>2, ReplicateMessages
<1>7. ASSUME NEW size \in ClosingSizes, Close(size) PROVE StepAgrees
  <2>1. Send(TRUE, TRUE, size, size > 0)
    BY <1>7 DEF Close
  <2>2. size \in Nat
    BY Constants
  <2>3. (size > 0) \in BOOLEAN
    BY <2>2
  <2> QED BY <1>4, <2>1, <2>2, <2>3
<1>8. CASE Flush
  <2>1. client' = client /\ settled' = settled /\ messages' = messages
    BY <1>8 DEF Flush
  <2> QED BY <1>1, <1>8, <2>1, FlushMessages
<1>9. CASE Arrive
  <2>1. server' = server /\ settled' = settled + 1 /\ messages' = messages
    BY <1>9 DEF Arrive
  <2>2. Agree(server, client', settled + 1, messages)
    BY <1>9, ArriveMessages
  <2> QED BY <2>1, <2>2 DEF StepAgrees
<1>10. CASE LosePacket
  <2>1. server' = server /\ client' = client /\ settled' = settled + 1 /\ messages' = messages
    BY <1>10 DEF LosePacket
  <2>2. Agree(server, client, settled + 1, messages)
    BY <1>10, LoseMessages
  <2> QED BY <2>1, <2>2 DEF StepAgrees
<1>11. ASSUME NEW id \in told + 1 .. settled, NEW reached \in BOOLEAN, Notify(id, reached)
       PROVE  StepAgrees
  <2>1. client' = client /\ settled' = settled /\ messages' = messages
    BY <1>11 DEF Notify
  <2> QED BY <1>1, <1>11, <2>1, NotifyMessages
<1>12. CASE NotifyInWait
  BY <1>11, <1>12 DEF NotifyInWait
<1>13. ASSUME NEW id \in told + 1 .. settled, Notify(id, TRUE) PROVE StepAgrees
  BY <1>11, <1>13
<1> QED BY <1>3, <1>5, <1>6, <1>7, <1>8, <1>9, <1>10, <1>12, <1>13 DEF Next

\* MInv is inductive beside IInv: no step of the server, the client or the network
\* breaks a message or puts an update behind a later one.
THEOREM NextMessagesRight == IInv /\ MInv /\ HasRoom /\ [Next]_vars => MInv'
<1> SUFFICES ASSUME IInv, MInv, HasRoom, [Next]_vars PROVE MInv'
  OBVIOUS
<1>1. CASE Next
  BY <1>1, NextMessages, MessagesNext DEF StepAgrees
<1>2. CASE UNCHANGED vars
  <2>1. Agree(server', client', settled', messages')
    BY <1>2, MessagesInvariant DEF vars
  <2> QED BY <2>1, MessagesNext
<1> QED BY <1>1, <1>2

\* The messages are right in every state, as long as no close took the last place of
\* the reliable buffer.
THEOREM MessagesAlwaysRight == Spec /\ []HasRoom => []MInv
<1>1. Init => MInv
  BY InitMessages
<1>2. IInv /\ MInv /\ HasRoom /\ [Next]_vars => MInv'
  BY NextMessagesRight
<1> QED BY <1>1, <1>2, Invariant, PTL DEF Spec

-----------------------------------------------------------------------------
(* What the client handles                                                 *)

\* The types of what was handled.
LEMMA HandledData ==
  ASSUME NEW c \in ReceiverState, NEW i \in DOMAIN c.received
  PROVE  /\ c.received[i].Data \in Seq(Unit)
         /\ DOMAIN c.received[i].Data = 1 .. Len(c.received[i].Data)
         /\ Len(c.received[i].Data) \in Nat
<1>1. c.received \in Seq(Handled)
  BY ReceiverFields
<1>2. c.received[i] \in Handled
  BY <1>1
<1>3. c.received[i].Data \in Seq(Unit)
  BY <1>2 DEF Handled
<1> QED BY <1>3

\* The part before, computed from the one after it.
LEMMA PreviousPart ==
  ASSUME NEW a, NEW b, Continues(a, b)
  PROVE  a = [b EXCEPT !.part = @ - 1]
<1> DEFINE p == a.part
           q == p + 1
           r == q - 1
<1>1. a \in Unit /\ b = [a EXCEPT !.part = q]
  BY DEF Continues, NextPart
<1>2. p \in Nat
  BY <1>1, UnitFields
<1>3. r = p
  BY <1>2
<1> HIDE DEF q
<1>4. b.part = q
  BY <1>1 DEF Unit
<1>5. [b EXCEPT !.part = @ - 1] = [b EXCEPT !.part = r]
  BY <1>4
<1> HIDE DEF r, p
<1>6. [b EXCEPT !.part = p] = a
  BY <1>1 DEF Unit, p
<1> QED BY <1>3, <1>5, <1>6

\* Whole messages in the words of NetChannel's WholeMessages.
LEMMA WholeAsStated ==
  ASSUME NEW data \in Seq(Unit), Whole(data), NEW k \in DOMAIN data
  PROVE  /\ data[k].part = 1 \/ (k > 1 /\ data[k - 1] = [data[k] EXCEPT !.part = @ - 1])
         /\ data[k].part < data[k].of => k < Len(data)
<1>1. data[k] \in Unit /\ k \in 1 .. Len(data) /\ Len(data) \in Nat
  OBVIOUS
<1>2. /\ data[k].part # 1 => k # 1 /\ Continues(data[k - 1], data[k])
      /\ data[k].part # data[k].of => k # Len(data)
  BY <1>1 DEF Whole
<1>3. data[k].part # 1 => k > 1
  BY <1>1, <1>2
<1>4. data[k].part # 1 => data[k - 1] = [data[k] EXCEPT !.part = @ - 1]
  BY <1>2, PreviousPart
<1>5. data[k].part < data[k].of => k < Len(data)
  <2>1. data[k].part \in Nat /\ data[k].of \in Nat
    BY <1>1, UnitFields
  <2> QED BY <1>1, <1>2, <2>1
<1> QED BY <1>3, <1>4, <1>5

\* Every message that the client's channel handles is whole, the unreliable ones too,
\* whatever packets are lost: parts of two messages are never put together.
THEOREM ClientAlwaysAgrees == Spec /\ []HasRoom => []ClientAgrees
<1>1. IInv /\ MInv => ClientAgrees
  <2> SUFFICES ASSUME IInv, MInv PROVE ClientAgrees
    OBVIOUS
  <2>1. TypeOK /\ NoBunchErrors /\ client \in ReceiverState
    BY DEF IInv, ClientRight, NoBunchErrors
  <2>2. \A i \in DOMAIN client.received : Whole(client.received[i].Data)
    BY DEF MInv, HandledRight
  <2>3. WholeMessages
    BY <2>1, <2>2, HandledData, WholeAsStated DEF WholeMessages
  <2> QED BY <2>1, <2>3 DEF ClientAgrees
<1> QED BY <1>1, Invariant, MessagesAlwaysRight, PTL

\* The client never handles a property update after one that the server wrote later,
\* whether they went reliably or not, in one channel or in two on the same index.
THEOREM UpdatesAlwaysInOrder == Spec /\ []HasRoom => []UpdatesInOrder
<1>1. IInv /\ MInv => UpdatesInOrder
  <2> SUFFICES ASSUME IInv, MInv,
                      NEW i \in DOMAIN client.received, NEW j \in DOMAIN client.received,
                      NEW k \in DOMAIN client.received[i].Data,
                      NEW n \in DOMAIN client.received[j].Data,
                      i < j \/ (i = j /\ k < n),
                      client.received[i].Data[k].update, client.received[j].Data[n].update
               PROVE  client.received[i].Data[k].message <= client.received[j].Data[n].message
    BY DEF UpdatesInOrder
  <2> DEFINE a == client.received[i].Data
             b == client.received[j].Data
  <2>1. client \in ReceiverState
    BY DEF IInv, ClientRight
  <2>2. a \in Seq(Unit) /\ b \in Seq(Unit)
    BY <2>1, HandledData
  <2>3. /\ InOrder(a) /\ (i < j => NoLater(ToSet(a), ToSet(b)))
    BY DEF MInv, HandledRight
  <2> HIDE DEF a, b
  <2>4. k \in DOMAIN a /\ n \in DOMAIN b /\ a[k].update /\ b[n].update
    BY DEF a, b
  <2>5. IsUpdate(a[k]) /\ IsUpdate(b[n]) /\ a[k] \in ToSet(a) /\ b[n] \in ToSet(b)
    BY <2>2, <2>4 DEF IsUpdate, ToSet
  <2>6. CASE i < j
    BY <2>3, <2>5, <2>6 DEF NoLater, a, b
  <2>7. CASE i = j /\ k < n
    <3>1. a = b
      BY <2>7 DEF a, b
    <3>2. a[k].message <= a[n].message
      BY <2>3, <2>4, <2>5, <2>7, <3>1 DEF InOrder
    <3> QED BY <3>1, <3>2 DEF a, b
  <2> QED BY <2>6, <2>7
<1> QED BY <1>1, Invariant, MessagesAlwaysRight, PTL
=============================================================================
