-------------------------- MODULE NdefMessageProofs --------------------------
(***************************************************************************)
(* That the messages of c_M24SR can be read, for any number of texts of    *)
(* any length that fit in a message.  What is defined by recursion is      *)
(* reasoned about with the least number for which a fact fails, because    *)
(* a theorem of induction has an operator for its parameter.               *)
(***************************************************************************)
EXTENDS NdefMessage, SequenceTheorems, WellFoundedInduction, TLAPS

-----------------------------------------------------------------------------
(* Recursion and induction over numbers.                                   *)

Less == {p \in Nat \X Nat : p[1] < p[2]}

LEMMA LessIsWellFounded == IsWellFoundedOn(Less, Nat)
BY NatLessThanWellFounded DEF OpToRel, Less

LEMMA LeastNumber ==
  ASSUME NEW T \in SUBSET Nat, T # {}
  PROVE  \E n \in T : \A m \in T : n <= m
<1>1. PICK n \in T : \A m \in T : ~(<<m, n>> \in Less)
  BY WFMin, LessIsWellFounded, Zenon
<1>2. \A m \in T : ~(m < n)
  BY <1>1 DEF Less
<1> QED BY <1>2

\* Induction, of a set of numbers: upwards, and downwards.
LEMMA Upwards ==
  ASSUME NEW n \in Nat, NEW a \in 0..n, NEW S, a \in S,
         \A i \in (a + 1)..n : i - 1 \in S => i \in S
  PROVE  \A i \in a..n : i \in S
<1> DEFINE Bad == {i \in a..n : i \notin S}
<1>1. ASSUME Bad # {} PROVE FALSE
  <2>1. Bad \in SUBSET Nat
    OBVIOUS
  <2>2. PICK i \in Bad : \A m \in Bad : i <= m
    BY <1>1, <2>1, LeastNumber, Zenon
  <2>3. i \in (a + 1)..n /\ i - 1 \in a..n /\ i - 1 \notin Bad
    BY <2>2
  <2>4. QED BY <2>2, <2>3
<1>2. QED BY <1>1

LEMMA Downwards ==
  ASSUME NEW n \in Nat, NEW a \in 0..n, NEW S, n \in S,
         \A i \in a..(n - 1) : (\A k \in (i + 1)..n : k \in S) => i \in S
  PROVE  \A i \in a..n : i \in S
<1> DEFINE Bad == {d \in 0..n : n - d \in a..n /\ n - d \notin S}
<1>1. ASSUME Bad # {} PROVE FALSE
  <2>1. Bad \in SUBSET Nat
    OBVIOUS
  <2>2. PICK d \in Bad : \A m \in Bad : d <= m
    BY <1>1, <2>1, LeastNumber, Zenon
  <2>3. n - d \in a..(n - 1)
    BY <2>2
  <2>4. ASSUME NEW k \in (n - d + 1)..n PROVE k \in S
    <3>1. n - k \in 0..n /\ n - k < d /\ n - (n - k) = k /\ k \in a..n
      BY <2>2, <2>3
    <3>2. QED BY <2>2, <3>1
  <2>5. n - d \in S
    BY <2>3, <2>4
  <2>6. QED BY <2>2, <2>5
<1>2. ASSUME NEW i \in a..n PROVE i \in S
  <2>1. n - i \in 0..n /\ n - (n - i) = i
    OBVIOUS
  <2>2. n - i \notin Bad
    BY <1>1, Zenon
  <2>3. n - (n - i) \in S
    BY <2>1, <2>2
  <2>4. QED BY <2>1, <2>3
<1>3. QED BY <1>2

\* g is given by its first value and the step from each value to the next.
Follows(g, n, V, c, step) ==
  /\ g \in [0..n -> V] /\ g[0] = c
  /\ \A i \in 1..n : g[i] = step[<<g[i - 1], i>>]

LEMMA Recursion ==
  ASSUME NEW n \in Nat, NEW V, NEW c \in V, NEW step \in [V \X (1..n) -> V]
  PROVE  \E g : Follows(g, n, V, c, step)
<1> DEFINE Good(k, g) == Follows(g, k, V, c, step)
           Bad == {k \in 0..n : ~ \E g : Good(k, g)}
<1>1. ASSUME Bad # {} PROVE FALSE
  <2>1. PICK k \in Bad : \A m \in Bad : k <= m
    <3>1. Bad \in SUBSET Nat OBVIOUS
    <3>2. QED BY <1>1, <3>1, LeastNumber, Zenon
  <2>2. CASE k = 0
    <3>1. Good(0, [i \in 0..0 |-> c])
      BY DEF Follows
    <3>2. QED BY <3>1, <2>1, <2>2
  <2>3. CASE k # 0
    <3>1. k - 1 \in 0..n /\ k - 1 \notin Bad /\ k \in 1..n
      BY <2>1, <2>3
    <3>2. PICK g : Good(k - 1, g)
      BY <3>1
    <3> DEFINE h == [i \in 0..k |-> IF i = k THEN step[<<g[k - 1], k>>] ELSE g[i]]
    <3>3. g[k - 1] \in V /\ step[<<g[k - 1], k>>] \in V
      BY <3>1, <3>2 DEF Follows
    <3>4. h \in [0..k -> V] /\ h[0] = c
      BY <3>1, <3>2, <3>3 DEF Follows
    <3>5. ASSUME NEW i \in 1..k PROVE h[i] = step[<<h[i - 1], i>>]
      <4>1. h[i - 1] = g[i - 1]
        BY <3>1
      <4>2. CASE i = k
        <5>1. k \in 0..k /\ h[k] = step[<<g[k - 1], k>>]
          BY <3>1
        <5>2. h[k - 1] = g[k - 1]
          BY <4>1, <4>2
        <5> HIDE DEF h
        <5>3. QED BY <4>2, <5>1, <5>2, Zenon
      <4>3. CASE i # k
        BY <4>1, <4>3, <3>1, <3>2 DEF Follows
      <4>4. QED BY <4>2, <4>3
    <3>6. Good(k, h)
      <4> HIDE DEF h
      <4>1. QED BY <3>4, <3>5 DEF Follows
    <3>7. QED BY <3>6, <2>1
  <2>4. QED BY <2>2, <2>3
<1>2. PICK g : Good(n, g)
  <2>1. n \in 0..n
    OBVIOUS
  <2>2. QED BY <1>1, <2>1, Zenon
<1>3. QED BY <1>2

-----------------------------------------------------------------------------
(* The size of a message: of each of its records, and of those before it.  *)

RecordSize(t) == Len(t) + (IF Len(t) < 253 THEN 7 ELSE 10)

Sizes(ts) ==
  LET upTo[i \in 0..Len(ts)] ==
        IF i = 0 THEN 0 ELSE upTo[i - 1] + RecordSize(ts[i])
  IN  upTo

LEMMA RecordSizeType ==
  ASSUME NEW t \in Seq(Nat)
  PROVE  RecordSize(t) \in Nat /\ RecordSize(t) >= 7
<1>1. Len(t) \in Nat
  OBVIOUS
<1>2. QED BY <1>1 DEF RecordSize

LEMMA SizesDef ==
  ASSUME NEW ts \in Seq(Seq(Nat))
  PROVE  /\ Sizes(ts) \in [0..Len(ts) -> Nat] /\ Sizes(ts)[0] = 0
         /\ \A i \in 1..Len(ts) : /\ RecordSize(ts[i]) \in Nat /\ RecordSize(ts[i]) >= 7
                                  /\ Sizes(ts)[i] = Sizes(ts)[i - 1] + RecordSize(ts[i])
<1> DEFINE n == Len(ts)
<1>0. n \in Nat
  OBVIOUS
<1>1. ASSUME NEW i \in 1..n
      PROVE  RecordSize(ts[i]) \in Nat /\ RecordSize(ts[i]) >= 7
  BY RecordSizeType
<1> DEFINE step == [p \in Nat \X (1..n) |-> p[1] + RecordSize(ts[p[2]])]
<1>2. 0 \in Nat /\ step \in [Nat \X (1..n) -> Nat]
  BY <1>1
<1>3. ASSUME NEW x \in Nat, NEW i \in 1..n PROVE step[<<x, i>>] = x + RecordSize(ts[i])
  OBVIOUS
<1> HIDE DEF step, n
<1>4. PICK g : Follows(g, n, Nat, 0, step)
  BY <1>0, <1>2, Recursion, Zenon
<1>5. ASSUME NEW i \in 0..n
      PROVE  g[i] = IF i = 0 THEN 0 ELSE g[i - 1] + RecordSize(ts[i])
  <2>1. CASE i = 0
    BY <1>4, <2>1 DEF Follows
  <2>2. CASE i # 0
    <3>1. i \in 1..n /\ g[i - 1] \in Nat
      BY <1>0, <1>4, <2>2 DEF Follows
    <3>2. QED BY <1>3, <1>4, <2>2, <3>1 DEF Follows
  <2>3. QED BY <2>1, <2>2
<1>6. g = [i \in 0..n |-> IF i = 0 THEN 0 ELSE g[i - 1] + RecordSize(ts[i])]
  BY <1>4, <1>5 DEF Follows
<1>7. Sizes(ts) = [i \in 0..n |-> IF i = 0 THEN 0
                                        ELSE Sizes(ts)[i - 1] + RecordSize(ts[i])]
  BY <1>6 DEF Sizes, n
<1> DEFINE f == Sizes(ts)
<1> HIDE DEF f
<1>8. f = [i \in 0..n |-> IF i = 0 THEN 0 ELSE f[i - 1] + RecordSize(ts[i])]
  BY <1>7, Zenon DEF f
<1>9. f[0] = 0 /\ \A i \in 1..n : f[i] = f[i - 1] + RecordSize(ts[i])
  BY <1>0, <1>8
<1> DEFINE Good == {i \in 0..n : f[i] \in Nat}
<1>10. ASSUME NEW i \in 0..n PROVE f[i] \in Nat
  <2>1. 0 \in Good /\ 0 \in 0..n
    BY <1>0, <1>9
  <2>2. ASSUME NEW k \in (0 + 1)..n, k - 1 \in Good PROVE k \in Good
    BY <1>0, <1>1, <1>9, <2>2
  <2>3. i \in Good
    <3> HIDE DEF Good
    <3>1. QED BY <1>0, <2>1, <2>2, Upwards
  <2>4. QED BY <2>3
<1>11. f \in [0..n -> Nat]
  BY <1>8, <1>10
<1>12. QED BY <1>1, <1>9, <1>11, Zenon DEF f, n

LEMMA SizesGrow ==
  ASSUME NEW ts \in Seq(Seq(Nat)), NEW j \in 0..Len(ts), NEW i \in 0..j
  PROVE  Sizes(ts)[i] <= Sizes(ts)[j]
<1> DEFINE n == Len(ts)
<1> DEFINE f == Sizes(ts)
<1>0. n \in Nat /\ j \in 0..n /\ i \in 0..j
  OBVIOUS
<1>1. f \in [0..n -> Nat]
  BY SizesDef, Zenon
<1> HIDE DEF n
<1>2. ASSUME NEW k \in 1..n PROVE f[k - 1] <= f[k]
  <2>1. RecordSize(ts[k]) \in Nat /\ f[k] = f[k - 1] + RecordSize(ts[k])
    BY SizesDef, Zenon DEF n
  <2> HIDE DEF f
  <2>2. f[k - 1] \in Nat
    BY <1>0, <1>1
  <2>3. QED BY <2>1, <2>2
<1> HIDE DEF f
<1> DEFINE Good == {k \in i..n : f[i] <= f[k]}
<1>3. i \in Good
  BY <1>0, <1>1
<1>4. ASSUME NEW k \in (i + 1)..n, k - 1 \in Good PROVE k \in Good
  <2>1. k \in 1..n /\ k - 1 \in i..n /\ i \in 0..n /\ k - 1 \in 0..n /\ k \in 0..n
    BY <1>0
  <2>2. f[i] \in Nat /\ f[k - 1] \in Nat /\ f[k] \in Nat /\ f[k - 1] <= f[k]
    BY <1>1, <1>2, <2>1
  <2>3. QED BY <1>4, <2>1, <2>2
<1>5. j \in Good
  <2> HIDE DEF Good
  <2>1. j \in i..n /\ i \in 0..n
    BY <1>0
  <2>2. QED BY <1>0, <1>3, <1>4, <2>1, Upwards
<1>6. QED BY <1>5 DEF f

-----------------------------------------------------------------------------
(* A record: what is written, and what is read of it.                      *)

Short(t) == Len(t) < 253

\* MB and ME of the i-th record of n.
Marks(i, n) == (IF i = 1 THEN 128 ELSE 0) + (IF i = n THEN 64 ELSE 0)

\* The bytes of b from p on are the record of the text t, so marked.
HoldsRecord(b, p, t, marks) ==
  /\ b[p] = marks + (IF Short(t) THEN 16 ELSE 0) + 1 /\ b[p + 1] = 1
  /\ Short(t) => /\ b[p + 2] = Len(t) + 3 /\ b[p + 3] = 84 /\ b[p + 4] = 2
                 /\ \A j \in 1..Len(t) : b[p + 6 + j] = t[j]
  /\ ~Short(t) => /\ b[p + 2] = 0 /\ b[p + 3] = 0
                  /\ b[p + 4] = (Len(t) + 3) \div 256 /\ b[p + 5] = (Len(t) + 3) % 256
                  /\ b[p + 6] = 84 /\ b[p + 7] = 2
                  /\ \A j \in 1..Len(t) : b[p + 9 + j] = t[j]

LEMMA RecordHeaderFlags ==
  ASSUME NEW t \in Seq(Nat), NEW i, NEW n
  PROVE  LET h == Placed(TextRecord(t), i, n).header
         IN  /\ h.flags = (IF Short(t) THEN {SR} ELSE {}) \cup (IF i = 1 THEN {MB} ELSE {})
                             \cup (IF i = n THEN {ME} ELSE {})
             /\ h.tnf = 1 /\ h.typeLength = 1 /\ h.payloadLength = Len(t) + 3 /\ h.idLength = 0
             /\ Placed(TextRecord(t), i, n).text = t
<1>1. Len(t) \in Nat
  OBVIOUS
<1>2. (Len(t) + 3 < 256) <=> Short(t)
  BY <1>1 DEF Short
<1> DEFINE h0 == TextRecord(t).header
           h1 == SetFlag(h0, MB, i = 1)
           h == Placed(TextRecord(t), i, n).header
<1>3. /\ h0.flags = IF Short(t) THEN {SR} ELSE {}
      /\ h0.tnf = 1 /\ h0.typeLength = 1 /\ h0.payloadLength = Len(t) + 3 /\ h0.idLength = 0
      /\ h0 = [flags |-> h0.flags, tnf |-> 1, typeLength |-> 1,
               payloadLength |-> Len(t) + 3, idLength |-> 0]
  BY <1>2 DEF TextRecord, set_payload_length, SetFlag, RecordHeader_ctor, NFC_well_known
<1>4. TextRecord(t) = [header |-> h0, text |-> t]
  BY DEF TextRecord
<1>5. h = SetFlag(h1, ME, i = n) /\ Placed(TextRecord(t), i, n).text = t
  BY <1>4 DEF Placed
<1> HIDE DEF h0
<1>6. /\ h1.flags = h0.flags \cup (IF i = 1 THEN {MB} ELSE {})
      /\ h1 = [flags |-> h1.flags, tnf |-> 1, typeLength |-> 1,
               payloadLength |-> Len(t) + 3, idLength |-> 0]
  <2>1. CASE i = 1
    <3>1. h1 = [h0 EXCEPT !.flags = @ \cup {MB}]
      BY <2>1 DEF SetFlag
    <3>2. QED BY <1>3, <2>1, <3>1
  <2>2. CASE i # 1
    <3>1. h1 = [h0 EXCEPT !.flags = @ \ {MB}] /\ MB \notin h0.flags
      BY <1>3, <2>2 DEF SetFlag, MB, SR
    <3>2. QED BY <1>3, <2>2, <3>1
  <2>3. QED BY <2>1, <2>2
<1> HIDE DEF h1, h
<1>7. /\ h.flags = h1.flags \cup (IF i = n THEN {ME} ELSE {})
      /\ h.tnf = 1 /\ h.typeLength = 1 /\ h.payloadLength = Len(t) + 3 /\ h.idLength = 0
  BY <1>3, <1>5, <1>6 DEF SetFlag, MB, SR, ME
<1>8. QED BY <1>3, <1>5, <1>6, <1>7 DEF h

LEMMA Appended ==
  ASSUME NEW x \in Seq(Nat), NEW y \in Seq(Nat)
  PROVE  /\ x \o y \in Seq(Nat) /\ Len(x \o y) = Len(x) + Len(y)
         /\ \A i \in 1..Len(x) : (x \o y)[i] = x[i]
         /\ \A j \in 1..Len(y) : (x \o y)[Len(x) + j] = y[j]
OBVIOUS

\* A text after its header, the type, the status and the language.
LEMMA TextAfterHeader ==
  ASSUME NEW u \in Seq(Nat), NEW t \in Seq(Nat),
         NEW w, w = u \o <<84, 2>> \o <<101, 110>> \o t
  PROVE  /\ w \in Seq(Nat) /\ Len(w) = Len(u) + 4 + Len(t)
         /\ \A j \in 1..Len(u) : w[j] = u[j]
         /\ w[Len(u) + 1] = 84 /\ w[Len(u) + 2] = 2
         /\ \A j \in 1..Len(t) : w[Len(u) + 4 + j] = t[j]
<1> DEFINE a == <<84, 2>>
           b == <<101, 110>>
           x == u \o a
           y == x \o b
           m == Len(u)
<1>0. m \in Nat /\ Len(t) \in Nat
  OBVIOUS
<1>1. a \in Seq(Nat) /\ Len(a) = 2 /\ a[1] = 84 /\ a[2] = 2 /\ b \in Seq(Nat) /\ Len(b) = 2
  OBVIOUS
<1> HIDE DEF a, b
<1>2. /\ x \in Seq(Nat) /\ Len(x) = m + Len(a) /\ \A i \in 1..m : x[i] = u[i]
      /\ \A j \in 1..Len(a) : x[m + j] = a[j]
  BY <1>1, Appended, Zenon
<1> HIDE DEF x
<1>3. /\ y \in Seq(Nat) /\ Len(y) = Len(x) + Len(b)
      /\ \A i \in 1..Len(x) : y[i] = x[i]
  <2>1. x \in Seq(Nat) /\ b \in Seq(Nat)
    BY <1>1, <1>2
  <2>2. QED BY <2>1, Appended, Zenon
<1> HIDE DEF y
<1>4. /\ w \in Seq(Nat) /\ Len(w) = Len(y) + Len(t)
      /\ \A i \in 1..Len(y) : w[i] = y[i]
      /\ \A j \in 1..Len(t) : w[Len(y) + j] = t[j]
  <2>1. y \in Seq(Nat)
    BY <1>3
  <2>2. w = y \o t
    BY Zenon DEF y, x, a, b
  <2> DEFINE v == y \o t
  <2>3. /\ v \in Seq(Nat) /\ Len(v) = Len(y) + Len(t)
        /\ \A i \in 1..Len(y) : v[i] = y[i]
        /\ \A j \in 1..Len(t) : v[Len(y) + j] = t[j]
    BY <2>1, Appended, Zenon
  <2> HIDE DEF v
  <2>4. w = v
    BY <2>2 DEF v
  <2>5. QED BY <2>3, <2>4
<1> HIDE DEF m
<1>5. w[m + 1] = 84 /\ w[m + 2] = 2 /\ \A j \in 1..m : w[j] = u[j]
  <2>1. Len(x) = m + 2 /\ Len(y) = m + 4
    BY <1>0, <1>1, <1>2, <1>3
  <2>2. x[m + 1] = 84 /\ x[m + 2] = 2
    BY <1>0, <1>1, <1>2
  <2>3. y[m + 1] = 84 /\ y[m + 2] = 2 /\ \A j \in 1..m : y[j] = u[j]
    BY <1>0, <1>2, <1>3, <2>1, <2>2
  <2>4. QED BY <1>0, <1>4, <2>1, <2>3
<1>6. Len(y) = m + 4
  BY <1>0, <1>1, <1>2, <1>3
<1>7. Len(w) = m + 4 + Len(t)
  BY <1>4, <1>6
<1>8. QED BY <1>4, <1>5, <1>6, <1>7 DEF m

LEMMA RecordIsWritten ==
  ASSUME NEW t \in Seq(Nat), Len(t) + 3 < 65536, NEW i, NEW n
  PROVE  LET w == record_text_write(Placed(TextRecord(t), i, n))
         IN  /\ w \in Seq(Nat) /\ Len(w) = RecordSize(t)
             /\ HoldsRecord(w, 1, t, Marks(i, n))
<1> DEFINE h == Placed(TextRecord(t), i, n).header
           w == record_text_write(Placed(TextRecord(t), i, n))
           k == Len(t)
<1>1. /\ h.flags = (IF Short(t) THEN {SR} ELSE {}) \cup (IF i = 1 THEN {MB} ELSE {})
                      \cup (IF i = n THEN {ME} ELSE {})
      /\ h.tnf = 1 /\ h.typeLength = 1 /\ h.payloadLength = k + 3 /\ h.idLength = 0
      /\ Placed(TextRecord(t), i, n).text = t
  BY RecordHeaderFlags
<1>2. k \in Nat /\ k + 3 < 65536 /\ (Short(t) <=> k < 253)
  BY DEF Short
<1> HIDE DEF h
<1>3. w = write_header(h) \o <<84, 2>> \o <<101, 110>> \o t
  BY <1>1 DEF h, record_text_write, NDEF_TEXT_ID_CODE, get_text_status, LanguageCode
<1>4. headerFlags(h) = Marks(i, n) + (IF Short(t) THEN 16 ELSE 0) + 1 /\ headerFlags(h) \in Nat
  BY <1>1 DEF headerFlags, Marks, MB, ME, CF, SR, IL
<1>5. (SR \in h.flags <=> Short(t)) /\ IL \notin h.flags
  BY <1>1 DEF MB, ME, SR, IL
<1> HIDE DEF k, w
<1>6. CASE Short(t)
  <2> DEFINE u == write_header(h)
  <2>1. (k + 3) % 256 = k + 3
    BY <1>2, <1>6
  <2>2. u = <<headerFlags(h), 1>> \o <<k + 3>> \o <<>>
    BY <1>1, <1>5, <1>6, <2>1 DEF write_header
  <2>3. u \in Seq(Nat) /\ Len(u) = 3 /\ u[1] = headerFlags(h) /\ u[2] = 1 /\ u[3] = k + 3
    BY <1>2, <1>4, <2>2
  <2> HIDE DEF u
  <2>4. /\ w \in Seq(Nat) /\ Len(w) = 7 + k
        /\ \A j \in 1..3 : w[j] = u[j]
        /\ w[4] = 84 /\ w[5] = 2 /\ \A j \in 1..k : w[7 + j] = t[j]
    <3>1. /\ w \in Seq(Nat) /\ Len(w) = Len(u) + 4 + k
          /\ \A j \in 1..Len(u) : w[j] = u[j]
          /\ w[Len(u) + 1] = 84 /\ w[Len(u) + 2] = 2
          /\ \A j \in 1..k : w[Len(u) + 4 + j] = t[j]
      <4>1. u \in Seq(Nat)
        BY <2>3
      <4>2. w = u \o <<84, 2>> \o <<101, 110>> \o t
        BY <1>3 DEF u
      <4>3. Len(t) = k
        BY DEF k
      <4>4. QED BY <4>1, <4>2, <4>3, TextAfterHeader
    <3>2. QED BY <1>2, <2>3, <3>1
  <2> HIDE DEF w
  <2>5. QED BY <1>2, <1>4, <1>6, <2>3, <2>4 DEF HoldsRecord, RecordSize, Short, k, w
<1>7. CASE ~Short(t)
  <2> DEFINE u == write_header(h)
  <2>1. (k + 3) \div 16777216 = 0 /\ ((k + 3) \div 65536) % 256 = 0
        /\ ((k + 3) \div 256) % 256 = (k + 3) \div 256
    BY <1>2, <1>7
  <2>2. u = <<headerFlags(h), 1>> \o <<0, 0, (k + 3) \div 256, (k + 3) % 256>> \o <<>>
    BY <1>1, <1>5, <1>7, <2>1 DEF write_header
  <2>3. (k + 3) \div 256 \in Nat /\ (k + 3) % 256 \in Nat
    BY <1>2
  <2>4. /\ u \in Seq(Nat) /\ Len(u) = 6 /\ u[1] = headerFlags(h) /\ u[2] = 1
        /\ u[3] = 0 /\ u[4] = 0 /\ u[5] = (k + 3) \div 256 /\ u[6] = (k + 3) % 256
    BY <1>4, <2>2, <2>3
  <2> HIDE DEF u
  <2>5. /\ w \in Seq(Nat) /\ Len(w) = 10 + k
        /\ \A j \in 1..6 : w[j] = u[j]
        /\ w[7] = 84 /\ w[8] = 2 /\ \A j \in 1..k : w[10 + j] = t[j]
    <3>1. /\ w \in Seq(Nat) /\ Len(w) = Len(u) + 4 + k
          /\ \A j \in 1..Len(u) : w[j] = u[j]
          /\ w[Len(u) + 1] = 84 /\ w[Len(u) + 2] = 2
          /\ \A j \in 1..k : w[Len(u) + 4 + j] = t[j]
      <4>1. u \in Seq(Nat)
        BY <2>4
      <4>2. w = u \o <<84, 2>> \o <<101, 110>> \o t
        BY <1>3 DEF u
      <4>3. Len(t) = k
        BY DEF k
      <4>4. QED BY <4>1, <4>2, <4>3, TextAfterHeader
    <3>2. QED BY <1>2, <2>4, <3>1
  <2> HIDE DEF w
  <2>6. \A j \in 1..k : w[1 + 9 + j] = t[j]
    BY <1>2, <2>5
  <2>7. w[1 + 1] = 1 /\ w[1 + 2] = 0 /\ w[1 + 3] = 0 /\ w[1 + 4] = (k + 3) \div 256
        /\ w[1 + 5] = (k + 3) % 256 /\ w[1 + 6] = 84 /\ w[1 + 7] = 2
    <3>1. w[2] = u[2] /\ w[3] = u[3] /\ w[4] = u[4] /\ w[5] = u[5] /\ w[6] = u[6]
      BY <2>5
    <3> DEFINE a == (k + 3) \div 256
               d == (k + 3) % 256
    <3>2. w[2] = 1 /\ w[3] = 0 /\ w[4] = 0 /\ w[5] = a /\ w[6] = d /\ w[7] = 84 /\ w[8] = 2
      BY <2>4, <2>5, <3>1
    <3> HIDE DEF a, d
    <3>3. w[1 + 1] = 1 /\ w[1 + 2] = 0 /\ w[1 + 3] = 0 /\ w[1 + 4] = a /\ w[1 + 5] = d
          /\ w[1 + 6] = 84 /\ w[1 + 7] = 2
      BY <3>2
    <3>4. QED BY <3>3 DEF a, d
  <2>8. HoldsRecord(w, 1, t, Marks(i, n))
    BY <1>4, <1>7, <2>4, <2>5, <2>6, <2>7 DEF HoldsRecord, k
  <2>9. RecordSize(t) = 10 + k
    BY <1>2, <1>7 DEF RecordSize, Short, k
  <2>10. QED BY <2>5, <2>8, <2>9 DEF w
<1>8. QED BY <1>6, <1>7

\* The bits of a first byte that is made of marks m and format z.
BitsOf(v, m, z) ==
  /\ v \in Nat /\ v % 8 = 1
  /\ ((v \div 128) % 2 = 1) <=> m >= 128
  /\ ((v \div 64) % 2 = 1) <=> m \in {64, 192}
  /\ (v \div 32) % 2 = 0 /\ (v \div 8) % 2 = 0
  /\ ((v \div 16) % 2 = 1) <=> z = 16

MarkValues == {0, 64, 128, 192}
FormatValues == {0, 16}

LEMMA FirstByteBits ==
  ASSUME NEW m \in MarkValues, NEW z \in FormatValues
  PROVE  BitsOf(m + z + 1, m, z)
BY DEF BitsOf, MarkValues, FormatValues

LEMMA DivMod256 ==
  ASSUME NEW a \in Nat
  PROVE  a \div 256 \in Nat /\ a % 256 \in Nat /\ 256 * (a \div 256) + (a % 256) = a
<1>1. a \div 256 \in Nat
  OBVIOUS
<1>2. a % 256 \in Nat
  OBVIOUS
<1>3. 256 * (a \div 256) + (a % 256) = a
  OBVIOUS
<1>4. QED BY <1>1, <1>2, <1>3, Zenon

\* A record lies within the message, and is marked as the first one if it is.
LiesWithin(b, p, t, m) ==
  /\ Len(t) + 3 < 65536 /\ p >= 3 /\ (p = 3 <=> m >= 128)
  /\ EndOf(b) \in Nat /\ p + RecordSize(t) <= EndOf(b) + 1 /\ EndOf(b) <= Len(b)

\* The reader finds the text, the end of the record, and whether it is the last.
ReadsRecord(b, p, t, m) ==
  /\ IsTextRecord(b, p) /\ NextAt(b, p) = p + RecordSize(t) /\ TextAt(b, p) = t
  /\ (ME \in load_header(b, p).flags) <=> m \in {64, 192}

LEMMA RecordIsRead ==
  ASSUME NEW t \in Seq(Nat), NEW b \in Seq(Nat), NEW p \in Nat, NEW m \in MarkValues,
         HoldsRecord(b, p, t, m), LiesWithin(b, p, t, m)
  PROVE  ReadsRecord(b, p, t, m)
<1>0. /\ Len(t) + 3 < 65536 /\ p >= 3 /\ (p = 3 <=> m >= 128)
      /\ EndOf(b) \in Nat /\ p + RecordSize(t) <= EndOf(b) + 1 /\ EndOf(b) <= Len(b)
  BY DEF LiesWithin
<1> DEFINE h == load_header(b, p)
           k == Len(t)
           z == IF Short(t) THEN 16 ELSE 0
           v == m + z + 1
           q == PayloadAt(b, p)
<1>1. k \in Nat /\ k + 3 < 65536 /\ (Short(t) <=> k < 253)
  BY <1>0 DEF Short
<1>2. b[p] = v /\ b[p + 1] = 1
  BY DEF HoldsRecord
<1>3. /\ v \in Nat /\ v % 8 = 1
      /\ ((v \div 128) % 2 = 1) <=> m >= 128
      /\ ((v \div 64) % 2 = 1) <=> m \in {64, 192}
      /\ (v \div 32) % 2 = 0 /\ (v \div 8) % 2 = 0
      /\ ((v \div 16) % 2 = 1) <=> Short(t)
  <2>1. z \in {0, 16} /\ (z = 16 <=> Short(t))
    OBVIOUS
  <2>2. z \in FormatValues
    BY <2>1 DEF FormatValues
  <2> HIDE DEF z
  <2>3. BitsOf(v, m, z)
    BY <2>2, FirstByteBits, Zenon
  <2> HIDE DEF v
  <2>4. QED BY <2>1, <2>3 DEF BitsOf
<1> HIDE DEF v
<1>4. /\ (MB \in h.flags) <=> (p = 3)
      /\ (ME \in h.flags) <=> m \in {64, 192}
      /\ (SR \in h.flags) <=> Short(t)
      /\ CF \notin h.flags /\ IL \notin h.flags
  BY <1>0, <1>2, <1>3 DEF load_header, MB, ME, CF, SR, IL
<1>5. h.tnf = 1 /\ h.typeLength = 1
  BY <1>2, <1>3 DEF load_header
<1>6. h.payloadLength = k + 3
  <2>1. CASE Short(t)
    <3>1. b[p + 2] = k + 3
      BY <2>1 DEF HoldsRecord
    <3>2. QED BY <1>2, <1>3, <2>1, <3>1 DEF load_header, SR
  <2>2. CASE ~Short(t)
    <3>1. b[p + 2] = 0 /\ b[p + 3] = 0 /\ b[p + 4] = (k + 3) \div 256 /\ b[p + 5] = (k + 3) % 256
      BY <2>2 DEF HoldsRecord
    <3>2. h.payloadLength = ((b[p + 2] * 256 + b[p + 3]) * 256 + b[p + 4]) * 256 + b[p + 5]
      BY <1>2, <1>3, <2>2 DEF load_header, SR
    <3>3. ((0 * 256 + 0) * 256 + ((k + 3) \div 256)) * 256 + ((k + 3) % 256) = k + 3
      <4> DEFINE a == k + 3
                 q1 == a \div 256
                 r1 == a % 256
      <4>1. a \in Nat
        BY <1>1
      <4> HIDE DEF a
      <4>2. q1 \in Nat /\ r1 \in Nat /\ 256 * q1 + r1 = a
        BY <4>1, DivMod256
      <4> HIDE DEF q1, r1
      <4>3. ((0 * 256 + 0) * 256 + q1) * 256 + r1 = a
        BY <4>1, <4>2
      <4>4. QED BY <4>3 DEF a, q1, r1
    <3>4. QED BY <3>1, <3>2, <3>3
  <2>3. QED BY <2>1, <2>2
<1>7. /\ q = p + (IF Short(t) THEN 4 ELSE 7) /\ NextAt(b, p) = p + RecordSize(t)
      /\ NextAt(b, p) = q + k + 3
  <2>1. q = p + (IF Short(t) THEN 4 ELSE 7)
    BY <1>4 DEF PayloadAt
  <2>2. NextAt(b, p) = q + k + 3
    <3>1. NextAt(b, p) = q + (k + 3) /\ q \in Nat
      BY <1>1, <1>6, <2>1 DEF NextAt
    <3> HIDE DEF q, k
    <3>2. QED BY <1>1, <3>1
  <2> HIDE DEF q
  <2>3. RecordSize(t) = k + (IF Short(t) THEN 7 ELSE 10)
    BY <1>1 DEF RecordSize
  <2> HIDE DEF k
  <2>4. QED BY <1>1, <2>1, <2>2, <2>3
<1>8. b[q - 1] = 84 /\ b[q] = 2 /\ \A j \in 1..k : b[q + 2 + j] = t[j]
  <2>1. CASE Short(t)
    BY <1>7, <2>1 DEF HoldsRecord
  <2>2. CASE ~Short(t)
    BY <1>7, <2>2 DEF HoldsRecord
  <2>3. QED BY <2>1, <2>2
<1> HIDE DEF h, q, k
<1>9. IsTextRecord(b, p)
  <2>1. p + 2 <= EndOf(b) /\ ((b[p] \div SR) % 2 = 0 => p + 5 <= EndOf(b))
    <3> DEFINE E == EndOf(b)
               r == RecordSize(t)
    <3>1. (b[p] \div SR) % 2 = (v \div 16) % 2
      BY <1>2 DEF SR
    <3>2. r = k + (IF Short(t) THEN 7 ELSE 10)
      BY <1>1 DEF RecordSize, k
    <3>3. E \in Nat /\ p + r <= E + 1
      BY <1>0
    <3>4. ((b[p] \div SR) % 2 = 0) => ~Short(t)
      BY <1>3, <3>1
    <3> HIDE DEF E, r
    <3>5. p + 2 <= E /\ (~Short(t) => p + 5 <= E)
      BY <1>1, <3>2, <3>3
    <3>6. QED BY <3>4, <3>5 DEF E
  <2>2. h.flags \cap {CF, IL} = {} /\ h.payloadLength >= 1
    BY <1>1, <1>4, <1>6
  <2>3. NextAt(b, p) <= EndOf(b) + 1
    BY <1>0, <1>7
  <2>4. /\ h.tnf = NFC_well_known /\ h.typeLength = 1 /\ ((MB \in h.flags) = (p = 3))
        /\ b[q - 1] = NDEF_TEXT_ID_CODE
    BY <1>4, <1>5, <1>8 DEF NFC_well_known, NDEF_TEXT_ID_CODE
  <2>5. QED BY <2>1, <2>2, <2>3, <2>4, Zenon DEF IsTextRecord, h, q
<1>10. TextAt(b, p) = t
  <2>1. TextAt(b, p) = SubSeq(b, q + 3, q + k + 2)
    <3>1. PayloadAt(b, p) = q /\ q \in Nat
      BY <1>7 DEF q
    <3>2. q + 1 + 2 = q + 3 /\ q + k + 3 - 1 = q + k + 2
      BY <1>1, <3>1
    <3> DEFINE lo == q + 1 + b[q]
               hi == NextAt(b, p) - 1
    <3>3. TextAt(b, p) = SubSeq(b, lo, hi)
      BY DEF TextAt, q
    <3>4. b[q] = 2 /\ NextAt(b, p) = q + k + 3 /\ k \in Nat
      BY <1>1, <1>7, <1>8
    <3> HIDE DEF k
    <3>5. lo = q + 3 /\ hi = q + k + 2
      BY <3>1, <3>4
    <3> HIDE DEF lo, hi
    <3>6. QED BY <3>3, <3>5
  <2>2. q \in Nat /\ q + 2 + k <= Len(b)
    BY <1>0, <1>1, <1>7 DEF RecordSize
  <2>3. SubSeq(b, q + 3, q + k + 2) = t
    <3> DEFINE x == SubSeq(b, q + 3, q + k + 2)
    <3>1. x \in Seq(Nat) /\ Len(x) = k /\ \A j \in 1..k : x[j] = b[q + 2 + j]
      <4> DEFINE lo == q + 3
                 hi == q + k + 2
      <4>1. lo \in Int /\ hi \in Int /\ 1 <= lo /\ hi <= Len(b) /\ hi - lo + 1 = k
        BY <1>1, <2>2
      <4>2. x = SubSeq(b, lo, hi) /\ (lo <= hi <=> k > 0) /\ \A j \in 1..k : lo + j - 1 = q + 2 + j
        BY <1>1, <2>2
      <4> HIDE DEF lo, hi, x
      <4>3. \A i \in lo..hi : b[i] \in Nat
        BY <4>1
      <4>4. /\ SubSeq(b, lo, hi) \in Seq(Nat)
            /\ Len(SubSeq(b, lo, hi)) = IF lo <= hi THEN hi - lo + 1 ELSE 0
            /\ \A i \in 1..(hi - lo + 1) : SubSeq(b, lo, hi)[i] = b[lo + i - 1]
        <5>1. lo \in Int /\ hi \in Int
          BY <4>1
        <5>2. QED BY <4>3, <5>1, SubSeqProperties
      <4>5. Len(x) = k
        BY <1>1, <4>1, <4>2, <4>4
      <4>6. \A j \in 1..k : x[j] = b[lo + j - 1]
        BY <4>1, <4>2, <4>4, Zenon
      <4>7. \A j \in 1..k : x[j] = b[q + 2 + j]
        BY <4>2, <4>6, Zenon
      <4>8. QED BY <4>2, <4>4, <4>5, <4>7, Zenon
    <3> HIDE DEF x
    <3>2. Len(x) = Len(t) /\ \A j \in 1..Len(x) : x[j] = t[j]
      BY <1>8, <3>1 DEF k
    <3>3. x = t
      BY <3>1, <3>2, SeqEqual
    <3>4. QED BY <3>3 DEF x
  <2>4. QED BY <2>1, <2>3
<1>11. QED BY <1>4, <1>7, <1>9, <1>10 DEF h, ReadsRecord

\* What a record is, is a matter of its bytes, wherever they are.
LEMMA RecordIsMoved ==
  ASSUME NEW t \in Seq(Nat), NEW b, NEW p \in Nat, NEW m, HoldsRecord(b, p, t, m),
         NEW c, NEW q \in Nat, \A j \in 0..(RecordSize(t) - 1) : c[q + j] = b[p + j]
  PROVE  HoldsRecord(c, q, t, m)
<1> DEFINE k == Len(t)
           r == RecordSize(t)
<1>1. k \in Nat /\ r = k + (IF Short(t) THEN 7 ELSE 10)
  BY DEF RecordSize, Short
<1>2. \A j \in 0..(r - 1) : c[q + j] = b[p + j]
  OBVIOUS
<1> HIDE DEF k, r
<1>3. c[q] = b[p] /\ c[q + 1] = b[p + 1]
  <2>1. 0 \in 0..(r - 1) /\ 1 \in 0..(r - 1) /\ q + 0 = q /\ p + 0 = p
    BY <1>1
  <2>2. c[q + 0] = b[p + 0] /\ c[q + 1] = b[p + 1]
    BY <1>2, <2>1
  <2>3. QED BY <2>1, <2>2
<1>4. CASE Short(t)
  <2>1. 2 \in 0..(r - 1) /\ 3 \in 0..(r - 1) /\ 4 \in 0..(r - 1)
    BY <1>1, <1>4
  <2>2. c[q + 2] = b[p + 2] /\ c[q + 3] = b[p + 3] /\ c[q + 4] = b[p + 4]
    BY <1>2, <2>1
  <2>3. ASSUME NEW j \in 1..k PROVE c[q + 6 + j] = t[j]
    <3>1. 6 + j \in 0..(r - 1) /\ q + (6 + j) = q + 6 + j /\ p + (6 + j) = p + 6 + j
      BY <1>1, <1>4
    <3>2. c[q + (6 + j)] = b[p + (6 + j)]
      BY <1>2, <3>1
    <3>3. b[p + 6 + j] = t[j]
      BY <1>4 DEF HoldsRecord, k
    <3>4. QED BY <3>1, <3>2, <3>3
  <2>4. QED BY <1>3, <1>4, <2>2, <2>3 DEF HoldsRecord, k
<1>5. CASE ~Short(t)
  <2>1. /\ 2 \in 0..(r - 1) /\ 3 \in 0..(r - 1) /\ 4 \in 0..(r - 1)
        /\ 5 \in 0..(r - 1) /\ 6 \in 0..(r - 1) /\ 7 \in 0..(r - 1)
    BY <1>1, <1>5
  <2>2. /\ c[q + 2] = b[p + 2] /\ c[q + 3] = b[p + 3] /\ c[q + 4] = b[p + 4]
        /\ c[q + 5] = b[p + 5] /\ c[q + 6] = b[p + 6] /\ c[q + 7] = b[p + 7]
    BY <1>2, <2>1
  <2>3. ASSUME NEW j \in 1..k PROVE c[q + 9 + j] = t[j]
    <3>1. 9 + j \in 0..(r - 1) /\ q + (9 + j) = q + 9 + j /\ p + (9 + j) = p + 9 + j
      BY <1>1, <1>5
    <3>2. c[q + (9 + j)] = b[p + (9 + j)]
      BY <1>2, <3>1
    <3>3. b[p + 9 + j] = t[j]
      BY <1>5 DEF HoldsRecord, k
    <3>4. QED BY <3>1, <3>2, <3>3
  <2>4. QED BY <1>3, <1>5, <2>2, <2>3 DEF HoldsRecord, k
<1>6. QED BY <1>4, <1>5

-----------------------------------------------------------------------------
(* A message, as it is written.                                            *)

MessageOfTexts(ts) == [i \in 1..Len(ts) |-> TextRecord(ts[i])]

\* A message whose length the two bytes in front of it can hold.
Fits(ts) == Sizes(ts)[Len(ts)] < 65536

LEMMA SizeIsMore ==
  ASSUME NEW t \in Seq(Nat)
  PROVE  Len(t) + 7 <= RecordSize(t)
<1>1. Len(t) \in Nat
  OBVIOUS
<1>2. QED BY <1>1 DEF RecordSize

LEMMA EachFits ==
  ASSUME NEW ts \in Seq(Seq(Nat)), Fits(ts), NEW i \in 1..Len(ts)
  PROVE  /\ ts[i] \in Seq(Nat) /\ Len(ts[i]) \in Nat /\ Len(ts[i]) + 3 < 65536
         /\ i - 1 \in 0..Len(ts) /\ i \in 0..Len(ts)
         /\ Sizes(ts)[i - 1] \in Nat /\ Sizes(ts)[i] \in Nat
         /\ RecordSize(ts[i]) \in Nat /\ RecordSize(ts[i]) >= 7
         /\ Sizes(ts)[i] = Sizes(ts)[i - 1] + RecordSize(ts[i])
         /\ Sizes(ts)[i] <= Sizes(ts)[Len(ts)] /\ Sizes(ts)[Len(ts)] \in Nat
<1> DEFINE n == Len(ts)
           f == Sizes(ts)
<1>1. n \in Nat /\ i \in 1..n /\ ts[i] \in Seq(Nat)
  OBVIOUS
<1>2. Len(ts[i]) \in Nat
  BY <1>1
<1>3. f \in [0..n -> Nat]
  BY SizesDef, Zenon
<1>4. /\ RecordSize(ts[i]) \in Nat /\ RecordSize(ts[i]) >= 7
      /\ f[i] = f[i - 1] + RecordSize(ts[i])
  BY SizesDef, Zenon
<1>5. \A k \in 0..n : \A j \in 0..k : f[j] <= f[k]
  BY SizesGrow, Zenon
<1>6. f[n] < 65536
  BY DEF Fits
<1> HIDE DEF n, f
<1>7. i - 1 \in 0..n /\ i \in 0..n /\ n \in 0..n
  BY <1>1
<1>8. f[i - 1] \in Nat /\ f[i] \in Nat /\ f[n] \in Nat /\ f[i] <= f[n]
  BY <1>1, <1>3, <1>5, <1>7
<1>9. RecordSize(ts[i]) < 65536
  BY <1>4, <1>6, <1>8
<1>10. Len(ts[i]) + 3 < 65536
  <2>1. Len(ts[i]) + 7 <= RecordSize(ts[i])
    BY <1>1, SizeIsMore
  <2>2. QED BY <1>2, <1>4, <1>9, <2>1
<1>11. QED BY <1>1, <1>2, <1>4, <1>7, <1>8, <1>10 DEF n, f

LEMMA RecordLength ==
  ASSUME NEW t \in Seq(Nat), RecordSize(t) < 65536
  PROVE  get_record_length(TextRecord(t).header) = RecordSize(t)
<1> DEFINE h == TextRecord(t).header
           k == Len(t)
<1>1. k \in Nat /\ (Short(t) <=> k < 253)
  BY DEF Short
<1>2. (k + 3 < 256) <=> Short(t)
  BY <1>1
<1>3. /\ h.flags = IF Short(t) THEN {SR} ELSE {}
      /\ h.typeLength = 1 /\ h.payloadLength = k + 3 /\ h.idLength = 0
  <2>1. h = set_payload_length([RecordHeader_ctor EXCEPT !.tnf = 1, !.typeLength = 1], k + 3)
    BY DEF TextRecord, NFC_well_known
  <2> HIDE DEF h
  <2>2. QED BY <1>2, <2>1 DEF set_payload_length, SetFlag, RecordHeader_ctor
<1> HIDE DEF h
<1>4. (SR \in h.flags <=> Short(t)) /\ IL \notin h.flags
  BY <1>3 DEF SR, IL
<1>5. get_record_length(h) = ((IF Short(t) THEN 3 ELSE 6) + 0 + 1 + (k + 3)) % 65536
  BY <1>3, <1>4 DEF get_record_length
<1>6. RecordSize(t) = k + (IF Short(t) THEN 7 ELSE 10)
  BY <1>1 DEF RecordSize
<1> HIDE DEF k
<1>7. QED BY <1>1, <1>5, <1>6 DEF h

LEMMA LengthIsSize ==
  ASSUME NEW ts \in Seq(Seq(Nat)), Fits(ts)
  PROVE  /\ ContentLength(MessageOfTexts(ts)) = Sizes(ts)[Len(ts)]
         /\ Len(MessageOfTexts(ts)) = Len(ts)
<1> DEFINE n == Len(ts)
           msg == MessageOfTexts(ts)
           g == Sizes(ts)
           f == LengthUpTo(msg)
           r == [i \in 1..n |-> get_record_length(msg[i].header)]
<1>1. n \in Nat /\ 0 \in 0..n
  OBVIOUS
<1>2. Len(msg) = n /\ \A i \in 1..n : msg[i] = TextRecord(ts[i])
  BY DEF MessageOfTexts
<1>3. ASSUME NEW i \in 1..n
      PROVE  /\ i - 1 \in 0..n /\ g[i - 1] \in Nat /\ r[i] \in Nat
             /\ g[i] = g[i - 1] + r[i] /\ g[i] \in Nat /\ g[i] < 65536
  <2>1. /\ ts[i] \in Seq(Nat) /\ i - 1 \in 0..n
        /\ g[i - 1] \in Nat /\ g[i] \in Nat /\ RecordSize(ts[i]) \in Nat
        /\ g[i] = g[i - 1] + RecordSize(ts[i]) /\ g[i] <= g[n] /\ g[n] \in Nat
    BY EachFits
  <2>2. g[n] < 65536
    BY DEF Fits
  <2> HIDE DEF g
  <2>3. RecordSize(ts[i]) < 65536
    BY <2>1, <2>2
  <2>4. r[i] = RecordSize(ts[i])
    BY <1>2, <2>1, <2>3, RecordLength
  <2> HIDE DEF r
  <2>5. QED BY <2>1, <2>2, <2>4
<1>4. g[0] = 0 /\ g \in [0..n -> Nat]
  BY SizesDef, Zenon
<1>5. \A i \in 1..n : get_record_length(msg[i].header) = r[i]
  OBVIOUS
<1> HIDE DEF r, g, n, msg
<1>6. g = [i \in 0..n |-> IF i = 0 THEN 0
                          ELSE (g[i - 1] + get_record_length(msg[i].header)) % 65536]
  <2>1. ASSUME NEW i \in 0..n, i # 0
        PROVE  g[i] = (g[i - 1] + get_record_length(msg[i].header)) % 65536
    <3>1. i \in 1..n
      BY <1>1, <2>1
    <3>2. g[i] = g[i - 1] + get_record_length(msg[i].header) /\ g[i] \in Nat /\ g[i] < 65536
      BY <1>3, <1>5, <3>1
    <3> DEFINE y == g[i]
    <3> HIDE DEF y
    <3>3. y \in Nat /\ y < 65536
      BY <3>2 DEF y
    <3>4. y % 65536 = y
      BY <3>3
    <3>5. QED BY <3>2, <3>4 DEF y
  <2>2. QED BY <1>4, <2>1
<1>7. f = [i \in 0..n |-> IF i = 0 THEN 0
                          ELSE (f[i - 1] + get_record_length(msg[i].header)) % 65536]
  <2> DEFINE Solves(h) == h = [i \in 0..Len(msg) |->
               IF i = 0 THEN 0 ELSE (h[i - 1] + get_record_length(msg[i].header)) % 65536]
  <2>1. f = CHOOSE h : Solves(h)
    BY DEF LengthUpTo
  <2>2. Solves(g)
    BY <1>2, <1>6
  <2> HIDE DEF Solves, f
  <2>3. Solves(f)
    BY <2>1, <2>2, Zenon
  <2>4. QED BY <1>2, <2>3 DEF Solves
<1> HIDE DEF f
<1>8. ASSUME NEW i \in 0..n, i # 0
      PROVE  f[i] = (f[i - 1] + get_record_length(msg[i].header)) % 65536
  BY <1>1, <1>7, <1>8
<1>9. ASSUME NEW i \in 0..n, i # 0
      PROVE  g[i] = (g[i - 1] + get_record_length(msg[i].header)) % 65536
  BY <1>1, <1>6, <1>9
<1> DEFINE Good == {i \in 0..n : f[i] = g[i]}
<1>10. 0 \in Good
  BY <1>1, <1>4, <1>7
<1>11. ASSUME NEW i \in (0 + 1)..n, i - 1 \in Good PROVE i \in Good
  <2>1. i \in 1..n /\ i \in 0..n /\ i # 0
    BY <1>1
  <2>2. f[i] = (f[i - 1] + get_record_length(msg[i].header)) % 65536
    BY <1>8, <2>1
  <2>3. g[i] = (g[i - 1] + get_record_length(msg[i].header)) % 65536
    BY <1>9, <2>1
  <2>4. f[i - 1] = g[i - 1]
    BY <1>11
  <2>5. QED BY <2>1, <2>2, <2>3, <2>4
<1>12. n \in Good
  <2> HIDE DEF Good
  <2>1. n \in 0..n
    BY <1>1
  <2>2. QED BY <1>1, <1>10, <1>11, <2>1, Upwards
<1>13. QED BY <1>2, <1>12 DEF ContentLength, f, g, n, msg

\* A buffer to which one sequence after another is appended: there is one, and
\* each sequence stays where it was put.
AppendsTo(f, n, start, R) ==
  f = [i \in 0..n |-> IF i = 0 THEN start ELSE f[i - 1] \o R[i]]

Sums(S, n, R) ==
  S \in [0..n -> Nat] /\ S[0] = 0 /\ \A i \in 1..n : S[i] = S[i - 1] + Len(R[i])

KeepsAll(b, n, start, S, R) ==
  /\ b \in Seq(Nat) /\ Len(b) = Len(start) + S[n]
  /\ \A j \in 1..Len(start) : b[j] = start[j]
  /\ \A k \in 1..n : \A j \in 1..Len(R[k]) : b[Len(start) + S[k - 1] + j] = R[k][j]

LEMMA AppendingExists ==
  ASSUME NEW n \in Nat, NEW R \in [1..n -> Seq(Nat)], NEW start \in Seq(Nat)
  PROVE  \E f : AppendsTo(f, n, start, R)
<1> DEFINE V == Seq(Nat)
           step == [p \in V \X (1..n) |-> p[1] \o R[p[2]]]
<1>1. ASSUME NEW x \in V, NEW i \in 1..n PROVE x \o R[i] \in V
  OBVIOUS
<1>2. step \in [V \X (1..n) -> V]
  BY <1>1
<1>3. ASSUME NEW x \in V, NEW i \in 1..n PROVE step[<<x, i>>] = x \o R[i]
  OBVIOUS
<1>4. start \in V
  OBVIOUS
<1> HIDE DEF step, V
<1>5. PICK g : Follows(g, n, V, start, step)
  BY <1>2, <1>4, Recursion, Zenon
<1>6. ASSUME NEW i \in 0..n
      PROVE  g[i] = IF i = 0 THEN start ELSE g[i - 1] \o R[i]
  <2>1. CASE i = 0
    BY <1>5, <2>1 DEF Follows
  <2>2. CASE i # 0
    <3>1. i \in 1..n /\ i - 1 \in 0..n
      BY <2>2
    <3>2. g[i - 1] \in V /\ g[i] = step[<<g[i - 1], i>>]
      BY <1>5, <3>1 DEF Follows
    <3>3. QED BY <1>3, <2>2, <3>1, <3>2
  <2>3. QED BY <2>1, <2>2
<1>7. g = [i \in 0..n |-> IF i = 0 THEN start ELSE g[i - 1] \o R[i]]
  BY <1>5, <1>6 DEF Follows
<1>8. QED BY <1>7 DEF AppendsTo

LEMMA Appending ==
  ASSUME NEW n \in Nat, NEW R \in [1..n -> Seq(Nat)], NEW start \in Seq(Nat),
         NEW f, AppendsTo(f, n, start, R), NEW S, Sums(S, n, R)
  PROVE  KeepsAll(f[n], n, start, S, R)
<1> DEFINE m == Len(start)
           Holds(i) == /\ f[i] \in Seq(Nat) /\ Len(f[i]) = m + S[i]
                       /\ \A j \in 1..m : f[i][j] = start[j]
                       /\ \A k \in 1..i : /\ S[k - 1] + Len(R[k]) <= S[i]
                                           /\ \A j \in 1..Len(R[k]) : f[i][m + S[k - 1] + j] = R[k][j]
           Good == {i \in 0..n : Holds(i)}
<1>1. m \in Nat /\ 0 \in 0..n /\ n \in 0..n
  OBVIOUS
<1> USE DEF Sums
<1>2. f[0] = start
  BY <1>1 DEF AppendsTo
<1>3. ASSUME NEW i \in 1..n PROVE f[i] = f[i - 1] \o R[i]
  <2>1. i \in 0..n /\ i # 0
    OBVIOUS
  <2>2. QED BY <2>1 DEF AppendsTo
<1>4. ASSUME NEW i \in 1..n
      PROVE  /\ R[i] \in Seq(Nat) /\ Len(R[i]) \in Nat /\ i - 1 \in 0..n /\ i \in 0..n
             /\ S[i - 1] \in Nat /\ S[i] \in Nat
  <2>1. R[i] \in Seq(Nat) /\ i - 1 \in 0..n /\ i \in 0..n
    OBVIOUS
  <2>2. QED BY <2>1
<1>5. 0 \in Good
  BY <1>1, <1>2
<1>6. ASSUME NEW i \in (0 + 1)..n, i - 1 \in Good PROVE i \in Good
  <2>1. i \in 1..n
    OBVIOUS
  <2> DEFINE x == f[i - 1]
             y == R[i]
             w == f[i]
             l == Len(x)
  <2>2. x \in Seq(Nat) /\ l = m + S[i - 1] /\ y \in Seq(Nat) /\ w = x \o y
    BY <1>3, <1>4, <1>6, <2>1
  <2>3. S[i] = S[i - 1] + Len(y) /\ S[i] \in Nat /\ S[i - 1] \in Nat /\ Len(y) \in Nat
    BY <1>4, <2>1
  <2> DEFINE v == x \o y
  <2>4. /\ v \in Seq(Nat) /\ Len(v) = l + Len(y)
        /\ \A j \in 1..l : v[j] = x[j]
        /\ \A j \in 1..Len(y) : v[l + j] = y[j]
    BY <2>2, Appended, Zenon
  <2>5. w = v
    BY <2>2
  <2>6. /\ \A j \in 1..m : x[j] = start[j]
        /\ \A k \in 1..(i - 1) : /\ S[k - 1] + Len(R[k]) <= S[i - 1]
                                  /\ \A j \in 1..Len(R[k]) : x[m + S[k - 1] + j] = R[k][j]
    BY <1>6
  <2> HIDE DEF x, y, w, l, v, m
  <2>7. Len(w) = m + S[i] /\ w \in Seq(Nat)
    <3>1. l = m + S[i - 1] /\ Len(v) = l + Len(y) /\ v \in Seq(Nat)
      BY <2>2, <2>4
    <3> DEFINE c == Len(y)
    <3> HIDE DEF c
    <3>2. c \in Nat /\ S[i] = S[i - 1] + c /\ Len(v) = l + c
      BY <2>3, <3>1 DEF c
    <3>3. Len(v) = m + S[i]
      BY <1>1, <2>3, <3>1, <3>2
    <3>4. QED BY <2>5, <3>1, <3>3
  <2>8. ASSUME NEW j \in 1..m PROVE w[j] = start[j]
    <3>1. j \in 1..l
      BY <1>1, <2>2, <2>3
    <3>2. QED BY <2>4, <2>5, <2>6, <3>1
  <2>9. ASSUME NEW k \in 1..i
        PROVE  /\ S[k - 1] + Len(R[k]) <= S[i]
               /\ \A j \in 1..Len(R[k]) : w[m + S[k - 1] + j] = R[k][j]
    <3>1. CASE k = i
      BY <1>1, <2>2, <2>3, <2>4, <2>5, <3>1 DEF y
    <3>2. CASE k # i
      <4>1. k \in 1..(i - 1) /\ k \in 1..n
        BY <2>1, <3>2
      <4>2. S[k - 1] \in Nat /\ Len(R[k]) \in Nat /\ S[k - 1] + Len(R[k]) <= S[i - 1]
        BY <1>4, <2>6, <4>1
      <4>3. ASSUME NEW j \in 1..Len(R[k]) PROVE w[m + S[k - 1] + j] = R[k][j]
        <5>1. m + S[k - 1] + j \in 1..l
          <6> DEFINE c == Len(R[k])
                     d == S[k - 1]
                     e == S[i - 1]
          <6>1. c \in Nat /\ d \in Nat /\ e \in Nat /\ d + c <= e /\ l = m + e /\ j \in 1..c
            BY <2>2, <2>3, <4>2
          <6> HIDE DEF c, d, e
          <6>2. m + d + j \in 1..l
            BY <1>1, <6>1
          <6>3. QED BY <6>2 DEF d
        <5>2. w[m + S[k - 1] + j] = x[m + S[k - 1] + j]
          BY <2>4, <2>5, <5>1
        <5>3. QED BY <2>6, <4>1, <5>2
      <4>4. S[k - 1] + Len(R[k]) <= S[i]
        <5> DEFINE d == S[k - 1] + Len(R[k])
        <5>1. d \in Nat /\ d <= S[i - 1]
          BY <4>2
        <5> HIDE DEF d
        <5>2. d <= S[i]
          BY <2>3, <5>1
        <5>3. QED BY <5>2 DEF d
      <4>5. QED BY <4>3, <4>4
    <3>3. QED BY <3>1, <3>2
  <2>10. i \in 0..n
    BY <1>4, <2>1
  <2>11. QED BY <2>7, <2>8, <2>9, <2>10 DEF w, m
<1>7. n \in Good
  <2> HIDE DEF Good
  <2>1. QED BY <1>1, <1>5, <1>6, Upwards
<1>8. QED BY <1>7 DEF KeepsAll

\* The file c begins with the message of these texts.
HoldsMessage(c, ts) ==
  /\ c \in Seq(Nat) /\ Len(c) >= 2 + Sizes(ts)[Len(ts)]
  /\ EndOf(c) = 2 + Sizes(ts)[Len(ts)]
  /\ \A k \in 1..Len(ts) :
       HoldsRecord(c, 3 + Sizes(ts)[k - 1], ts[k], Marks(k, Len(ts)))

LEMMA MessageIsWritten ==
  ASSUME NEW ts \in Seq(Seq(Nat)), Fits(ts), ts # <<>>
  PROVE  LET b == BytesUpTo(MessageOfTexts(ts))[Len(ts)]
         IN  /\ message_write(MessageOfTexts(ts)) = {b}
             /\ HoldsMessage(b, ts) /\ Len(b) = 2 + Sizes(ts)[Len(ts)]
<1> DEFINE n == Len(ts)
           msg == MessageOfTexts(ts)
           S == Sizes(ts)
           f == BytesUpTo(msg)
           size == S[n]
           start == <<size \div 256, size % 256>>
           R == [i \in 1..n |-> record_text_write(Placed(msg[i], i, n))]
           b == f[n]
<1>1. n \in Nat /\ n # 0 /\ n \in 0..n
  BY EmptySeq
<1>2. /\ Len(msg) = n /\ ContentLength(msg) = size
      /\ \A i \in 1..n : msg[i] = TextRecord(ts[i])
  BY LengthIsSize DEF MessageOfTexts
<1>3. S \in [0..n -> Nat] /\ S[0] = 0
  BY SizesDef, Zenon
<1>4. size \in Nat /\ size < 65536
  <2>1. size < 65536
    BY DEF Fits
  <2> HIDE DEF S, n
  <2>2. size \in Nat
    BY <1>1, <1>3
  <2>3. QED BY <2>1, <2>2
<1>5. /\ start \in Seq(Nat) /\ Len(start) = 2
      /\ start[1] = size \div 256 /\ start[2] = size % 256
  <2>1. size \div 256 \in Nat /\ size % 256 \in Nat
    <3> HIDE DEF size
    <3>1. QED BY <1>4, DivMod256
  <2>2. QED BY <2>1
<1>6. ASSUME NEW i \in 1..n
      PROVE  /\ R[i] \in Seq(Nat) /\ S[i] = S[i - 1] + Len(R[i])
             /\ Len(R[i]) = RecordSize(ts[i]) /\ ts[i] \in Seq(Nat)
             /\ S[i - 1] \in Nat
             /\ HoldsRecord(R[i], 1, ts[i], Marks(i, n))
  <2>1. /\ ts[i] \in Seq(Nat) /\ Len(ts[i]) + 3 < 65536 /\ S[i - 1] \in Nat
        /\ S[i] = S[i - 1] + RecordSize(ts[i])
    BY EachFits
  <2>2. R[i] = record_text_write(Placed(TextRecord(ts[i]), i, n))
    BY <1>2
  <2> HIDE DEF R, S
  <2>3. /\ R[i] \in Seq(Nat) /\ Len(R[i]) = RecordSize(ts[i])
        /\ HoldsRecord(R[i], 1, ts[i], Marks(i, n))
    BY <2>1, <2>2, RecordIsWritten
  <2>4. QED BY <2>1, <2>3
<1>7. R \in [1..n -> Seq(Nat)]
  BY <1>6
<1>8. \A i \in 1..n : record_text_write(Placed(msg[i], i, n)) = R[i]
  OBVIOUS
<1> HIDE DEF R, S, size, start, f, msg, n
<1>9. f = [i \in 0..n |-> IF i = 0 THEN start ELSE f[i - 1] \o R[i]]
  <2>1. PICK g : g = [i \in 0..n |-> IF i = 0 THEN start ELSE g[i - 1] \o R[i]]
    <3>1. n \in Nat /\ start \in Seq(Nat)
      BY <1>1, <1>5
    <3>2. \E g : AppendsTo(g, n, start, R)
      BY <1>7, <3>1, AppendingExists, Zenon
    <3>3. QED BY <3>2, Zenon DEF AppendsTo
  <2>2. ASSUME NEW h
        PROVE  [i \in 0..n |-> IF i = 0 THEN start ELSE h[i - 1] \o R[i]]
               = [i \in 0..n |-> IF i = 0 THEN start
                                  ELSE h[i - 1] \o record_text_write(Placed(msg[i], i, n))]
    BY <1>1, <1>8
  <2>3. g = [i \in 0..n |-> IF i = 0 THEN start
                            ELSE g[i - 1] \o record_text_write(Placed(msg[i], i, n))]
    BY <2>1, <2>2
  <2>4. f = [i \in 0..n |-> IF i = 0 THEN start
                            ELSE f[i - 1] \o record_text_write(Placed(msg[i], i, n))]
    BY <1>2, <2>3 DEF f, BytesUpTo, start
  <2>5. QED BY <2>2, <2>4
<1>10. /\ b \in Seq(Nat) /\ Len(b) = Len(start) + S[n]
       /\ \A j \in 1..Len(start) : b[j] = start[j]
       /\ \A k \in 1..n : \A j \in 1..Len(R[k]) : b[Len(start) + S[k - 1] + j] = R[k][j]
  <2>1. n \in Nat /\ start \in Seq(Nat)
    BY <1>1, <1>5
  <2>2. Sums(S, n, R)
    BY <1>3, <1>6 DEF Sums
  <2>3. AppendsTo(f, n, start, R)
    BY <1>9, Zenon DEF AppendsTo
  <2>4. KeepsAll(b, n, start, S, R)
    BY <1>7, <2>1, <2>2, <2>3, Appending, Zenon
  <2>5. QED BY <2>4, Zenon DEF KeepsAll
<1> HIDE DEF b
<1>11. Len(b) = 2 + S[n] /\ b[1] = size \div 256 /\ b[2] = size % 256
  BY <1>5, <1>10
<1>12. EndOf(b) = 2 + S[n]
  <2> DEFINE q == size \div 256
             r == size % 256
  <2>1. q \in Nat /\ r \in Nat /\ 256 * q + r = size
    BY <1>4, DivMod256
  <2> HIDE DEF q, r
  <2>2. 2 + q * 256 + r = 2 + size
    BY <1>4, <2>1
  <2>3. QED BY <1>11, <2>2 DEF EndOf, q, r, size
<1>13. ASSUME NEW k \in 1..n
       PROVE  HoldsRecord(b, 3 + S[k - 1], ts[k], Marks(k, n))
  <2> DEFINE q == 3 + S[k - 1]
             t == ts[k]
             c == R[k]
             r == RecordSize(t)
  <2>1. /\ t \in Seq(Nat) /\ HoldsRecord(c, 1, t, Marks(k, n)) /\ Len(c) = r
        /\ S[k - 1] \in Nat /\ r \in Nat
    <3>1. t \in Seq(Nat)
      BY <1>6
    <3>2. QED BY <1>6, <3>1, RecordSizeType
  <2>2. \A j \in 1..Len(c) : b[2 + S[k - 1] + j] = c[j]
    BY <1>5, <1>10
  <2>3. q \in Nat /\ 1 \in Nat
    BY <2>1
  <2>4. ASSUME NEW j \in 0..(r - 1) PROVE b[q + j] = c[1 + j]
    <3> HIDE DEF c, r
    <3>1. 1 + j \in 1..r
      BY <2>1
    <3> DEFINE d == S[k - 1]
    <3> HIDE DEF d
    <3>2. d \in Nat /\ q = 3 + d
      BY <2>1 DEF d
    <3> HIDE DEF q
    <3>3. 2 + d + (1 + j) = q + j
      BY <3>2
    <3>4. b[2 + d + (1 + j)] = c[1 + j]
      BY <2>1, <2>2, <3>1 DEF d
    <3>5. QED BY <3>3, <3>4
  <2> HIDE DEF q, c, t
  <2>5. HoldsRecord(b, q, t, Marks(k, n))
    BY <2>1, <2>3, <2>4, RecordIsMoved
  <2>6. QED BY <2>5 DEF q, t
<1>14. message_write(msg) = {b}
  <2>1. msg # <<>>
    BY <1>1, <1>2
  <2>2. QED BY <1>2, <2>1 DEF message_write, b, f
<1>15. Len(b) >= 2 + S[n]
  BY <1>4, <1>11 DEF size
<1>16. QED BY <1>10, <1>11, <1>12, <1>13, <1>14, <1>15 DEF HoldsMessage, b, f, msg, n, S

LEMMA MessageIsMoved ==
  ASSUME NEW ts \in Seq(Seq(Nat)), Fits(ts), NEW b, HoldsMessage(b, ts),
         NEW c \in Seq(Nat), Len(c) >= 2 + Sizes(ts)[Len(ts)],
         \A j \in 1..(2 + Sizes(ts)[Len(ts)]) : c[j] = b[j]
  PROVE  HoldsMessage(c, ts)
<1> DEFINE n == Len(ts)
           S == Sizes(ts)
           size == S[n]
<1>1. n \in Nat /\ S \in [0..n -> Nat]
  <2>1. S \in [0..n -> Nat]
    BY SizesDef, Zenon
  <2>2. QED BY <2>1
<1>2. /\ c \in Seq(Nat) /\ Len(c) >= 2 + size
      /\ \A j \in 1..(2 + size) : c[j] = b[j]
  OBVIOUS
<1>3. /\ EndOf(b) = 2 + size
      /\ \A k \in 1..n : HoldsRecord(b, 3 + S[k - 1], ts[k], Marks(k, n))
  BY DEF HoldsMessage
<1>4. ASSUME NEW k \in 1..n
      PROVE  /\ ts[k] \in Seq(Nat) /\ S[k - 1] \in Nat /\ S[k] \in Nat
             /\ RecordSize(ts[k]) \in Nat /\ S[k] = S[k - 1] + RecordSize(ts[k])
             /\ S[k] <= size
  BY EachFits
<1> HIDE DEF size, S, n
<1>5. size \in Nat
  BY <1>1 DEF size
<1>6. EndOf(c) = 2 + size
  BY <1>2, <1>3, <1>5 DEF EndOf
<1>7. ASSUME NEW k \in 1..n
      PROVE  HoldsRecord(c, 3 + S[k - 1], ts[k], Marks(k, n))
  <2> DEFINE q == 3 + S[k - 1]
             t == ts[k]
             r == RecordSize(t)
  <2>1. /\ t \in Seq(Nat) /\ q \in Nat /\ q >= 3 /\ r \in Nat /\ q + r = 3 + S[k]
        /\ HoldsRecord(b, q, t, Marks(k, n))
    BY <1>3, <1>4
  <2> HIDE DEF q, t, r
  <2>2. ASSUME NEW j \in 0..(r - 1) PROVE c[q + j] = b[q + j]
    <3>1. q + j \in 1..(2 + size)
      BY <1>4, <1>5, <2>1
    <3>2. QED BY <1>2, <3>1
  <2>3. HoldsRecord(c, q, t, Marks(k, n))
    BY <2>1, <2>2, RecordIsMoved DEF r
  <2>4. QED BY <2>3 DEF q, t
<1>8. QED BY <1>2, <1>6, <1>7 DEF HoldsMessage, size, S, n

-----------------------------------------------------------------------------
(* What the reader makes of the records is defined from the last one back. *)

Leads(g, lo, e, V, stop, base, next, step) ==
  /\ g \in [lo..e -> V]
  /\ \A i \in lo..e : g[i] = IF i \in stop THEN base[i] ELSE step[<<g[next[i]], i>>]

LEMMA BackwardRecursion ==
  ASSUME NEW lo \in Nat, NEW e \in Nat, lo <= e, NEW V, NEW stop,
         NEW base \in [lo..e -> V], NEW step \in [V \X (lo..e) -> V], NEW next,
         \A i \in lo..e : i \in stop \/ next[i] \in (i + 1)..e
  PROVE  \E g : Leads(g, lo, e, V, stop, base, next, step)
<1> DEFINE From(g, a) == Leads(g, a, e, V, stop, base, next, step)
           Good == {d \in 0..(e - lo) : \E g : From(g, e - d)}
           value(g, a) == IF a \in stop THEN base[a] ELSE step[<<g[next[a]], a>>]
<1>1. \A i \in lo..e : i \in stop \/ next[i] \in (i + 1)..e
  OBVIOUS
<1>2. 0 \in Good
  <2> DEFINE h == [i \in e..e |-> base[i]]
  <2>1. e \in lo..e /\ e \in stop /\ e - 0 = e
    BY <1>1
  <2>2. h \in [e..e -> V] /\ \A i \in e..e : h[i] = base[i] /\ i \in stop
    BY <2>1
  <2> HIDE DEF h
  <2>3. From(h, e)
    BY <2>2 DEF Leads
  <2>4. QED BY <2>1, <2>3
<1>3. ASSUME NEW d \in (0 + 1)..(e - lo), d - 1 \in Good PROVE d \in Good
  <2> DEFINE a == e - d
  <2>1. a \in lo..e /\ a \in Nat /\ a + 1 \in lo..e /\ e - (d - 1) = a + 1 /\ d \in 0..(e - lo)
    OBVIOUS
  <2>2. PICK g : From(g, a + 1)
    BY <1>3, <2>1
  <2> HIDE DEF a
  <2> DEFINE h == [i \in a..e |-> IF i = a THEN value(g, a) ELSE g[i]]
  <2>3. g \in [(a + 1)..e -> V] /\ \A i \in (a + 1)..e : g[i] = value(g, i)
    BY <2>2 DEF Leads
  <2>4. value(g, a) \in V
    <3>1. CASE a \in stop
      BY <2>1, <3>1
    <3>2. CASE a \notin stop
      <4>1. g[next[a]] \in V
        BY <1>1, <2>1, <2>3, <3>2
      <4>2. step[<<g[next[a]], a>>] \in V
        BY <2>1, <4>1
      <4>3. QED BY <3>2, <4>2
    <3>3. QED BY <3>1, <3>2
  <2>5. \A i \in a..e : i = a \/ i \in (a + 1)..e
    BY <2>1
  <2>6. h \in [a..e -> V]
    BY <2>3, <2>4, <2>5
  <2>7. h[a] = value(g, a) /\ \A i \in (a + 1)..e : h[i] = g[i]
    BY <2>1
  <2> HIDE DEF h
  <2>8. ASSUME NEW i \in a..e PROVE h[i] = value(h, i)
    <3>1. h[i] = value(g, i)
      BY <2>3, <2>5, <2>7
    <3>2. ASSUME i \notin stop PROVE h[next[i]] = g[next[i]]
      <4>1. next[i] \in (i + 1)..e
        BY <1>1, <2>1, <3>2
      <4>2. next[i] \in (a + 1)..e
        BY <2>1, <4>1
      <4>3. QED BY <2>7, <4>2
    <3>3. QED BY <3>1, <3>2
  <2>9. From(h, a)
    BY <2>6, <2>8 DEF Leads
  <2>10. QED BY <2>1, <2>9 DEF a
<1>4. e - lo \in Good
  <2> HIDE DEF Good
  <2>1. e - lo \in Nat /\ 0 \in 0..(e - lo) /\ e - lo \in 0..(e - lo)
    OBVIOUS
  <2>2. QED BY <1>2, <1>3, <2>1, Upwards
<1>5. e - (e - lo) = lo
  OBVIOUS
<1>6. QED BY <1>4, <1>5

LEMMA ReadRecord ==
  ASSUME NEW b \in Seq(Nat), EndOf(b) \in Nat, EndOf(b) <= Len(b),
         NEW i \in Nat, i >= 3, IsTextRecord(b, i)
  PROVE  /\ NextAt(b, i) \in Nat /\ NextAt(b, i) > i /\ NextAt(b, i) <= EndOf(b) + 1
         /\ PayloadAt(b, i) \in Nat /\ PayloadAt(b, i) < NextAt(b, i)
         /\ PayloadAt(b, i) >= i + 4 /\ b[PayloadAt(b, i)] \in Nat
         /\ TextAt(b, i) \in Seq(Nat)
<1> DEFINE h == load_header(b, i)
           q == PayloadAt(b, i)
           x == NextAt(b, i)
           E == EndOf(b)
           pl == h.payloadLength
<1>1. E \in Nat /\ E <= Len(b) /\ Len(b) \in Nat
  OBVIOUS
<1>2. i + 2 <= E /\ ((b[i] \div SR) % 2 = 0 => i + 5 <= E) /\ pl >= 1 /\ x <= E + 1
  BY DEF IsTextRecord
<1> HIDE DEF E
<1>3. b[i] \in Nat
  BY <1>1, <1>2
<1>4. (SR \in h.flags) <=> (b[i] \div 16) % 2 = 1
  BY DEF load_header, SR, MB, ME, CF, IL
<1>5. (b[i] \div 16) % 2 \in {0, 1}
  BY <1>3
<1>6. pl \in Nat
  <2>1. CASE (b[i] \div 16) % 2 = 1
    <3>1. b[i + 2] \in Nat
      BY <1>1, <1>2
    <3>2. QED BY <2>1, <3>1 DEF load_header, SR
  <2>2. CASE (b[i] \div 16) % 2 = 0
    <3>1. i + 5 <= E
      BY <1>2, <2>2 DEF SR
    <3>2. b[i + 2] \in Nat /\ b[i + 3] \in Nat /\ b[i + 4] \in Nat /\ b[i + 5] \in Nat
      BY <1>1, <3>1
    <3>3. pl = ((b[i + 2] * 256 + b[i + 3]) * 256 + b[i + 4]) * 256 + b[i + 5]
      BY <2>2 DEF load_header, SR
    <3>4. \A x1, x2 \in Nat : x1 * 256 + x2 \in Nat
      OBVIOUS
    <3>5. b[i + 2] * 256 + b[i + 3] \in Nat
      BY <3>2, <3>4
    <3>6. (b[i + 2] * 256 + b[i + 3]) * 256 + b[i + 4] \in Nat
      BY <3>2, <3>4, <3>5
    <3> DEFINE y == (b[i + 2] * 256 + b[i + 3]) * 256 + b[i + 4]
    <3>7. y \in Nat /\ pl = y * 256 + b[i + 5]
      BY <3>3, <3>6
    <3> HIDE DEF y
    <3>8. QED BY <3>2, <3>7
  <2>3. QED BY <1>5, <2>1, <2>2
<1> HIDE DEF pl
<1>7. q \in Nat /\ q >= i + 4 /\ x = q + pl
  BY DEF PayloadAt, NextAt, pl
<1> HIDE DEF h, q, x
<1>8. x \in Nat /\ x > i /\ q < x
  BY <1>2, <1>6, <1>7
<1>9. b[q] \in Nat
  BY <1>1, <1>2, <1>7, <1>8
<1>10. TextAt(b, i) \in Seq(Nat)
  <2> DEFINE lo == q + 1 + b[q]
             hi == x - 1
  <2>1. TextAt(b, i) = SubSeq(b, lo, hi)
    BY DEF TextAt, q, x
  <2>2. lo \in Nat /\ lo >= 1 /\ hi \in Nat /\ hi <= Len(b)
    <3> DEFINE d == b[q]
    <3>1. d \in Nat /\ lo = q + 1 + d
      BY <1>9
    <3> HIDE DEF d, lo
    <3>2. lo \in Nat /\ lo >= 1
      BY <1>7, <3>1
    <3>3. hi \in Nat /\ hi <= Len(b)
      BY <1>1, <1>2, <1>8
    <3>4. QED BY <3>2, <3>3
  <2> HIDE DEF lo, hi
  <2>3. SubSeq(b, lo, hi) \in Seq(Nat)
    BY <2>2
  <2>4. QED BY <2>1, <2>3
<1>11. QED BY <1>2, <1>7, <1>8, <1>9, <1>10 DEF q, x, E

\* What the definition of TextsFrom says, of a file as long as its length says.
LEMMA TextsFromDef ==
  ASSUME NEW b \in Seq(Nat), EndOf(b) \in Nat, EndOf(b) <= Len(b), 3 <= EndOf(b)
  PROVE  \A i \in 3..(EndOf(b) + 1) :
           TextsFrom(b)[i] = TextsWith(b, i, TextsFrom(b)[NextAt(b, i)])
<1> DEFINE E == EndOf(b)
           e == E + 1
           V == Seq(Seq(Nat))
           next == [i \in 3..e |-> NextAt(b, i)]
           text == [i \in 3..e |-> IF IsTextRecord(b, i) THEN TextAt(b, i) ELSE <<>>]
           last == {i \in 3..e : ME \in load_header(b, i).flags}
           good == {i \in 3..e : IsTextRecord(b, i)}
           stop == {i \in 3..e : i \notin good \/ i \in last \/ next[i] > E}
           base == [i \in 3..e |-> IF i \in good /\ i \in last /\ next[i] = e
                                  THEN <<text[i]>> ELSE <<>>]
           step == [p \in V \X (3..e) |-> IF p[1] = <<>> THEN <<>> ELSE <<text[p[2]]>> \o p[1]]
<1>1. E \in Nat /\ 3 <= E /\ e \in Nat /\ 3 <= e
  OBVIOUS
<1>2. ASSUME NEW i \in 3..e, i \in good
      PROVE  next[i] \in Nat /\ next[i] > i /\ text[i] \in Seq(Nat)
  <2>1. i \in Nat /\ i >= 3 /\ IsTextRecord(b, i)
    BY <1>1, <1>2
  <2>2. NextAt(b, i) \in Nat /\ NextAt(b, i) > i /\ TextAt(b, i) \in Seq(Nat)
    BY <2>1, ReadRecord
  <2>3. QED BY <2>1, <2>2
<1>3. \A i \in 3..e : text[i] \in Seq(Nat)
  BY <1>2
<1>4. ASSUME NEW i \in 3..e
      PROVE  /\ IsTextRecord(b, i) <=> i \in good
             /\ (ME \in load_header(b, i).flags) <=> i \in last
             /\ NextAt(b, i) = next[i]
             /\ i \in good => TextAt(b, i) = text[i]
  OBVIOUS
<1> HIDE DEF next, text, last, good
<1>5. base \in [3..e -> V]
  BY <1>3
<1>6. step \in [V \X (3..e) -> V]
  BY <1>3
<1>7. \A i \in 3..e : i \in stop \/ next[i] \in (i + 1)..e
  BY <1>1, <1>2
<1>8. \A x \in V : \A i \in 3..e :
        step[<<x, i>>] = IF x = <<>> THEN <<>> ELSE <<text[i]>> \o x
  OBVIOUS
<1> HIDE DEF step, base, stop, V, e
<1>9. PICK g : Leads(g, 3, e, V, stop, base, next, step)
  <2>1. 3 \in Nat
    OBVIOUS
  <2>2. QED BY <1>1, <1>5, <1>6, <1>7, <2>1, BackwardRecursion
<1> DEFINE value(f, i) ==
             IF i \notin good THEN <<>>
             ELSE IF i \in last THEN IF next[i] = e THEN <<text[i]>> ELSE <<>>
             ELSE IF next[i] > E \/ f[next[i]] = <<>> THEN <<>>
             ELSE <<text[i]>> \o f[next[i]]
<1>10. ASSUME NEW i \in 3..e PROVE g[i] = value(g, i)
  <2>1. CASE i \in stop
    <3>1. g[i] = base[i]
      BY <1>9, <2>1 DEF Leads
    <3>2. QED BY <2>1, <3>1 DEF stop, base
  <2>2. CASE i \notin stop
    <3>1. g[i] = step[<<g[next[i]], i>>] /\ next[i] \in 3..e
      BY <1>1, <1>7, <1>9, <2>2 DEF Leads
    <3>2. g[next[i]] \in V
      BY <1>9, <3>1 DEF Leads
    <3>3. i \in good /\ i \notin last /\ ~(next[i] > E)
      BY <2>2 DEF stop
    <3>4. QED BY <1>8, <3>1, <3>2, <3>3
  <2>3. QED BY <2>1, <2>2
<1>11. ASSUME NEW h, NEW i \in 3..e PROVE TextsWith(b, i, h[NextAt(b, i)]) = value(h, i)
  <2> DEFINE x == NextAt(b, i)
             t == TextAt(b, i)
             marked == load_header(b, i).flags
  <2>1. /\ IsTextRecord(b, i) <=> i \in good
        /\ (ME \in marked) <=> i \in last
        /\ x = next[i]
        /\ i \in good => t = text[i]
    BY <1>4, Zenon
  <2>2. TextsWith(b, i, h[x]) =
          IF ~IsTextRecord(b, i) THEN <<>>
          ELSE IF ME \in marked THEN IF x = e THEN <<t>> ELSE <<>>
          ELSE IF x > E \/ h[x] = <<>> THEN <<>>
          ELSE <<t>> \o h[x]
    BY DEF TextsWith, Unreadable, e
  <2> HIDE DEF x, t, marked
  <2> DEFINE u == h[x]
             v == h[next[i]]
  <2>3. u = v
    BY <2>1
  <2>4. value(h, i) = IF i \notin good THEN <<>>
                      ELSE IF i \in last THEN IF next[i] = e THEN <<text[i]>> ELSE <<>>
                      ELSE IF next[i] > E \/ v = <<>> THEN <<>>
                      ELSE <<text[i]>> \o v
    OBVIOUS
  <2> HIDE DEF u, v, value
  <2>5. CASE i \notin good
    BY <2>1, <2>2, <2>4, <2>5 DEF x
  <2>6. CASE i \in good
    BY <2>1, <2>2, <2>3, <2>4, <2>6 DEF x, u
  <2>7. QED BY <2>5, <2>6
<1>12. g = [i \in 3..e |-> TextsWith(b, i, g[NextAt(b, i)])]
  BY <1>9, <1>10, <1>11 DEF Leads
<1> DEFINE f == TextsFrom(b)
<1>13. f = [i \in 3..e |-> TextsWith(b, i, f[NextAt(b, i)])]
  BY <1>12 DEF TextsFrom, e, E
<1> HIDE DEF f
<1>14. ASSUME NEW i \in 3..e PROVE f[i] = TextsWith(b, i, f[NextAt(b, i)])
  BY <1>13
<1>15. QED BY <1>14 DEF f, e, E

\* The texts of a message from the k-th on.
LEMMA TextsOnwards ==
  ASSUME NEW ts \in Seq(Seq(Nat)), NEW k \in 1..Len(ts)
  PROVE  /\ SubSeq(ts, 1, Len(ts)) = ts
         /\ SubSeq(ts, k, Len(ts)) # <<>>
         /\ k = Len(ts) => SubSeq(ts, k, Len(ts)) = <<ts[k]>>
         /\ SubSeq(ts, k, Len(ts)) = <<ts[k]>> \o SubSeq(ts, k + 1, Len(ts))
<1> DEFINE n == Len(ts)
           x == SubSeq(ts, k, n)
<1>1. n \in Nat /\ k \in 1..n /\ n \in k..n
  OBVIOUS
<1>2. SubSeq(ts, 1, n) = ts
  BY SubSeqFull
<1>3. \A i \in k..n : ts[i] \in Seq(Nat)
  BY <1>1
<1>4. x \in Seq(Seq(Nat)) /\ Len(x) = n - k + 1 /\ \A i \in 1..(n - k + 1) : x[i] = ts[k + i - 1]
  BY <1>1, <1>3, SubSeqProperties
<1>5. SubSeq(ts, k, n) = <<ts[k]>> \o SubSeq(ts, k + 1, n)
  BY <1>1, SubSeqRecursiveFirst, Zenon
<1> HIDE DEF x, n
<1>6. x # <<>>
  BY <1>1, <1>4
<1>7. ASSUME k = n PROVE x = <<ts[k]>>
  <2>1. ts[k] \in Seq(Nat)
    BY <1>1, <1>3
  <2> DEFINE y == <<ts[k]>>
  <2>2. y \in Seq(Seq(Nat)) /\ Len(y) = 1 /\ y[1] = ts[k]
    BY <2>1
  <2> HIDE DEF y
  <2>3. Len(x) = 1 /\ x[1] = ts[k]
    BY <1>1, <1>4, <1>7
  <2>4. x = y
    BY <1>4, <2>2, <2>3, SeqEqual
  <2>5. QED BY <2>4 DEF y
<1>8. QED BY <1>2, <1>5, <1>6, <1>7 DEF x, n

\* A file that begins with a message is read as the texts of the message.
LEMMA MessageIsRead ==
  ASSUME NEW ts \in Seq(Seq(Nat)), Fits(ts), ts # <<>>, NEW c, HoldsMessage(c, ts)
  PROVE  ReadTexts(c) = ts
<1> DEFINE n == Len(ts)
           S == Sizes(ts)
           size == S[n]
           E == EndOf(c)
           f == TextsFrom(c)
           at == [k \in 1..n |-> 3 + S[k - 1]]
<1>1. n \in Nat /\ n # 0 /\ 1 \in 1..n /\ n \in 1..n
  BY EmptySeq
<1>2. S \in [0..n -> Nat] /\ S[0] = 0
  BY SizesDef, Zenon
<1>3. ASSUME NEW k \in 1..n
      PROVE  /\ ts[k] \in Seq(Nat) /\ Len(ts[k]) + 3 < 65536
             /\ S[k - 1] \in Nat /\ S[k] \in Nat
             /\ RecordSize(ts[k]) \in Nat /\ RecordSize(ts[k]) >= 7
             /\ S[k] = S[k - 1] + RecordSize(ts[k]) /\ S[k] <= size
  BY EachFits
<1>4. /\ c \in Seq(Nat) /\ Len(c) >= 2 + size /\ E = 2 + size
      /\ \A k \in 1..n : HoldsRecord(c, 3 + S[k - 1], ts[k], Marks(k, n))
  BY DEF HoldsMessage
<1> HIDE DEF S, n, E
<1>5. size \in Nat /\ size >= 7
  <2>1. /\ S[n - 1] \in Nat /\ S[n] \in Nat /\ RecordSize(ts[n]) \in Nat
        /\ RecordSize(ts[n]) >= 7 /\ S[n] = S[n - 1] + RecordSize(ts[n])
    BY <1>1, <1>3
  <2>2. QED BY <2>1
<1> HIDE DEF size
<1>6. E \in Nat /\ E <= Len(c) /\ 3 <= E
  BY <1>4, <1>5
<1>7. ASSUME NEW k \in 1..n
      PROVE  /\ at[k] = 3 + S[k - 1] /\ at[k] \in 3..(E + 1)
             /\ IsTextRecord(c, at[k]) /\ TextAt(c, at[k]) = ts[k]
             /\ NextAt(c, at[k]) = 3 + S[k]
             /\ ME \in load_header(c, at[k]).flags <=> k = n
  <2> DEFINE p == 3 + S[k - 1]
             t == ts[k]
             r == RecordSize(t)
             m == Marks(k, n)
  <2>1. /\ p \in Nat /\ p >= 3 /\ t \in Seq(Nat) /\ Len(t) + 3 < 65536 /\ r \in Nat
        /\ p + r = 3 + S[k] /\ p + r <= E + 1 /\ p \in 3..(E + 1)
    <3> DEFINE d == S[k - 1]
               u == S[k]
    <3>1. /\ t \in Seq(Nat) /\ Len(t) + 3 < 65536 /\ d \in Nat /\ u \in Nat
          /\ r \in Nat /\ u = d + r /\ u <= size /\ p = 3 + d
      BY <1>3
    <3> HIDE DEF d, u, r, t, p
    <3>2. QED BY <1>4, <1>5, <3>1 DEF u
  <2>2. m \in {0, 64, 128, 192} /\ (m >= 128 <=> k = 1) /\ (m \in {64, 192} <=> k = n)
    BY DEF Marks
  <2>3. p = 3 <=> k = 1
    <3>1. CASE k = 1
      BY <1>2, <3>1
    <3>2. CASE k # 1
      <4>1. k - 1 \in 1..n
        BY <1>1, <3>2
      <4> DEFINE j == k - 1
      <4>2. /\ S[j - 1] \in Nat /\ S[j] \in Nat /\ RecordSize(ts[j]) \in Nat
            /\ RecordSize(ts[j]) >= 7 /\ S[j] = S[j - 1] + RecordSize(ts[j])
        BY <1>3, <4>1
      <4>3. S[k - 1] \in Nat /\ S[k - 1] >= 7
        BY <4>2
      <4>4. QED BY <3>2, <4>3
    <3>3. QED BY <3>1, <3>2
  <2>4. HoldsRecord(c, p, t, m)
    BY <1>4
  <2> HIDE DEF p, t, m
  <2>5. /\ IsTextRecord(c, p) /\ NextAt(c, p) = p + r /\ TextAt(c, p) = t
        /\ (ME \in load_header(c, p).flags) <=> m \in {64, 192}
    <3>1. m \in MarkValues /\ LiesWithin(c, p, t, m)
      BY <1>6, <2>1, <2>2, <2>3 DEF MarkValues, LiesWithin, E
    <3>2. c \in Seq(Nat) /\ p \in Nat /\ t \in Seq(Nat)
      BY <1>4, <2>1
    <3>3. ReadsRecord(c, p, t, m)
      BY <2>4, <3>1, <3>2, RecordIsRead, Zenon
    <3>4. QED BY <3>3 DEF ReadsRecord
  <2>6. at[k] = p
    BY DEF p
  <2>7. QED BY <2>1, <2>2, <2>5, <2>6 DEF p, t
<1>8. \A i \in 3..(E + 1) : f[i] = TextsWith(c, i, f[NextAt(c, i)])
  BY <1>4, <1>6, TextsFromDef DEF E
<1> HIDE DEF f, at
<1> DEFINE Good == {k \in 1..n : f[at[k]] = SubSeq(ts, k, n)}
<1>9. n \in Good
  <2>1. f[at[n]] = TextsWith(c, at[n], f[NextAt(c, at[n])])
    BY <1>1, <1>7, <1>8
  <2>2. NextAt(c, at[n]) = E + 1
    BY <1>1, <1>4, <1>5, <1>7 DEF size
  <2>3. f[at[n]] = <<ts[n]>>
    BY <1>1, <1>7, <2>1, <2>2 DEF TextsWith, E
  <2>4. SubSeq(ts, n, n) = <<ts[n]>>
    BY <1>1, TextsOnwards, Zenon DEF n
  <2>5. QED BY <1>1, <2>3, <2>4
<1>10. ASSUME NEW k \in 1..(n - 1), \A j \in (k + 1)..n : j \in Good PROVE k \in Good
  <2>1. k \in 1..n /\ k + 1 \in 1..n /\ k + 1 \in Good /\ k # n
    BY <1>1, <1>10
  <2>2. f[at[k]] = TextsWith(c, at[k], f[NextAt(c, at[k])])
    BY <1>7, <1>8, <2>1
  <2>3. NextAt(c, at[k]) = at[k + 1] /\ at[k + 1] <= E
    <3>1. NextAt(c, at[k]) = 3 + S[k] /\ at[k + 1] = 3 + S[(k + 1) - 1]
      BY <1>7, <2>1
    <3>2. (k + 1) - 1 = k
      OBVIOUS
    <3>3. S[k] \in Nat /\ S[k + 1] \in Nat /\ S[k + 1] >= S[k] + 7 /\ S[k + 1] <= size
      BY <1>3, <2>1, <3>2
    <3>4. 3 + S[k] <= E
      BY <1>4, <1>5, <3>3
    <3>5. QED BY <3>1, <3>2, <3>4
  <2>4. f[at[k + 1]] = SubSeq(ts, k + 1, n)
    BY <2>1
  <2>5. SubSeq(ts, k + 1, n) # <<>> /\ SubSeq(ts, k, n) = <<ts[k]>> \o SubSeq(ts, k + 1, n)
    BY <2>1, TextsOnwards, Zenon DEF n
  <2> DEFINE rest == SubSeq(ts, k + 1, n)
             p == at[k]
  <2>6. f[p] = TextsWith(c, p, rest)
    BY <2>2, <2>3, <2>4
  <2>7. /\ IsTextRecord(c, p) /\ ME \notin load_header(c, p).flags /\ TextAt(c, p) = ts[k]
        /\ ~(NextAt(c, p) > EndOf(c)) /\ rest # Unreadable
    <3>1. NextAt(c, p) <= E
      BY <2>3
    <3>2. NextAt(c, p) \in Nat
      <4>1. S[k] \in Nat
        BY <1>3, <2>1
      <4>2. QED BY <1>7, <2>1, <4>1
    <3>3. ~(NextAt(c, p) > EndOf(c))
      BY <1>6, <3>1, <3>2 DEF E
    <3>4. QED BY <1>7, <2>1, <2>5, <3>3 DEF Unreadable
  <2> HIDE DEF rest, p
  <2>8. f[p] = <<ts[k]>> \o rest
    BY <2>6, <2>7 DEF TextsWith
  <2>9. QED BY <2>1, <2>5, <2>8 DEF rest, p
<1>11. 1 \in Good
  <2> HIDE DEF Good
  <2>1. 1 \in 0..n /\ n \in Nat
    BY <1>1
  <2>2. QED BY <1>1, <1>9, <1>10, <2>1, Downwards
<1>12. f[3] = SubSeq(ts, 1, n)
  <2>1. at[1] = 3 + S[1 - 1] /\ 1 - 1 = 0
    BY <1>1, <1>7
  <2>2. at[1] = 3
    BY <1>2, <2>1
  <2>3. QED BY <1>11, <2>2
<1>13. SubSeq(ts, 1, n) = ts
  BY <1>1, TextsOnwards, Zenon DEF n
<1>14. QED BY <1>6, <1>12, <1>13 DEF ReadTexts, f, E

\* For any texts that fit: a file whose first bytes are those Message.c writes for
\* them is read back as these texts, whatever follows, and nothing else is written.
THEOREM WrittenTextsAreRead ==
  ASSUME NEW ts \in Seq(Seq(Nat)), ts # <<>>, Fits(ts),
         NEW b \in message_write(MessageOfTexts(ts)),
         NEW c \in Seq(Nat), Len(c) >= Len(b), \A j \in 1..Len(b) : c[j] = b[j]
  PROVE  ReadTexts(c) = ts
<1> DEFINE w == BytesUpTo(MessageOfTexts(ts))[Len(ts)]
<1>1. /\ message_write(MessageOfTexts(ts)) = {w}
      /\ HoldsMessage(w, ts) /\ Len(w) = 2 + Sizes(ts)[Len(ts)]
  BY MessageIsWritten, Zenon
<1> HIDE DEF w
<1>2. b = w
  BY <1>1
<1>3. HoldsMessage(c, ts)
  BY <1>1, <1>2, MessageIsMoved
<1>4. QED BY <1>3, MessageIsRead
-----------------------------------------------------------------------------
(* The other way round: what a file that is read as one text holds.        *)

LEMMA ReadIsTexts ==
  ASSUME NEW b \in Seq(Nat), EndOf(b) \in Nat, EndOf(b) <= Len(b), 3 <= EndOf(b)
  PROVE  \A i \in 3..(EndOf(b) + 1) : TextsFrom(b)[i] \in Seq(Seq(Nat))
<1> DEFINE E == EndOf(b)
           e == E + 1
           V == Seq(Seq(Nat))
           f == TextsFrom(b)
           Good == {i \in 3..e : f[i] \in V}
<1>1. E \in Nat /\ 3 <= E /\ e \in Nat /\ 3 \in 0..e
  OBVIOUS
<1>2. \A i \in 3..e : f[i] = TextsWith(b, i, f[NextAt(b, i)])
  BY TextsFromDef
<1> HIDE DEF f
<1>3. <<>> \in V
  OBVIOUS
<1>4. ASSUME NEW t \in Seq(Nat) PROVE <<t>> \in V /\ \A r \in V : <<t>> \o r \in V
  BY <1>4
<1>5. ASSUME NEW i \in 3..e, \A k \in (i + 1)..e : k \in Good PROVE i \in Good
  <2> DEFINE x == NextAt(b, i)
             t == TextAt(b, i)
             rest == f[x]
  <2>1. CASE ~IsTextRecord(b, i)
    BY <1>2, <1>3, <2>1 DEF TextsWith, Unreadable
  <2>2. CASE IsTextRecord(b, i)
    <3>1. i \in Nat /\ i >= 3
      BY <1>1
    <3>2. x \in Nat /\ x > i /\ t \in Seq(Nat)
      BY <2>2, <3>1, ReadRecord
    <3>3. f[i] \in {<<>>, <<t>>} \/ (~(x > E) /\ f[i] = <<t>> \o rest)
      BY <1>2, <2>2 DEF TextsWith, Unreadable
    <3> HIDE DEF x, t
    <3>4. ~(x > E) => rest \in V
      BY <1>1, <1>5, <3>2
    <3> HIDE DEF rest, V
    <3>5. f[i] \in V
      BY <1>3, <1>4, <3>2, <3>3, <3>4
    <3>6. QED BY <3>5
  <2>3. QED BY <2>1, <2>2
<1>6. \A i \in 3..e : i \in Good
  <2>1. e \in Good
    BY <1>1, <1>5
  <2> HIDE DEF Good, e
  <2>2. \A i \in 3..(e - 1) : (\A k \in (i + 1)..e : k \in Good) => i \in Good
    BY <1>1, <1>5
  <2>3. QED BY <1>1, <2>1, <2>2, Downwards
<1>7. QED BY <1>6 DEF f

LEMMA ReadOneText ==
  ASSUME NEW c \in Seq(Nat), Len(c) >= 2, NEW t, ReadTexts(c) = <<t>>
  PROVE  /\ EndOf(c) \in Nat /\ 3 <= EndOf(c) /\ EndOf(c) <= Len(c)
         /\ IsTextRecord(c, 3) /\ TextAt(c, 3) = t
<1> DEFINE E == EndOf(c)
           f == TextsFrom(c)
           x == NextAt(c, 3)
           u == TextAt(c, 3)
<1>1. E \in Nat
  <2>1. c[1] \in Nat /\ c[2] \in Nat
    OBVIOUS
  <2>2. QED BY <2>1 DEF EndOf
<1>2. <<t>> # Unreadable
  BY DEF Unreadable
<1>3. E <= Len(c) /\ 3 <= E /\ f[3] = <<t>>
  <2>1. ReadTexts(c) = IF E > Len(c) \/ E < 3 THEN Unreadable ELSE f[3]
    BY DEF ReadTexts
  <2>2. Len(c) \in Nat
    OBVIOUS
  <2> HIDE DEF E, f
  <2>3. QED BY <1>1, <1>2, <2>1, <2>2
<1>4. /\ \A i \in 3..(E + 1) : f[i] = TextsWith(c, i, f[NextAt(c, i)])
      /\ \A i \in 3..(E + 1) : f[i] \in Seq(Seq(Nat))
  BY <1>1, <1>3, TextsFromDef, ReadIsTexts
<1> HIDE DEF f
<1>5. f[3] = TextsWith(c, 3, f[x])
  <2>1. 3 \in 3..(E + 1)
    BY <1>1, <1>3
  <2>2. QED BY <1>4, <2>1, Zenon
<1>6. IsTextRecord(c, 3)
  BY <1>2, <1>3, <1>5 DEF TextsWith
<1>7. x \in Nat /\ x > 3 /\ u \in Seq(Nat)
  BY <1>1, <1>3, <1>6, ReadRecord
<1>8. f[3] \in {Unreadable, <<u>>} \/ (~(x > E) /\ f[x] # Unreadable /\ f[3] = <<u>> \o f[x])
  BY <1>5 DEF TextsWith
<1> HIDE DEF x, u, E
<1>9. CASE ~(x > E) /\ f[x] # Unreadable /\ f[3] = <<u>> \o f[x]
  <2> DEFINE r == f[x]
  <2>1. r \in Seq(Seq(Nat)) /\ r # <<>>
    BY <1>1, <1>4, <1>7, <1>9 DEF Unreadable
  <2> HIDE DEF r
  <2>2. Len(<<u>> \o r) >= 2
    BY <1>7, <2>1
  <2>3. <<u>> \o r = <<t>>
    BY <1>3, <1>9 DEF r
  <2>4. QED BY <2>2, <2>3
<1>10. u = t
  BY <1>2, <1>3, <1>8, <1>9
<1>11. QED BY <1>1, <1>3, <1>6, <1>10 DEF E, u
=============================================================================
