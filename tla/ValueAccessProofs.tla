-------------------------- MODULE ValueAccessProofs --------------------------
(***************************************************************************)
(* Proofs about ValueAccess.  What the mower helpers pack they unpack, for *)
(* every value of the fields and lists of every length; two schedules are  *)
(* compared as the mower runs them.  So whatever is set is read as what    *)
(* was meant by it; upload.py's loops count to MAX_TRIES, and when it goes *)
(* on to the upload the device has its data_download_int; an answer is     *)
(* taken if it came encrypted; and what the setter lets through fits the   *)
(* description.                                                            *)
(***************************************************************************)
EXTENDS ValueAccess, FiniteSetTheorems, TLAPS

USE DEF programVars

-----------------------------------------------------------------------------
(* data_download_int, packed and unpacked *)

\* A number is its two bytes.
LEMMA TwoBytes ==
  ASSUME NEW n \in Nat
  PROVE  n \div 256 \in Nat /\ n % 256 \in Nat /\ 256 * (n \div 256) + (n % 256) = n
  OBVIOUS

\* Sequences of the same elements are the same.
LEMMA EqualElements ==
  ASSUME NEW S, NEW s \in Seq(S), NEW t \in Seq(S), Len(s) = Len(t),
         \A i \in 1..Len(s) : s[i] = t[i]
  PROVE  s = t
  OBVIOUS

\* The second half of eight bytes.
LEMMA LastFour ==
  ASSUME NEW S, NEW s \in Seq(S), Len(s) = 8
  PROVE  /\ SubSeq(s, 5, 8) \in Seq(S) /\ Len(SubSeq(s, 5, 8)) = 4
         /\ \A i \in 1..4 : SubSeq(s, 5, 8)[i] = s[4 + i]
  OBVIOUS

\* The elements of two sequences one behind the other.
LEMMA Behind ==
  ASSUME NEW S, NEW h \in Seq(S), NEW t \in Seq(S)
  PROVE  /\ h \o t \in Seq(S) /\ Len(h \o t) = Len(h) + Len(t)
         /\ \A i \in 1..Len(h) : (h \o t)[i] = h[i]
         /\ \A i \in 1..Len(t) : (h \o t)[Len(h) + i] = t[i]
  OBVIOUS

\* Two numbers behind two zeros.
LEMMA FirstFour ==
  ASSUME NEW a \in Nat, NEW b \in Nat
  PROVE  /\ <<0, 0>> \o <<a, b>> \in Seq(Nat) /\ Len(<<0, 0>> \o <<a, b>>) = 4
         /\ (<<0, 0>> \o <<a, b>>)[3] = a /\ (<<0, 0>> \o <<a, b>>)[4] = b
  OBVIOUS

\* A function on 1..n is a sequence of length n.
LEMMA FunctionIsSequence ==
  ASSUME NEW S, NEW n \in Nat, NEW t \in [1..n -> S]
  PROVE  t \in Seq(S) /\ Len(t) = n
  OBVIOUS

\* A device reads of data_download_int what was packed, and nothing else.
LEMMA DownloadRoundTrip ==
  ASSUME NEW f \in Downloads
  PROVE  UnpackDownload(PackDownload(f)) = f /\ Len(PackDownload(f)) = 8
<1>1. PICK n, t : /\ f = [slot_number |-> n, content_tag |-> t]
                  /\ n \in Nat /\ t \in [1..4 -> 0..255]
  BY DEF Downloads, Byte
<1>2. t \in Seq(Nat) /\ Len(t) = 4
  <2>1. PICK S, k : S = Nat /\ k = 4
    OBVIOUS
  <2>2. t \in [1..k -> S] /\ k \in Nat
    BY <1>1, <2>1
  <2>3. t \in Seq(S) /\ Len(t) = k
    BY ONLY <2>2, FunctionIsSequence
  <2> QED
    BY <2>1, <2>3
<1>3. PICK a, b : a = n \div 256 /\ b = n % 256
  OBVIOUS
<1>4. a \in Nat /\ b \in Nat /\ 256 * a + b = n
  BY <1>1, <1>3, TwoBytes
<1>5. PICK h : h = <<0, 0>> \o <<a, b>>
  OBVIOUS
<1>6. h \in Seq(Nat) /\ Len(h) = 4 /\ h[3] = a /\ h[4] = b
  BY <1>4, <1>5, FirstFour
<1>7. PICK s : s = h \o t
  OBVIOUS
<1>8. /\ s \in Seq(Nat) /\ Len(s) = 8 /\ s[3] = a /\ s[4] = b
      /\ \A i \in 1..4 : s[4 + i] = t[i]
  <2>1. /\ s \in Seq(Nat) /\ Len(s) = Len(h) + Len(t)
        /\ \A i \in 1..Len(h) : s[i] = h[i]
        /\ \A i \in 1..Len(t) : s[Len(h) + i] = t[i]
    <3>1. PICK S : S = Nat
      OBVIOUS
    <3>2. h \in Seq(S) /\ t \in Seq(S)
      BY <1>2, <1>6, <3>1
    <3>3. /\ h \o t \in Seq(S) /\ Len(h \o t) = Len(h) + Len(t)
          /\ \A i \in 1..Len(h) : (h \o t)[i] = h[i]
          /\ \A i \in 1..Len(t) : (h \o t)[Len(h) + i] = t[i]
      BY ONLY <3>2, Behind
    <3> QED
      BY <1>7, <3>1, <3>3
  <2> QED
    BY <1>2, <1>6, <2>1
<1>9. SubSeq(s, 5, 8) = t
  BY <1>2, <1>8, LastFour, EqualElements
<1>10. PackDownload(f) = s
  BY <1>1, <1>3, <1>5, <1>7 DEF PackDownload, BigEndian
<1>11. UnpackDownload(s) = [slot_number |-> n, content_tag |-> t]
  BY <1>4, <1>8, <1>9 DEF UnpackDownload
<1> QED
  BY <1>1, <1>8, <1>10, <1>11

-----------------------------------------------------------------------------
(* Other structures: what is packed is read, for every value *)

\* A sequence is a function.
LEMMA SequenceIsFunction ==
  ASSUME NEW S, NEW s \in Seq(S)
  PROVE  s \in [1..Len(s) -> S] /\ Len(s) \in Nat
  OBVIOUS

\* Only the empty one has no elements.
LEMMA EmptySequence ==
  ASSUME NEW S, NEW s \in Seq(S)
  PROVE  Len(s) = 0 <=> s = <<>>
  OBVIOUS

\* Two elements, and others behind them.
LEMMA TwoAndMore ==
  ASSUME NEW S, NEW a \in S, NEW b \in S, NEW t \in Seq(S), NEW s, s = <<a, b>> \o t
  PROVE  /\ s \in Seq(S) /\ Len(s) = 2 + Len(t) /\ s[1] = a /\ s[2] = b
         /\ \A i \in 1..Len(t) : s[i + 2] = t[i]
  OBVIOUS

\* The six bytes of a date.
LEMMA TwoAndFour ==
  ASSUME NEW S, NEW a \in S, NEW b \in S, NEW c \in S, NEW d \in S, NEW e \in S, NEW f \in S,
         NEW s, s = <<a, b>> \o <<c, d, e, f>>
  PROVE  /\ s \in Seq(S) /\ Len(s) = 6
         /\ s[1] = a /\ s[2] = b /\ s[3] = c /\ s[4] = d /\ s[5] = e /\ s[6] = f
  OBVIOUS

\* The bytes of a starting point, without and with the sixth.
LEMMA OneTwoTwo ==
  ASSUME NEW S, NEW a \in S, NEW b \in S, NEW c \in S, NEW d \in S, NEW e \in S,
         NEW s, s = <<a>> \o <<b, c>> \o <<d, e>> \o <<>>
  PROVE  s \in Seq(S) /\ Len(s) = 5 /\ s[1] = a /\ s[2] = b /\ s[3] = c /\ s[4] = d /\ s[5] = e
  OBVIOUS

\* With the sixth, which says whether there is a corridor cut.
LEMMA OneTwoTwoOne ==
  ASSUME NEW S, NEW a \in S, NEW b \in S, NEW c \in S, NEW d \in S, NEW e \in S, NEW f \in S,
         NEW s, s = <<a>> \o <<b, c>> \o <<d, e>> \o <<f>>
  PROVE  /\ s \in Seq(S) /\ Len(s) = 6
         /\ s[1] = a /\ s[2] = b /\ s[3] = c /\ s[4] = d /\ s[5] = e /\ s[6] = f
  OBVIOUS

\* A flag that is packed in a byte.
LEMMA FlagByte ==
  ASSUME NEW e \in BOOLEAN
  PROVE  Bit(e) \in Nat /\ (Bit(e) # 0) = e
  BY DEF Bit

\* What is left of a schedule, of tasks to be shortened and of a date.
LEMMA CutOffs ==
  ASSUME NEW x
  PROVE  /\ InMinutes("schedule", x) = [i \in DOMAIN x |-> TaskInMinutes(x[i])]
         /\ InMinutes("shorten", x) = [i \in DOMAIN x |-> [x[i] EXCEPT !.duration = WholeMinutes(x[i].duration)]]
         /\ InMinutes("date", x) = [x EXCEPT !.second = 0]
  BY Zenon DEF InMinutes

\* What a date is made of.
LEMMA DateFields ==
  ASSUME NEW d \in Dates
  PROVE  /\ d = [year |-> d.year, month |-> d.month, day |-> d.day, hour |-> d.hour, minute |-> d.minute,
                 second |-> d.second]
         /\ d.year \in Nat /\ d.month \in Nat /\ d.day \in Nat /\ d.hour \in 0..23 /\ d.minute \in 0..59
         /\ IsDate(d.year, d.month, d.day)
<1>1. /\ d \in [year : 1..9999, month : 1..12, day : 1..31, hour : 0..23, minute : 0..59, second : 0..59]
      /\ IsDate(d.year, d.month, d.day)
  BY DEF Dates
<1>2. /\ d = [year |-> d.year, month |-> d.month, day |-> d.day, hour |-> d.hour, minute |-> d.minute,
               second |-> d.second]
      /\ d.year \in 1..9999 /\ d.month \in 1..12 /\ d.day \in 1..31 /\ d.hour \in 0..23 /\ d.minute \in 0..59
  BY <1>1
<1>3. PICK y, m, n : y = d.year /\ m = d.month /\ n = d.day
  OBVIOUS
<1>4. y \in 1..9999 /\ m \in 1..12 /\ n \in 1..31
  BY <1>2, <1>3
<1>5. y \in Nat /\ m \in Nat /\ n \in Nat
  BY ONLY <1>4
<1>6. d.year \in Nat /\ d.month \in Nat /\ d.day \in Nat
  BY ONLY <1>3, <1>5, Zenon
<1> QED
  BY ONLY <1>1, <1>2, <1>6

\* The times that datetime takes.
LEMMA TimeIsTaken ==
  ASSUME NEW h \in 0..23, NEW m \in 0..59
  PROVE  IsTime(h, m) /\ h \in Nat /\ m \in Nat
  BY DEF IsTime

\* A date is read as it was set, up to its second.
THEOREM DateRoundTrip ==
  ASSUME NEW d \in Dates
  PROVE  UnpackDate(PackDate(d)) = InMinutes("date", d)
<1>1. PICK y, m, n, h, i, x :
        /\ d = [year |-> y, month |-> m, day |-> n, hour |-> h, minute |-> i, second |-> x]
        /\ y \in Nat /\ m \in Nat /\ n \in Nat /\ h \in 0..23 /\ i \in 0..59 /\ IsDate(y, m, n)
  BY DateFields
<1>2. PICK a, b : a = y % 256 /\ b = y \div 256
  OBVIOUS
<1>3. a + 256 * b = y /\ a \in Nat /\ b \in Nat
  BY <1>1, <1>2, TwoBytes
<1>4. PICK s : s = <<a, b>> \o <<m, n, h, i>>
  OBVIOUS
<1>5. PackDate(d) = s
  BY <1>1, <1>2, <1>4 DEF PackDate, LittleEndian
<1>6. /\ s \in Seq(Nat) /\ Len(s) = 6
      /\ s[1] = a /\ s[2] = b /\ s[3] = m /\ s[4] = n /\ s[5] = h /\ s[6] = i
  <2>1. h \in Nat /\ i \in Nat
    BY <1>1, TimeIsTaken
  <2> QED
    BY <1>1, <1>3, <1>4, <2>1, TwoAndFour
<1>7. IsTime(h, i) /\ s # <<>>
  <2>1. IsTime(h, i)
    BY <1>1, TimeIsTaken
  <2>2. Len(<<>>) = 0 /\ 6 # 0
    OBVIOUS
  <2>3. s # <<>>
    BY <1>6, <2>2, Zenon
  <2> QED
    BY <2>1, <2>3
<1>8. UnpackDate(s) = [year |-> y, month |-> m, day |-> n, hour |-> h, minute |-> i, second |-> 0]
  <2>1. UnpackDate(s) =
          IF IsDate(s[1] + 256 * s[2], s[3], s[4]) /\ IsTime(s[5], s[6])
          THEN [year |-> s[1] + 256 * s[2], month |-> s[3], day |-> s[4], hour |-> s[5], minute |-> s[6], second |-> 0]
          ELSE Raised
    BY <1>6, <1>7, Zenon DEF UnpackDate, Struct
  <2>2. s[1] + 256 * s[2] = y /\ IsDate(y, s[3], s[4]) /\ IsTime(s[5], s[6])
    BY <1>1, <1>3, <1>6, <1>7, Zenon
  <2> QED
    BY <1>6, <2>1, <2>2, Zenon
<1>9. InMinutes("date", d) = [year |-> y, month |-> m, day |-> n, hour |-> h, minute |-> i, second |-> 0]
  <2>1. InMinutes("date", d) = [d EXCEPT !.second = 0]
    BY CutOffs, Zenon
  <2> QED
    BY <1>1, <2>1
<1> QED
  BY <1>5, <1>8, <1>9

\* A starting point is read as it was set, of a mower that has a corridor cut and of one that has not.
THEOREM PointRoundTrip ==
  ASSUME NEW p \in Points
  PROVE  /\ PackPoint(p) \in Seq(Nat)
         /\ Len(PackPoint(p)) = IF p.corridor_cut = None THEN 5 ELSE 6
         /\ UnpackPoint(PackPoint(p)) = p
<1>1. PICK w, x, r, e, c : /\ p = [loop_wire |-> w, distance |-> x, proportion |-> r, enabled |-> e, corridor_cut |-> c]
                           /\ w \in Nat /\ x \in Nat /\ r \in Nat /\ e \in BOOLEAN /\ c \in BOOLEAN \cup {None}
  BY DEF Points, Byte
<1>2. PICK a, b : a = x % 256 /\ b = x \div 256
  OBVIOUS
<1>3. a + 256 * b = x /\ a \in Nat /\ b \in Nat
  BY <1>1, <1>2, TwoBytes
<1>4. PICK f : f = Bit(e) /\ f \in Nat /\ (f # 0) = e
  BY <1>1, FlagByte
<1>5. CASE c = None
  <2>1. PICK s : s = <<w>> \o <<a, b>> \o <<r, f>> \o <<>>
    OBVIOUS
  <2>2. PackPoint(p) = s
    BY <1>1, <1>2, <1>4, <1>5, <2>1 DEF PackPoint, LittleEndian
  <2>3. s \in Seq(Nat) /\ Len(s) = 5 /\ s[1] = w /\ s[2] = a /\ s[3] = b /\ s[4] = r /\ s[5] = f
    BY <1>1, <1>3, <1>4, <2>1, OneTwoTwo
  <2>4. UnpackPoint(s) = [loop_wire |-> w, distance |-> x, proportion |-> r, enabled |-> e, corridor_cut |-> None]
    BY <1>3, <1>4, <2>3 DEF UnpackPoint
  <2> QED
    BY <1>1, <1>5, <2>2, <2>3, <2>4
<1>6. CASE c # None
  <2>1. PICK g : g = Bit(c) /\ g \in Nat /\ (g # 0) = c
    BY <1>1, <1>6, FlagByte
  <2>2. PICK s : s = <<w>> \o <<a, b>> \o <<r, f>> \o <<g>>
    OBVIOUS
  <2>3. PackPoint(p) = s
    BY <1>1, <1>2, <1>4, <1>6, <2>1, <2>2 DEF PackPoint, LittleEndian
  <2>4. s \in Seq(Nat) /\ Len(s) = 6 /\ s[1] = w /\ s[2] = a /\ s[3] = b /\ s[4] = r /\ s[5] = f /\ s[6] = g
    BY <1>1, <1>3, <1>4, <2>1, <2>2, OneTwoTwoOne
  <2>5. UnpackPoint(s) = [loop_wire |-> w, distance |-> x, proportion |-> r, enabled |-> e, corridor_cut |-> c]
    BY <1>3, <1>4, <2>1, <2>4 DEF UnpackPoint
  <2> QED
    BY <1>1, <1>6, <2>3, <2>4, <2>5
<1> QED
  BY <1>5, <1>6

\* And tasks to be skipped; the empty list is none.
THEOREM SkipRoundTrip ==
  ASSUME NEW skip \in Seq([id : Byte])
  PROVE  UnpackSkip(PackSkip(skip)) = IF skip = <<>> THEN None ELSE skip
<1>1. PICK n : n = Len(skip) /\ n \in Nat
  OBVIOUS
<1>2. skip \in [1..n -> [id : Byte]] /\ (n = 0 <=> skip = <<>>)
  BY <1>1, SequenceIsFunction, EmptySequence
<1>3. \A i \in 1..n : skip[i] = [id |-> skip[i].id] /\ skip[i].id \in Byte
  BY <1>2
<1>4. PICK s : s = [i \in 1..n |-> skip[i].id]
  OBVIOUS
<1>5. PackSkip(skip) = s
  BY <1>2, <1>4 DEF PackSkip
<1>6. s \in Seq(Byte) /\ Len(s) = n /\ \A i \in 1..n : s[i] = skip[i].id
  <2>1. s \in [1..n -> Byte]
    BY <1>3, <1>4
  <2> QED
    BY <1>1, <1>4, <2>1, FunctionIsSequence
<1>7. Len(s) \div 1 = n /\ Len(s) % 1 = 0 /\ (s = <<>> <=> n = 0)
  BY <1>1, <1>6
<1>8. CASE skip = <<>>
  <2>1. UnpackSkip(s) = None
    BY <1>2, <1>7, <1>8, Zenon DEF UnpackSkip, StructList
  <2> QED
    BY <1>5, <1>8, <2>1
<1>9. CASE skip # <<>>
  <2>1. PICK t : t = Structs(s, 1)
    OBVIOUS
  <2>2. DOMAIN t = 1..n /\ \A i \in 1..n : t[i][1] = s[i]
    BY <1>1, <1>6, <1>7, <2>1 DEF Structs
  <2>3. s # <<>>
    BY <1>2, <1>7, <1>9
  <2>4. UnpackSkip(s) = [i \in 1..n |-> [id |-> s[i]]]
    BY <1>7, <2>1, <2>2, <2>3 DEF UnpackSkip, StructList
  <2>5. [i \in 1..n |-> [id |-> s[i]]] = skip
    BY <1>2, <1>3, <1>6
  <2> QED
    BY <1>5, <1>9, <2>4, <2>5
<1> QED
  BY <1>8, <1>9

\* Structs of three bytes, or of seven, lie one behind the other.
LEMMA StructSizes ==
  ASSUME NEW size \in {3, 5, 6, 7}, NEW n \in Nat, NEW m, m = size * n
  PROVE  /\ size \in Nat /\ m \in Nat /\ m \div size = n /\ m % size = 0
         /\ \A k \in 1..m : ((k - 1) \div size) + 1 \in 1..n /\ ((k - 1) % size) + 1 \in 1..size
<1>1. CASE size = 3
  BY <1>1
<1>2. CASE size = 5
  BY <1>2
<1>3. CASE size = 6
  BY <1>3
<1>4. CASE size = 7
  BY <1>4
<1> QED
  BY <1>1, <1>2, <1>3, <1>4

\* Structs of that size that were joined come apart again.
LEMMA ComeApart ==
  ASSUME NEW size \in {3, 5, 6, 7}, NEW S, NEW structs \in Seq(Seq(S)), \A i \in 1..Len(structs) : Len(structs[i]) = size
  PROVE  /\ Joined(structs, size) \in Seq(S) /\ Len(Joined(structs, size)) = size * Len(structs)
         /\ Len(Joined(structs, size)) % size = 0
         /\ Structs(Joined(structs, size), size) = structs
<1>1. PICK n : n = Len(structs) /\ n \in Nat
  OBVIOUS
<1>2. PICK s : s = Joined(structs, size)
  OBVIOUS
<1>3. \A i \in 1..n : structs[i] \in Seq(S) /\ Len(structs[i]) = size /\ \A j \in 1..size : structs[i][j] \in S
  BY <1>1
<1>4. PICK m : m = size * n
  OBVIOUS
<1>5. /\ m \in Nat /\ size \in Nat /\ m \div size = n /\ m % size = 0
       /\ \A k \in 1..m : ((k - 1) \div size) + 1 \in 1..n /\ ((k - 1) % size) + 1 \in 1..size
  BY ONLY <1>1, <1>4, size \in {3, 5, 6, 7}, StructSizes
<1>6. s = [k \in 1..m |-> structs[((k - 1) \div size) + 1][((k - 1) % size) + 1]]
  BY <1>1, <1>2, <1>4 DEF Joined
<1>7. s \in Seq(S) /\ Len(s) = m
  <2>1. ASSUME NEW k \in 1..m
        PROVE  structs[((k - 1) \div size) + 1][((k - 1) % size) + 1] \in S
    <3>1. PICK i, j : i = ((k - 1) \div size) + 1 /\ j = ((k - 1) % size) + 1
      OBVIOUS
    <3>2. i \in 1..n /\ j \in 1..size
      BY <1>5, <3>1
    <3> QED
      BY <1>3, <3>1, <3>2
  <2>2. s \in [1..m -> S] /\ m \in Nat
    BY <1>5, <1>6, <2>1
  <2> QED
    BY <2>2, FunctionIsSequence
<1>8. ASSUME NEW i \in 1..n
      PROVE  SubSeq(s, size * (i - 1) + 1, size * i) = structs[i]
  <2>1. PICK p, q : p = size * (i - 1) + 1 /\ q = size * i
    OBVIOUS
  <2>2. n \in Nat /\ i \in 1..n /\ m = size * n
    BY <1>1, <1>4
  <2>3. p \in 1..m /\ q \in 1..m /\ q = p + size - 1
    <3>1. CASE size = 3
      BY ONLY <2>1, <2>2, <3>1
    <3>2. CASE size = 5
      BY ONLY <2>1, <2>2, <3>2
    <3>3. CASE size = 6
      BY ONLY <2>1, <2>2, <3>3
    <3>4. CASE size = 7
      BY ONLY <2>1, <2>2, <3>4
    <3> QED
      BY <3>1, <3>2, <3>3, <3>4
  <2>4. ASSUME NEW j \in 1..size, NEW k, k = p + j - 1
        PROVE  k \in 1..m /\ (k - 1) \div size = i - 1 /\ (k - 1) % size = j - 1
    <3>1. CASE size = 3
      <4>1. j \in 1..3 /\ k = 3 * (i - 1) + j /\ m = 3 * n
        BY ONLY <2>1, <2>2, <2>4, <3>1
      <4> QED
        BY ONLY <2>2, <3>1, <4>1
    <3>2. CASE size = 5
      <4>1. j \in 1..5 /\ k = 5 * (i - 1) + j /\ m = 5 * n
        BY ONLY <2>1, <2>2, <2>4, <3>2
      <4> QED
        BY ONLY <2>2, <3>2, <4>1
    <3>3. CASE size = 6
      <4>1. j \in 1..6 /\ k = 6 * (i - 1) + j /\ m = 6 * n
        BY ONLY <2>1, <2>2, <2>4, <3>3
      <4> QED
        BY ONLY <2>2, <3>3, <4>1
    <3>4. CASE size = 7
      <4>1. j \in 1..7 /\ k = 7 * (i - 1) + j /\ m = 7 * n
        BY ONLY <2>1, <2>2, <2>4, <3>4
      <4> QED
        BY ONLY <2>2, <3>4, <4>1
    <3> QED
      BY <3>1, <3>2, <3>3, <3>4
  <2>5. PICK t : t = SubSeq(s, p, q)
    OBVIOUS
  <2>6. t \in Seq(S) /\ Len(t) = size /\ \A j \in 1..size : t[j] = s[p + j - 1]
    BY ONLY <1>5, <1>7, <2>3, <2>5
  <2>7. PICK u : u = structs[i] /\ u \in Seq(S) /\ Len(u) = size
    BY <1>3
  <2>8. ASSUME NEW j \in 1..size PROVE t[j] = u[j]
    <3>1. PICK k : k = p + j - 1
      OBVIOUS
    <3>2. k \in 1..m /\ (k - 1) \div size = i - 1 /\ (k - 1) % size = j - 1
      BY <2>4, <3>1
    <3>3. (i - 1) + 1 = i /\ (j - 1) + 1 = j
      BY <1>1, <1>5
    <3>4. s[k] = structs[((k - 1) \div size) + 1][((k - 1) % size) + 1]
      BY <1>6, <3>2
    <3>5. t[j] = s[k]
      BY ONLY <2>6, <3>1, j \in 1..size
    <3> QED
      BY <2>7, <3>2, <3>3, <3>4, <3>5
  <2>9. t = u
    BY ONLY <2>6, <2>7, <2>8, EqualElements
  <2> QED
    BY <2>1, <2>5, <2>7, <2>9
<1>9. Structs(s, size) = [i \in 1..n |-> structs[i]]
  BY <1>5, <1>7, <1>8 DEF Structs
<1>10. structs = [i \in 1..n |-> structs[i]]
  BY <1>1, SequenceIsFunction
<1> QED
  BY <1>1, <1>2, <1>4, <1>5, <1>7, <1>9, <1>10

\* A point with a corridor cut takes one byte more.
LEMMA BytesBefore ==
  ASSUME NEW points, NEW m \in Nat
  PROVE  LET long == {j \in 1..m : points[j].corridor_cut # None}
         IN  /\ Before(points, m + 1) = 5 * m + Cardinality(long)
             /\ Cardinality(long) \in 0..m
             /\ Cardinality(long) = 0 <=> long = {}
             /\ Cardinality(long) = m <=> long = 1..m
<1> DEFINE long == {j \in 1..m : points[j].corridor_cut # None}
<1>1. IsFiniteSet(1..m) /\ Cardinality(1..m) = m
  BY FS_Interval
<1>2. IsFiniteSet(long) /\ Cardinality(long) <= m /\ (Cardinality(long) = m <=> long = 1..m)
  <2>1. long \in SUBSET (1..m)
    OBVIOUS
  <2> QED
    BY <1>1, <2>1, FS_Subset
<1>3. Cardinality(long) \in Nat /\ (Cardinality(long) = 0 <=> long = {})
  BY <1>2, FS_CardinalityType, FS_EmptySet
<1>4. (m + 1) - 1 = m
  OBVIOUS
<1>5. Before(points, m + 1) = 5 * m + Cardinality(long)
  BY <1>4 DEF Before
<1> QED
  BY <1>2, <1>3, <1>5

\* Points that are all of one size are joined.
LEMMA PointsJoined ==
  ASSUME NEW points \in Seq(Points), NEW size \in {5, 6},
         \A i \in 1..Len(points) : (points[i].corridor_cut = None) <=> (size = 5)
  PROVE  PackPoints(points) = Joined([i \in 1..Len(points) |-> PackPoint(points[i])], size)
<1>1. PICK n : n = Len(points) /\ n \in Nat /\ DOMAIN points = 1..n
  OBVIOUS
<1>2. ASSUME NEW m \in 0..n PROVE Before(points, m + 1) = size * m
  <2>1. PICK long : long = {j \in 1..m : points[j].corridor_cut # None}
    OBVIOUS
  <2>2. m \in Nat /\ Before(points, m + 1) = 5 * m + Cardinality(long)
    <3>1. m \in Nat
      BY <1>1
    <3> QED
      BY <2>1, <3>1, BytesBefore
  <2>3. CASE size = 5
    <3>1. long = {}
      BY <1>1, <2>1, <2>3
    <3> QED
      BY <2>2, <2>3, <3>1, FS_EmptySet
  <2>4. CASE size = 6
    <3>1. long = 1..m
      BY <1>1, <2>1, <2>4
    <3>2. Cardinality(1..m) = m
      BY <2>2, FS_Interval
    <3>3. Before(points, m + 1) = 5 * m + m
      BY <2>2, <3>1, <3>2
    <3> QED
      BY <2>2, <2>4, <3>3
  <2> QED
    BY <2>3, <2>4
<1>3. PICK structs : structs = [i \in 1..n |-> PackPoint(points[i])]
  OBVIOUS
<1>4. \A i \in 1..n : Before(points, i) = size * (i - 1) /\ Before(points, i + 1) = size * i
  <2>1. ASSUME NEW i \in 1..n
        PROVE  Before(points, i) = size * (i - 1) /\ Before(points, i + 1) = size * i
    <3>1. i - 1 \in 0..n /\ i \in 0..n /\ (i - 1) + 1 = i
      BY <1>1
    <3> QED
      BY <1>2, <3>1
  <2> QED
    BY <2>1
<1>5. PICK L : L = size * n
  OBVIOUS
<1>6. Before(points, Len(points) + 1) = L
  BY <1>1, <1>2, <1>5
<1>7. ASSUME NEW k \in 1..L
      PROVE  LET i == CHOOSE i \in 1..n : Before(points, i) < k /\ k <= Before(points, i + 1)
             IN  PackPoint(points[i])[k - Before(points, i)] = structs[(k - 1) \div size + 1][((k - 1) % size) + 1]
  <2>1. PICK q, r : q = (k - 1) \div size /\ r = (k - 1) % size
    OBVIOUS
  <2>2. q + 1 \in 1..n /\ r + 1 = k - size * ((q + 1) - 1)
    <3>1. CASE size = 5
      BY <1>1, <1>5, <2>1, <3>1
    <3>2. CASE size = 6
      BY <1>1, <1>5, <2>1, <3>2
    <3> QED
      BY <3>1, <3>2
  <2>3. ASSUME NEW i \in 1..n
        PROVE  (Before(points, i) < k /\ k <= Before(points, i + 1)) <=> i = q + 1
    <3>1. Before(points, i) = size * (i - 1) /\ Before(points, i + 1) = size * i
      BY <1>4
    <3>2. CASE size = 5
      BY <1>1, <1>5, <2>1, <3>1, <3>2
    <3>3. CASE size = 6
      BY <1>1, <1>5, <2>1, <3>1, <3>3
    <3> QED
      BY <3>2, <3>3
  <2>4. (CHOOSE i \in 1..n : Before(points, i) < k /\ k <= Before(points, i + 1)) = q + 1
    BY <2>2, <2>3
  <2>5. PackPoint(points[q + 1])[k - Before(points, q + 1)] = structs[q + 1][r + 1]
    BY <1>3, <1>4, <2>2
  <2> QED
    BY <2>1, <2>4, <2>5
<1>8. PackPoints(points) = [k \in 1..L |-> structs[(k - 1) \div size + 1][((k - 1) % size) + 1]]
  BY <1>1, <1>6, <1>7 DEF PackPoints
<1>9. Len(structs) = n
  BY <1>1, <1>3
<1> QED
  BY <1>1, <1>3, <1>5, <1>8, <1>9 DEF Joined

\* Points of one size are read from a buffer of such structs.
LEMMA PointsOfSize ==
  ASSUME NEW points \in Seq(Points), NEW size \in {5, 6},
         \A i \in 1..Len(points) : (points[i].corridor_cut = None) <=> (size = 5)
  PROVE  /\ PackPoints(points) \in Seq(Nat) /\ Len(PackPoints(points)) = size * Len(points)
         /\ Len(PackPoints(points)) % size = 0
         /\ LET structs == Structs(PackPoints(points), size)
            IN  [i \in DOMAIN structs |-> UnpackPoint(structs[i])] = points
<1>1. PICK n : n = Len(points) /\ n \in Nat
  OBVIOUS
<1>2. DOMAIN points = 1..n /\ points \in [1..n -> Points]
  BY <1>1, SequenceIsFunction
<1>3. PICK structs : structs = [i \in 1..n |-> PackPoint(points[i])]
  OBVIOUS
<1>4. \A i \in 1..n : structs[i] \in Seq(Nat) /\ Len(structs[i]) = size /\ UnpackPoint(structs[i]) = points[i]
  BY <1>1, <1>2, <1>3, PointRoundTrip
<1>5. structs \in Seq(Seq(Nat)) /\ Len(structs) = n
  <2>1. structs \in [1..n -> Seq(Nat)]
    BY <1>3, <1>4
  <2> QED
    BY <1>1, <2>1, FunctionIsSequence
<1>6. PICK s : s = Joined(structs, size)
  OBVIOUS
<1>7. s \in Seq(Nat) /\ Len(s) = size * n /\ Len(s) % size = 0 /\ Structs(s, size) = structs
  BY <1>4, <1>5, <1>6, ComeApart
<1>8. PackPoints(points) = s
  BY <1>1, <1>3, <1>6, PointsJoined
<1>9. DOMAIN structs = 1..n
  BY <1>3
<1>10. [i \in 1..n |-> UnpackPoint(structs[i])] = points
  BY <1>2, <1>4
<1> QED
  BY <1>1, <1>7, <1>8, <1>9, <1>10

\* How many bytes there are.
LEMMA BytesOfPoints ==
  ASSUME NEW points \in Seq(Points)
  PROVE  /\ Len(PackPoints(points)) = Before(points, Len(points) + 1)
         /\ Len(PackPoints(points)) \in Nat
<1>1. PICK n : n = Len(points) /\ n \in Nat
  OBVIOUS
<1>2. PICK L : L = Before(points, n + 1)
  OBVIOUS
<1>3. L \in Nat
  <2>1. PICK c : c = Cardinality({j \in 1..n : points[j].corridor_cut # None})
    OBVIOUS
  <2>2. L = 5 * n + c /\ c \in 0..n
    BY <1>1, <1>2, <2>1, BytesBefore
  <2> QED
    BY <1>1, <2>2
<1> QED
  BY <1>1, <1>2, <1>3 DEF PackPoints

\* In less than 30 bytes, their number tells the size of the points: they are
\* read as they were set, but no points are no list, and points of two sizes
\* are not read at all.
THEOREM PointsRoundTrip ==
  ASSUME NEW points \in Seq(Points), Len(PackPoints(points)) < 30
  PROVE  UnpackPoints(PackPoints(points)) =
           IF points = <<>> THEN None ELSE IF TwoSizes(points) THEN Raised ELSE points
<1>1. PICK n, s : n = Len(points) /\ n \in Nat /\ s = PackPoints(points)
  OBVIOUS
<1>2. PICK long : long = {j \in 1..n : points[j].corridor_cut # None}
  OBVIOUS
<1>3. PICK c : c = Cardinality(long)
  OBVIOUS
<1>4. /\ Before(points, n + 1) = 5 * n + c /\ c \in 0..n
      /\ c = 0 <=> long = {}
      /\ c = n <=> long = 1..n
      /\ DOMAIN points = 1..n /\ (n > 0 => points # <<>>)
  <2>1. /\ Before(points, n + 1) = 5 * n + c /\ c \in 0..n
        /\ c = 0 <=> long = {}
        /\ c = n <=> long = 1..n
    BY <1>1, <1>2, <1>3, BytesBefore
  <2> QED
    BY <1>1, <2>1
<1>5. Len(s) = 5 * n + c /\ n <= 5
  <2>1. 5 * n + c \in Nat
    BY <1>1, <1>4
  <2>2. Len(s) = 5 * n + c
    BY <1>1, <1>4, <2>1 DEF PackPoints
  <2> QED
    BY <1>1, <1>4, <2>2
<1>6. CASE n = 0
  <2>1. points = <<>> /\ c = 0
    <3>1. points = <<>>
      BY <1>1, <1>6, EmptySequence
    <3> QED
      BY <1>4, <1>6, <3>1
  <2>2. s \in Seq(Nat)
    <3>1. PICK size \in {5, 6} : size = 5
      OBVIOUS
    <3>2. \A i \in 1..Len(points) : (points[i].corridor_cut = None) <=> (size = 5)
      BY <1>1, <1>6
    <3> QED
      BY <1>1, <3>2, PointsOfSize
  <2>3. s = <<>>
    BY <1>5, <1>6, <2>1, <2>2
  <2>4. UnpackPoints(<<>>) = None
    BY DEF UnpackPoints
  <2> QED
    BY <1>1, <2>1, <2>3, <2>4
<1>7. CASE n > 0 /\ c = 0
  <2>1. \A i \in 1..n : points[i].corridor_cut = None
    BY <1>2, <1>4, <1>7
  <2>2. /\ s \in Seq(Nat) /\ Len(s) % 5 = 0
        /\ LET structs == Structs(s, 5) IN [i \in DOMAIN structs |-> UnpackPoint(structs[i])] = points
    BY <1>1, <2>1, PointsOfSize
  <2>3. Len(s) % 6 # 0 /\ s # <<>>
    BY <1>1, <1>5, <1>7
  <2>4. UnpackPoints(s) = points
    BY <2>2, <2>3 DEF UnpackPoints
  <2>5. ~TwoSizes(points) /\ points # <<>>
    BY <1>4, <1>7, <2>1 DEF TwoSizes
  <2> QED
    BY <1>1, <2>4, <2>5
<1>8. CASE n > 0 /\ c = n
  <2>1. \A i \in 1..n : points[i].corridor_cut # None
    BY <1>2, <1>4, <1>8
  <2>2. /\ s \in Seq(Nat) /\ Len(s) % 6 = 0
        /\ LET structs == Structs(s, 6) IN [i \in DOMAIN structs |-> UnpackPoint(structs[i])] = points
    BY <1>1, <2>1, PointsOfSize
  <2>3. s # <<>>
    BY <1>1, <1>5, <1>8
  <2>4. UnpackPoints(s) = points
    BY <2>2, <2>3 DEF UnpackPoints
  <2>5. ~TwoSizes(points) /\ points # <<>>
    BY <1>4, <1>8, <2>1 DEF TwoSizes
  <2> QED
    BY <1>1, <2>4, <2>5
<1>9. CASE 0 < c /\ c < n
  <2>1. Len(s) % 6 # 0 /\ Len(s) % 5 # 0 /\ Len(s) # 0
    BY <1>1, <1>4, <1>5, <1>9
  <2>2. s # <<>>
    BY <2>1
  <2>3. UnpackPoints(s) = Raised
    BY <2>1, <2>2 DEF UnpackPoints
  <2>4. long # {} /\ long # 1..n
    BY <1>1, <1>4, <1>9
  <2>5. TwoSizes(points)
    BY <1>2, <1>4, <2>4 DEF TwoSizes
  <2>6. points # <<>>
    BY <1>1, <1>4, <1>9
  <2> QED
    BY <1>1, <2>3, <2>5, <2>6
<1> QED
  BY <1>1, <1>4, <1>6, <1>7, <1>8, <1>9

\* Structs of a fixed size are read one by one.
LEMMA StructsRead ==
  ASSUME NEW S, NEW structs \in Seq(Seq(S)), \A i \in 1..Len(structs) : Len(structs[i]) = 3
  PROVE  LET s == Joined(structs, 3)
         IN  /\ Len(s) % 3 = 0 /\ Structs(s, 3) = structs
             /\ structs # <<>> => s # <<>>
             /\ structs = <<>> => s = <<>>
<1>1. PICK s : s = Joined(structs, 3)
  OBVIOUS
<1>2. s \in Seq(S) /\ Len(s) = 3 * Len(structs) /\ Len(s) % 3 = 0 /\ Structs(s, 3) = structs
  BY <1>1, ComeApart
<1>3. Len(structs) \in Nat /\ (structs = <<>> <=> Len(structs) = 0) /\ (s = <<>> <=> Len(s) = 0)
  BY <1>2
<1>4. Len(s) = 0 <=> Len(structs) = 0
  BY <1>2, <1>3
<1> QED
  BY <1>1, <1>2, <1>3, <1>4

\* The bytes of a task that is shortened.
LEMMA ThreeBytes ==
  ASSUME NEW S, NEW a \in S, NEW b \in S, NEW c \in S, NEW s, s = <<a>> \o <<b, c>>
  PROVE  s \in Seq(S) /\ Len(s) = 3 /\ s[1] = a /\ s[2] = b /\ s[3] = c
  OBVIOUS

\* Durations and bytes are natural numbers.
LEMMA DurationsCount == Durations \subseteq Nat /\ Byte \subseteq Nat
  BY DEF Durations, Byte

\* What they are made of, and the minutes of it.
LEMMA ShortenedFields ==
  ASSUME NEW t \in Shortened
  PROVE  \E d, x, q : /\ t = [id |-> d, duration |-> x] /\ d \in Nat
                      /\ q = x \div 60 /\ q \in Nat /\ WholeMinutes(x) = 60 * q
<1>1. t = [id |-> t.id, duration |-> t.duration] /\ t.id \in Nat /\ t.duration \in Nat
  BY DurationsCount DEF Shortened
<1>2. t.duration \div 60 \in Nat
  BY <1>1
<1> QED
  BY <1>1, <1>2 DEF WholeMinutes

\* And tasks to be shortened, up to the seconds; the empty list is none.
THEOREM ShortenRoundTrip ==
  ASSUME NEW shorten \in Seq(Shortened)
  PROVE  UnpackShorten(PackShorten(shorten)) = IF shorten = <<>> THEN None ELSE InMinutes("shorten", shorten)
<1>1. PICK n : n = Len(shorten) /\ n \in Nat
  OBVIOUS
<1>2. DOMAIN shorten = 1..n /\ shorten \in [1..n -> Shortened] /\ (n = 0 <=> shorten = <<>>)
  BY <1>1, SequenceIsFunction
<1>3. PICK structs : structs = [i \in 1..n |-> <<shorten[i].id>> \o LittleEndian(shorten[i].duration \div 60)]
  OBVIOUS
<1>4. ASSUME NEW i \in 1..n
      PROVE  /\ structs[i] \in Seq(Nat) /\ Len(structs[i]) = 3
             /\ [id |-> structs[i][1], duration |-> 60 * (structs[i][2] + 256 * structs[i][3])]
                  = [shorten[i] EXCEPT !.duration = WholeMinutes(shorten[i].duration)]
  <2>1. PICK d, x, q : /\ shorten[i] = [id |-> d, duration |-> x] /\ d \in Nat
                       /\ q = x \div 60 /\ q \in Nat /\ WholeMinutes(x) = 60 * q
    <3>1. shorten[i] \in Shortened
      BY <1>2
    <3> QED
      BY <3>1, ShortenedFields, Zenon
  <2>2. PICK a, b : a = q % 256 /\ b = q \div 256
    OBVIOUS
  <2>3. a + 256 * b = q /\ a \in Nat /\ b \in Nat
    <3>1. q \in Nat
      BY <2>1
    <3>2. 256 * b + a = q /\ a \in Nat /\ b \in Nat
      BY ONLY <2>2, <3>1, TwoBytes
    <3> QED
      BY ONLY <3>2
  <2>4. PICK s : s = <<d>> \o <<a, b>>
    OBVIOUS
  <2>5. structs[i] = s
    <3>1. LittleEndian(q) = <<a, b>>
      BY <2>2 DEF LittleEndian
    <3>2. shorten[i].id = d /\ shorten[i].duration \div 60 = q
      BY <2>1
    <3>3. structs[i] = <<d>> \o LittleEndian(q)
      BY <1>3, <3>2
    <3> QED
      BY <2>4, <3>1, <3>3
  <2>6. s \in Seq(Nat) /\ Len(s) = 3 /\ s[1] = d /\ s[2] = a /\ s[3] = b
    BY <2>1, <2>3, <2>4, ThreeBytes
  <2>7. [shorten[i] EXCEPT !.duration = WholeMinutes(shorten[i].duration)] = [id |-> d, duration |-> 60 * q]
    BY <2>1
  <2> QED
    BY <2>3, <2>5, <2>6, <2>7
<1>5. structs \in Seq(Seq(Nat)) /\ Len(structs) = n /\ DOMAIN structs = 1..n
  <2>1. structs \in [1..n -> Seq(Nat)]
    BY <1>3, <1>4
  <2> QED
    BY <1>1, <1>3, <2>1, FunctionIsSequence
<1>6. PICK s : s = Joined(structs, 3)
  OBVIOUS
<1>7. /\ Len(s) % 3 = 0 /\ Structs(s, 3) = structs
      /\ structs # <<>> => s # <<>>
      /\ structs = <<>> => s = <<>>
  <2>1. \A i \in 1..Len(structs) : Len(structs[i]) = 3
    BY <1>4, <1>5
  <2> QED
    BY <1>5, <1>6, <2>1, StructsRead
<1>8. PackShorten(shorten) = s
  BY <1>2, <1>3, <1>6 DEF PackShorten
<1>9. structs = <<>> <=> shorten = <<>>
  BY <1>1, <1>2, <1>5
<1>10. CASE shorten = <<>>
  <2>1. s = <<>>
    BY <1>7, <1>9, <1>10
  <2>2. UnpackShorten(s) = None
    BY <1>7, <2>1, Zenon DEF UnpackShorten, StructList
  <2> QED
    BY <1>8, <1>10, <2>2
<1>11. CASE shorten # <<>>
  <2>1. s # <<>>
    BY <1>7, <1>9, <1>11
  <2>2. UnpackShorten(s) =
          [i \in DOMAIN structs |-> [id |-> structs[i][1], duration |-> 60 * (structs[i][2] + 256 * structs[i][3])]]
    BY <1>7, <2>1, Zenon DEF UnpackShorten, StructList
  <2>3. UnpackShorten(s) = [i \in 1..n |-> [shorten[i] EXCEPT !.duration = WholeMinutes(shorten[i].duration)]]
    BY <1>4, <1>5, <2>2
  <2> QED
    BY <1>2, <1>8, <1>11, <2>3, CutOffs
<1> QED
  BY <1>10, <1>11

\* A state is known by its number.
LEMMA ScheduleStateName ==
  ASSUME NEW x \in DOMAIN ScheduleStateEnum
  PROVE  ScheduleStateEnum[x] \in Nat /\ NameOf(ScheduleStateEnum, ScheduleStateEnum[x]) = x
<1>1. DOMAIN ScheduleStateEnum =
        {"idle", "scheduled", "will_start", "skipped", "shorten_duration", "running", "stopped", "error",
         "overwritten", "done", "will_continue"}
  BY DEF ScheduleStateEnum
<1>2. \A y \in DOMAIN ScheduleStateEnum : ScheduleStateEnum[y] = ScheduleStateEnum[x] => y = x
  BY <1>1 DEF ScheduleStateEnum
<1>3. ScheduleStateEnum[x] \in Nat
  BY <1>1 DEF ScheduleStateEnum
<1> QED
  BY <1>2, <1>3 DEF NameOf

\* The fields of the state of a task.
LEMMA StateFields ==
  ASSUME NEW t \in States
  PROVE  \E d, x, u : /\ t = [id |-> d, state |-> x, update |-> u]
                      /\ d \in Nat /\ x \in DOMAIN ScheduleStateEnum /\ u \in BOOLEAN
  BY DEF States, Byte

\* So are the states of a schedule.
THEOREM StatesRoundTrip ==
  ASSUME NEW states \in Seq(States)
  PROVE  UnpackScheduleStates(PackScheduleStates(states)) = IF states = <<>> THEN None ELSE states
<1>1. PICK n : n = Len(states) /\ n \in Nat
  OBVIOUS
<1>2. DOMAIN states = 1..n /\ states \in [1..n -> States] /\ (n = 0 <=> states = <<>>)
  BY <1>1, SequenceIsFunction
<1>3. PICK structs : structs = [i \in 1..n |-> <<states[i].id, ScheduleStateEnum[states[i].state], Bit(states[i].update)>>]
  OBVIOUS
<1>4. ASSUME NEW i \in 1..n
      PROVE  /\ structs[i] \in Seq(Nat) /\ Len(structs[i]) = 3
             /\ [id |-> structs[i][1], state |-> NameOf(ScheduleStateEnum, structs[i][2]), update |-> structs[i][3] # 0]
                  = states[i]
  <2>1. PICK d, x, u : /\ states[i] = [id |-> d, state |-> x, update |-> u]
                       /\ d \in Nat /\ x \in DOMAIN ScheduleStateEnum /\ u \in BOOLEAN
    <3>1. states[i] \in States
      BY <1>2
    <3> QED
      BY <3>1, StateFields, Zenon
  <2>2. PICK a, b : a = ScheduleStateEnum[x] /\ b = Bit(u)
    OBVIOUS
  <2>3. a \in Nat /\ b \in Nat /\ NameOf(ScheduleStateEnum, a) = x /\ (b # 0) = u
    BY <2>1, <2>2, FlagByte, ScheduleStateName
  <2>4. structs[i] = <<d, a, b>>
    BY <1>3, <2>1, <2>2
  <2>5. /\ <<d, a, b>> \in Seq(Nat) /\ Len(<<d, a, b>>) = 3
        /\ <<d, a, b>>[1] = d /\ <<d, a, b>>[2] = a /\ <<d, a, b>>[3] = b
    BY <2>1, <2>3
  <2> QED
    BY <2>1, <2>3, <2>4, <2>5
<1>5. structs \in Seq(Seq(Nat)) /\ Len(structs) = n /\ DOMAIN structs = 1..n
  <2>1. structs \in [1..n -> Seq(Nat)]
    BY <1>3, <1>4
  <2> QED
    BY <1>1, <1>3, <2>1, FunctionIsSequence
<1>6. PICK s : s = Joined(structs, 3)
  OBVIOUS
<1>7. /\ Len(s) % 3 = 0 /\ Structs(s, 3) = structs
      /\ structs # <<>> => s # <<>>
      /\ structs = <<>> => s = <<>>
  BY <1>4, <1>5, <1>6, StructsRead
<1>8. PackScheduleStates(states) = s
  BY <1>2, <1>3, <1>6 DEF PackScheduleStates
<1>9. structs = <<>> <=> states = <<>>
  BY <1>1, <1>2, <1>5
<1>10. CASE states = <<>>
  <2>1. s = <<>>
    BY <1>7, <1>9, <1>10
  <2>2. UnpackScheduleStates(s) = None
    BY <1>7, <2>1, Zenon DEF UnpackScheduleStates, StructList
  <2> QED
    BY <1>8, <1>10, <2>2
<1>11. CASE states # <<>>
  <2>1. s # <<>>
    BY <1>7, <1>9, <1>11
  <2>2. UnpackScheduleStates(s) =
          [i \in DOMAIN structs |->
             [id |-> structs[i][1], state |-> NameOf(ScheduleStateEnum, structs[i][2]), update |-> structs[i][3] # 0]]
    BY <1>7, <2>1, Zenon DEF UnpackScheduleStates, StructList
  <2>3. [i \in 1..n |->
           [id |-> structs[i][1], state |-> NameOf(ScheduleStateEnum, structs[i][2]), update |-> structs[i][3] # 0]]
        = states
    BY <1>2, <1>4
  <2> QED
    BY <1>5, <1>8, <1>11, <2>2, <2>3
<1> QED
  BY <1>10, <1>11

\* The five flags in their byte.
LEMMA FiveBits ==
  ASSUME NEW a \in 0..1, NEW b \in 0..1, NEW c \in 0..1, NEW d \in 0..1, NEW e \in 0..1,
         NEW n, n = a + 2 * b + 4 * c + 8 * d + 16 * e
  PROVE  /\ n \in 0..31 /\ (n \div 1) % 2 = a /\ (n \div 2) % 2 = b /\ (n \div 4) % 2 = c
         /\ (n \div 8) % 2 = d /\ (n \div 16) % 2 = e
  OBVIOUS

\* The last of eight bytes.
LEMMA LastByte ==
  ASSUME NEW n \in Nat
  PROVE  /\ <<0, 0, 0, 0, 0, 0, 0, n>> # <<>> /\ Len(<<0, 0, 0, 0, 0, 0, 0, n>>) = 8
         /\ Last(<<0, 0, 0, 0, 0, 0, 0, n>>) = n
  BY DEF Last

\* A set of flags is read as it was set.
THEOREM LonaControlRoundTrip ==
  ASSUME NEW set, set \subseteq {Flags[i] : i \in 1..5}
  PROVE  UnpackLonaControl(PackLonaControl(set)) = set
<1>1. PICK on : on = [i \in 1..5 |-> IF Flags[i] \in set THEN 1 ELSE 0]
  OBVIOUS
<1>2. \A i \in 1..5 : on[i] \in 0..1 /\ (on[i] = 1 <=> Flags[i] \in set)
  BY <1>1
<1>3. 2 ^ (1 - 1) = 1 /\ 2 ^ (2 - 1) = 2 /\ 2 ^ (3 - 1) = 4 /\ 2 ^ (4 - 1) = 8 /\ 2 ^ (5 - 1) = 16
  OBVIOUS
<1>4. PICK n : n = (IF Flags[1] \in set THEN 2 ^ (1 - 1) ELSE 0) + (IF Flags[2] \in set THEN 2 ^ (2 - 1) ELSE 0)
                   + (IF Flags[3] \in set THEN 2 ^ (3 - 1) ELSE 0) + (IF Flags[4] \in set THEN 2 ^ (4 - 1) ELSE 0)
                   + (IF Flags[5] \in set THEN 2 ^ (5 - 1) ELSE 0)
  OBVIOUS
<1>5. PICK a, b, c, d, e : a = on[1] /\ b = on[2] /\ c = on[3] /\ d = on[4] /\ e = on[5]
  OBVIOUS
<1>6. /\ a \in 0..1 /\ b \in 0..1 /\ c \in 0..1 /\ d \in 0..1 /\ e \in 0..1
      /\ n = a + 2 * b + 4 * c + 8 * d + 16 * e
  <2>1. on[1] = (IF Flags[1] \in set THEN 1 ELSE 0) /\ on[2] = (IF Flags[2] \in set THEN 1 ELSE 0)
        /\ on[3] = (IF Flags[3] \in set THEN 1 ELSE 0) /\ on[4] = (IF Flags[4] \in set THEN 1 ELSE 0)
        /\ on[5] = (IF Flags[5] \in set THEN 1 ELSE 0)
    BY <1>1
  <2> QED
    BY <1>3, <1>4, <1>5, <2>1
<1>7. /\ n \in 0..31 /\ (n \div 1) % 2 = a /\ (n \div 2) % 2 = b /\ (n \div 4) % 2 = c
      /\ (n \div 8) % 2 = d /\ (n \div 16) % 2 = e
  BY ONLY <1>6, FiveBits
<1>8. /\ (n \div 2 ^ (1 - 1)) % 2 = on[1] /\ (n \div 2 ^ (2 - 1)) % 2 = on[2] /\ (n \div 2 ^ (3 - 1)) % 2 = on[3]
      /\ (n \div 2 ^ (4 - 1)) % 2 = on[4] /\ (n \div 2 ^ (5 - 1)) % 2 = on[5]
  BY ONLY <1>3, <1>5, <1>7
<1>9. ASSUME NEW j \in 1..5
      PROVE  (n \div 2 ^ (j - 1)) % 2 = on[j]
  <2>1. CASE j = 1
    BY ONLY <1>8, <2>1
  <2>2. CASE j = 2
    BY ONLY <1>8, <2>2
  <2>3. CASE j = 3
    BY ONLY <1>8, <2>3
  <2>4. CASE j = 4
    BY ONLY <1>8, <2>4
  <2>5. CASE j = 5
    BY ONLY <1>8, <2>5
  <2>6. j \in {1, 2, 3, 4, 5}
    OBVIOUS
  <2> QED
    BY <2>1, <2>2, <2>3, <2>4, <2>5, <2>6, Zenon
<1>10. {j \in 1..5 : (n \div 2 ^ (j - 1)) % 2 = 1} = {j \in 1..5 : on[j] = 1}
  BY <1>9, Zenon
<1>11. {Flags[i] : i \in {j \in 1..5 : on[j] = 1}} = set
  BY <1>2, Zenon
<1>12. PICK s : s = <<0, 0, 0, 0, 0, 0, 0, n>>
  OBVIOUS
<1>13. PackLonaControl(set) = s
  BY <1>4, <1>12, Zenon DEF PackLonaControl
<1>14. s # <<>> /\ Len(s) = 8 /\ Last(s) = n
  BY <1>7, <1>12, LastByte
<1>15. ~(Len(s) > 8)
  BY <1>14
<1>16. UnpackLonaControl(s) = {Flags[i] : i \in {j \in 1..5 : (Last(s) \div 2 ^ (j - 1)) % 2 = 1}}
  BY <1>14, <1>15, Zenon DEF UnpackLonaControl
<1> QED
  BY <1>10, <1>11, <1>13, <1>14, <1>16, Zenon

\* A number is cut off by less than One, if it is an integer.
LEMMA CutOff ==
  ASSUME NEW x \in Nat, NEW o \in Nat \ {0}
  PROVE  o * (x \div o) <= x /\ x - o * (x \div o) < o /\ o * (x \div o) \in Nat
  OBVIOUS

\* Nine bytes, and the nine after them.
LEMMA Halves ==
  ASSUME NEW S, NEW s \in Seq(S), Len(s) = 18
  PROVE  /\ Len(SubSeq(s, 1, 9)) = 9 /\ \A i \in 1..9 : SubSeq(s, 1, 9)[i] = s[i]
         /\ Len(SubSeq(s, 10, 18)) = 9 /\ \A i \in 1..9 : SubSeq(s, 10, 18)[i] = s[9 + i]
  OBVIOUS

\* A level is known by its number.
LEMMA SensorControlName ==
  ASSUME NEW x \in DOMAIN SensorControl
  PROVE  SensorControl[x] \in Nat /\ NameOf(SensorControl, SensorControl[x]) = x
<1>1. DOMAIN SensorControl = {"disabled", "reserved_1", "low_cutting_time", "medium", "high_cutting_time", "reserved_5"}
  BY DEF SensorControl
<1>2. \A y \in DOMAIN SensorControl : SensorControl[y] = SensorControl[x] => y = x
  BY <1>1 DEF SensorControl
<1>3. SensorControl[x] \in Nat
  BY <1>1 DEF SensorControl
<1> HIDE DEF SensorControl
<1> QED
  BY <1>2, <1>3 DEF NameOf

\* So is a security level.
LEMMA SecurityLevelName ==
  ASSUME NEW x \in DOMAIN SecurityLevel
  PROVE  SecurityLevel[x] \in Nat /\ NameOf(SecurityLevel, SecurityLevel[x]) = x
<1>1. DOMAIN SecurityLevel = {"low", "medium", "high"}
  BY DEF SecurityLevel
<1>2. \A y \in DOMAIN SecurityLevel : SecurityLevel[y] = SecurityLevel[x] => y = x
  BY <1>1 DEF SecurityLevel
<1>3. SecurityLevel[x] \in Nat
  BY <1>1 DEF SecurityLevel
<1> QED
  BY <1>2, <1>3 DEF NameOf

\* One setting in its byte.
LEMMA SettingRoundTrip ==
  ASSUME NEW i \in 2..8, NEW x \in SettingValues(i) \cup {None}
  PROVE  SettingByte(i, x) \in Nat /\ (x # None => SettingOf(i, SettingByte(i, x)) = x)
<1>1. CASE x = None
  BY <1>1 DEF SettingByte
<1>2. CASE x # None /\ i = 2
  <2>1. x \in Nat
    BY <1>2 DEF SettingValues, Byte
  <2> QED
    BY <1>2, <2>1 DEF SettingByte, SettingOf
<1>3. CASE x # None /\ i = 3
  <2>1. x \in DOMAIN SensorControl
    BY <1>3 DEF SettingValues
  <2>2. SettingByte(i, x) = SensorControl[x]
    BY <1>3 DEF SettingByte
  <2>3. SettingOf(i, SensorControl[x]) = NameOf(SensorControl, SensorControl[x])
    BY <1>3 DEF SettingOf
  <2> QED
    BY <2>1, <2>2, <2>3, SensorControlName
<1>4. CASE x # None /\ i = 5
  <2>1. x \in DOMAIN SecurityLevel
    BY <1>4 DEF SettingValues
  <2>2. SettingByte(i, x) = SecurityLevel[x]
    BY <1>4 DEF SettingByte
  <2>3. SettingOf(i, SecurityLevel[x]) = NameOf(SecurityLevel, SecurityLevel[x])
    BY <1>4 DEF SettingOf
  <2> QED
    BY <2>1, <2>2, <2>3, SecurityLevelName
<1>5. CASE x # None /\ i \in {4, 6, 7, 8}
  <2>1. x \in BOOLEAN
    BY <1>5 DEF SettingValues
  <2>2. SettingByte(i, x) = Bit(x)
    BY <1>5 DEF SettingByte
  <2>3. \A n : SettingOf(i, n) = (n # 0)
    BY <1>5 DEF SettingOf
  <2> QED
    BY <2>1, <2>2, <2>3, FlagByte
<1> QED
  BY <1>1, <1>2, <1>3, <1>4, <1>5

-----------------------------------------------------------------------------
(* Schedules: what is packed is read, and compared as the mower runs *)

\* It does not matter where sequences are put together first.
LEMMA Together ==
  ASSUME NEW S, NEW x \in Seq(S), NEW y \in Seq(S), NEW z \in Seq(S), NEW w \in Seq(S)
  PROVE  x \o y \o z \o w = (x \o y) \o (z \o w)
  OBVIOUS

\* What comes behind two elements.
LEMMA BehindTwo ==
  ASSUME NEW S, NEW p \in Seq(S), NEW t \in Seq(S), Len(p) = 2, Len(t) = 7
  PROVE  /\ p \o t \in Seq(S) /\ Len(p \o t) = 9 /\ (p \o t)[1] = p[1] /\ (p \o t)[2] = p[2]
         /\ \A i \in 1..7 : (p \o t)[i + 2] = t[i]
<1>1. PICK s : s = p \o t
  OBVIOUS
<1>2. /\ s \in Seq(S) /\ Len(s) = Len(p) + Len(t)
      /\ \A i \in 1..Len(p) : s[i] = p[i]
      /\ \A i \in 1..Len(t) : s[Len(p) + i] = t[i]
  <2>1. p \in Seq(S) /\ t \in Seq(S)
    OBVIOUS
  <2>2. /\ p \o t \in Seq(S) /\ Len(p \o t) = Len(p) + Len(t)
        /\ \A i \in 1..Len(p) : (p \o t)[i] = p[i]
        /\ \A i \in 1..Len(t) : (p \o t)[Len(p) + i] = t[i]
    BY ONLY <2>1, Behind
  <2> QED
    BY <1>1, <2>2, Zenon
<1>3. s \in Seq(S) /\ Len(s) = 9 /\ s[1] = p[1] /\ s[2] = p[2]
  BY <1>2
<1>4. \A i \in 1..7 : s[i + 2] = t[i]
  BY <1>2
<1> QED
  BY <1>1, <1>3, <1>4, Zenon

\* The mask is in the first half of b, the values are in the second.
InHalves(b, p, m, q, v) ==
  /\ Len(b) = 18 /\ b # <<>>
  /\ SubSeq(b, 1, 9)[1] = p[1] /\ SubSeq(b, 1, 9)[2] = p[2]
  /\ SubSeq(b, 10, 18)[1] = q[1] /\ SubSeq(b, 10, 18)[2] = q[2]
  /\ \A i \in 2..8 : SubSeq(b, 1, 9)[i + 1] = m[i - 1] /\ SubSeq(b, 10, 18)[i + 1] = v[i - 1]

\* Where the mask and the values of the settings are in their 18 bytes.
LEMMA MaskAndValues ==
  ASSUME NEW S, NEW p \in Seq(S), NEW m \in Seq(S), NEW q \in Seq(S), NEW v \in Seq(S),
         Len(p) = 2, Len(m) = 7, Len(q) = 2, Len(v) = 7
  PROVE  InHalves(p \o m \o q \o v, p, m, q, v)
<1>0. PICK b : b = p \o m \o q \o v
  OBVIOUS
<1>1. PICK a : a = p \o m
  OBVIOUS
<1>2. a \in Seq(S) /\ Len(a) = 9 /\ a[1] = p[1] /\ a[2] = p[2] /\ \A i \in 1..7 : a[i + 2] = m[i]
  BY <1>1, BehindTwo
<1>3. PICK c : c = q \o v
  OBVIOUS
<1>4. c \in Seq(S) /\ Len(c) = 9 /\ c[1] = q[1] /\ c[2] = q[2] /\ \A i \in 1..7 : c[i + 2] = v[i]
  BY <1>3, BehindTwo
<1>5. b = a \o c
  <2>1. p \o m \o q \o v = (p \o m) \o (q \o v)
    <3>1. p \in Seq(S) /\ m \in Seq(S) /\ q \in Seq(S) /\ v \in Seq(S)
      OBVIOUS
    <3> QED
      BY ONLY <3>1, Together, SMTT(30)
  <2> QED
    BY <1>0, <1>1, <1>3, <2>1, Zenon
<1>6. /\ b \in Seq(S) /\ Len(b) = 18
      /\ \A i \in 1..9 : b[i] = a[i]
      /\ \A i \in 1..9 : b[9 + i] = c[i]
  <2>1. /\ a \o c \in Seq(S) /\ Len(a \o c) = Len(a) + Len(c)
        /\ \A i \in 1..Len(a) : (a \o c)[i] = a[i]
        /\ \A i \in 1..Len(c) : (a \o c)[Len(a) + i] = c[i]
    <3>1. a \in Seq(S) /\ c \in Seq(S)
      BY <1>2, <1>4
    <3> QED
      BY ONLY <3>1, Behind
  <2>2. Len(a) = 9 /\ Len(c) = 9
    BY <1>2, <1>4
  <2> QED
    <3>1. Len(a) + Len(c) = 18
      BY ONLY <2>2
    <3> QED
      BY ONLY <1>5, <2>1, <2>2, <3>1, Zenon
<1>7. /\ \A i \in 1..9 : SubSeq(b, 1, 9)[i] = a[i]
      /\ \A i \in 1..9 : SubSeq(b, 10, 18)[i] = c[i]
  <2>1. b \in Seq(S) /\ Len(b) = 18
    BY <1>6
  <2>2. /\ \A i \in 1..9 : SubSeq(b, 1, 9)[i] = b[i]
        /\ \A i \in 1..9 : SubSeq(b, 10, 18)[i] = b[9 + i]
    BY ONLY <2>1, Halves
  <2> QED
    BY ONLY <1>6, <2>2
<1>8. \A i \in 2..8 : /\ i + 1 \in 1..9 /\ i - 1 \in 1..7 /\ (i - 1) + 2 = i + 1
  OBVIOUS
<1>9. 1 \in 1..9 /\ 2 \in 1..9 /\ b # <<>>
  <2>1. Len(b) = 18 /\ b \in Seq(S)
    BY <1>6
  <2>2. Len(b) # 0
    BY ONLY <2>1
  <2>3. b # <<>>
    BY ONLY <2>1, <2>2, EmptySequence, Zenon
  <2> QED
    BY ONLY <2>3
<1>10. /\ SubSeq(b, 1, 9)[1] = p[1] /\ SubSeq(b, 1, 9)[2] = p[2]
       /\ SubSeq(b, 10, 18)[1] = q[1] /\ SubSeq(b, 10, 18)[2] = q[2]
  BY <1>2, <1>4, <1>7, <1>9, Zenon
<1>11. ASSUME NEW i \in 2..8
       PROVE  SubSeq(b, 1, 9)[i + 1] = m[i - 1] /\ SubSeq(b, 10, 18)[i + 1] = v[i - 1]
  <2>1. PICK j, k : j = i - 1 /\ k = i + 1
    OBVIOUS
  <2>2. k \in 1..9 /\ j \in 1..7 /\ j + 2 = k
    BY <1>8, <2>1
  <2>3. SubSeq(b, 1, 9)[k] = a[k] /\ SubSeq(b, 10, 18)[k] = c[k]
    BY ONLY <1>7, <2>2, Zenon
  <2>4. a[j + 2] = m[j] /\ c[j + 2] = v[j]
    BY ONLY <1>2, <1>4, <2>2, Zenon
  <2> QED
    BY ONLY <2>1, <2>2, <2>3, <2>4, Zenon
<1> QED
  BY <1>0, <1>6, <1>9, <1>10, <1>11, Zenon DEF InHalves

\* A word is its two bytes.
LEMMA Words ==
  /\ \A n \in 0..MAX_WORD : BigEndian(n) = <<n \div 256, n % 256>> /\ n \div 256 \in Nat /\ n % 256 \in Nat
                              /\ 256 * (n \div 256) + (n % 256) = n
  /\ 0 \in 0..MAX_WORD /\ 65535 \in 0..MAX_WORD
<1>1. \A n \in 0..MAX_WORD : n \in Nat
  OBVIOUS
<1>2. 0 \in 0..MAX_WORD /\ 65535 \in 0..MAX_WORD
  BY DEF MAX_WORD
<1> QED
  BY <1>1, <1>2, TwoBytes DEF BigEndian

\* Settings are read as they were set, those that are not there included.
THEOREM SettingsRoundTrip ==
  ASSUME NEW s, s = [i \in 1..8 |-> s[i]], \A i \in 1..8 : s[i] \in SettingValues(i) \cup {None}
  PROVE  UnpackSettings(PackSettings(s)) = s
<1>1. PICK m : m = [i \in 1..7 |-> IF s[i + 1] = None THEN 0 ELSE 255]
  OBVIOUS
<1>2. PICK v : v = [i \in 1..7 |-> SettingByte(i + 1, s[i + 1])]
  OBVIOUS
<1>3. ASSUME NEW i \in 1..7
      PROVE  SettingByte(i + 1, s[i + 1]) \in Nat
  <2>1. i + 1 \in 2..8 /\ s[i + 1] \in SettingValues(i + 1) \cup {None}
    OBVIOUS
  <2> QED
    BY <2>1, SettingRoundTrip
<1>4. m \in Seq(Nat) /\ v \in Seq(Nat) /\ Len(m) = 7 /\ Len(v) = 7
  <2>1. PICK k : k = 7
    OBVIOUS
  <2>2. m \in [1..k -> Nat] /\ v \in [1..k -> Nat] /\ k \in Nat
    BY <1>1, <1>2, <1>3, <2>1
  <2> QED
    BY <2>1, <2>2, FunctionIsSequence
<1>5. ASSUME NEW i \in 2..8
      PROVE  /\ m[i - 1] = 255 <=> s[i] # None
             /\ s[i] # None => SettingOf(i, v[i - 1]) = s[i]
  <2>1. i - 1 \in 1..7 /\ (i - 1) + 1 = i /\ i \in 1..8
    OBVIOUS
  <2>2. v[i - 1] = SettingByte(i, s[i]) /\ m[i - 1] = IF s[i] = None THEN 0 ELSE 255
    BY <1>1, <1>2, <2>1
  <2>3. s[i] \in SettingValues(i) \cup {None}
    BY <2>1
  <2> QED
    BY <2>2, <2>3, SettingRoundTrip
<1>6. PICK k, n : k = (IF s[1] = None THEN 0 ELSE 65535) /\ n = (IF s[1] = None THEN 0 ELSE s[1])
  OBVIOUS
<1>7. k \in 0..MAX_WORD /\ n \in 0..MAX_WORD
  <2>1. s[1] \in 0..MAX_WORD \cup {None}
    <3>1. SettingValues(1) = 0..MAX_WORD
      <4>1. PICK i : i = 1
        OBVIOUS
      <4>2. SettingValues(i) = 0..MAX_WORD
        BY <4>1 DEF SettingValues
      <4> QED
        BY <4>1, <4>2
    <3>2. s[1] \in SettingValues(1) \cup {None}
      OBVIOUS
    <3> QED
      BY <3>1, <3>2, Zenon
  <2> QED
    BY <1>6, <2>1, Words
<1>8. PICK m1, m2, r1, r2 : m1 = k \div 256 /\ m2 = k % 256 /\ r1 = n \div 256 /\ r2 = n % 256
  OBVIOUS
<1>9. /\ BigEndian(k) = <<m1, m2>> /\ BigEndian(n) = <<r1, r2>>
      /\ m1 \in Nat /\ m2 \in Nat /\ r1 \in Nat /\ r2 \in Nat /\ 256 * r1 + r2 = n
  BY ONLY <1>7, <1>8, Words
<1>10. (m1 = 255 /\ m2 = 255) <=> s[1] # None
  <2>1. CASE s[1] = None
    <3>1. k = 0
      BY <1>6, <2>1
    <3>2. m1 # 255
      BY ONLY <1>8, <3>1
    <3> QED
      BY <2>1, <3>2, Zenon
  <2>2. CASE s[1] # None
    <3>1. k = 65535
      BY <1>6, <2>2
    <3>2. m1 = 255 /\ m2 = 255
      BY ONLY <1>8, <3>1
    <3> QED
      BY <2>2, <3>2, Zenon
  <2> QED
    BY <2>1, <2>2, Zenon
<1>11. PackSettings(s) = <<m1, m2>> \o m \o <<r1, r2>> \o v
  <2>1. PackSettings(s) = BigEndian(k) \o m \o BigEndian(n) \o v
    <3>1. k = IF s[1] = None THEN 0 ELSE 65535
      BY <1>6
    <3>2. n = IF s[1] = None THEN 0 ELSE s[1]
      BY <1>6
    <3> QED
      BY ONLY <1>1, <1>2, <3>1, <3>2 DEF PackSettings
  <2> QED
    BY <1>9, <2>1, Zenon
<1>12. s[1] # None => 256 * r1 + r2 = s[1]
  BY <1>6, <1>9
<1>13. PICK b : b = <<m1, m2>> \o m \o <<r1, r2>> \o v
  OBVIOUS
<1>14. PICK mask, raw : mask = SubSeq(b, 1, 9) /\ raw = SubSeq(b, 10, 18)
  OBVIOUS
<1>15. /\ Len(b) = 18 /\ b # <<>>
       /\ mask[1] = m1 /\ mask[2] = m2 /\ raw[1] = r1 /\ raw[2] = r2
       /\ \A i \in 2..8 : mask[i + 1] = m[i - 1] /\ raw[i + 1] = v[i - 1]
  <2>1. /\ m1 \in Nat /\ m2 \in Nat /\ r1 \in Nat /\ r2 \in Nat
        /\ m \in Seq(Nat) /\ v \in Seq(Nat) /\ Len(m) = 7 /\ Len(v) = 7
    BY <1>4, <1>9
  <2>2. PICK S : S = Nat
    OBVIOUS
  <2>3. PICK p, q : p = <<m1, m2>> /\ q = <<r1, r2>>
    OBVIOUS
  <2>4. p \in Seq(S) /\ Len(p) = 2 /\ p[1] = m1 /\ p[2] = m2
    BY <2>1, <2>2, <2>3
  <2>5. q \in Seq(S) /\ Len(q) = 2 /\ q[1] = r1 /\ q[2] = r2
    BY <2>1, <2>2, <2>3
  <2>6. m \in Seq(S) /\ v \in Seq(S) /\ Len(m) = 7 /\ Len(v) = 7
    BY <2>1, <2>2
  <2>7. b = p \o m \o q \o v
    BY <1>13, <2>3, Zenon
  <2>8. /\ Len(b) = 18 /\ b # <<>>
        /\ SubSeq(b, 1, 9)[1] = p[1] /\ SubSeq(b, 1, 9)[2] = p[2]
        /\ SubSeq(b, 10, 18)[1] = q[1] /\ SubSeq(b, 10, 18)[2] = q[2]
        /\ \A i \in 2..8 : SubSeq(b, 1, 9)[i + 1] = m[i - 1] /\ SubSeq(b, 10, 18)[i + 1] = v[i - 1]
    <3>1. /\ p \in Seq(S) /\ m \in Seq(S) /\ q \in Seq(S) /\ v \in Seq(S)
          /\ Len(p) = 2 /\ Len(m) = 7 /\ Len(q) = 2 /\ Len(v) = 7
      BY <2>4, <2>5, <2>6
    <3>2. InHalves(p \o m \o q \o v, p, m, q, v)
      BY ONLY <3>1, MaskAndValues
    <3> QED
      BY <2>7, <3>2, Zenon DEF InHalves
  <2> QED
    BY <1>14, <2>4, <2>5, <2>8, Zenon
<1>16. UnpackSettings(b) =
         [i \in 1..8 |->
            IF i = 1 THEN IF mask[1] = 255 /\ mask[2] = 255 THEN 256 * raw[1] + raw[2] ELSE None
            ELSE IF i < 9 /\ mask[i + 1] = 255 THEN SettingOf(i, raw[i + 1])
            ELSE None]
  <2>1. Len(b) \div 2 = 9 /\ 9 + 1 = 10 /\ Len(b) \in {16, 18}
    BY <1>15
  <2>2. mask = SubSeq(b, 1, Len(b) \div 2) /\ raw = SubSeq(b, (Len(b) \div 2) + 1, Len(b))
    BY ONLY <1>14, <1>15, <2>1
  <2> QED
    BY ONLY <1>15, <2>1, <2>2 DEF UnpackSettings
<1>17. ASSUME NEW i \in 1..8
       PROVE  UnpackSettings(b)[i] = s[i]
  <2>1. CASE i = 1
    <3>1. UnpackSettings(b)[1] = IF mask[1] = 255 /\ mask[2] = 255 THEN 256 * raw[1] + raw[2] ELSE None
      BY <1>16
    <3> QED
      BY <1>10, <1>12, <1>15, <2>1, <3>1
  <2>2. CASE i # 1
    <3>1. i \in 2..8 /\ i < 9
      BY <2>2
    <3>2. UnpackSettings(b)[i] = IF mask[i + 1] = 255 THEN SettingOf(i, raw[i + 1]) ELSE None
      BY <1>16, <2>2, <3>1
    <3>3. mask[i + 1] = m[i - 1] /\ raw[i + 1] = v[i - 1]
      BY <1>15, <3>1
    <3>4. /\ m[i - 1] = 255 <=> s[i] # None
          /\ s[i] # None => SettingOf(i, v[i - 1]) = s[i]
      BY <1>5, <3>1
    <3> QED
      BY <3>2, <3>3, <3>4, Zenon
  <2> QED
    BY <2>1, <2>2
<1>18. UnpackSettings(b) = [i \in 1..8 |-> UnpackSettings(b)[i]]
  BY <1>16
<1>19. PackSettings(s) = b
  BY <1>11, <1>13, Zenon
<1>20. [i \in 1..8 |-> UnpackSettings(b)[i]] = [i \in 1..8 |-> s[i]]
  BY <1>17
<1> QED
  BY <1>18, <1>19, <1>20, Zenon

\* The weekdays in their byte.
LEMMA SevenBits ==
  ASSUME NEW a \in 0..1, NEW b \in 0..1, NEW c \in 0..1, NEW d \in 0..1, NEW e \in 0..1, NEW f \in 0..1, NEW g \in 0..1,
         NEW n, n = 64 * a + 32 * b + 16 * c + 8 * d + 4 * e + 2 * f + g
  PROVE  /\ n \in 0..127 /\ (n \div 64) % 2 = a /\ (n \div 32) % 2 = b /\ (n \div 16) % 2 = c /\ (n \div 8) % 2 = d
         /\ (n \div 4) % 2 = e /\ (n \div 2) % 2 = f /\ (n \div 1) % 2 = g
  OBVIOUS

\* The weights of the seven bits.
LEMMA Powers == 2^0 = 1 /\ 2^1 = 2 /\ 2^2 = 4 /\ 2^3 = 8 /\ 2^4 = 16 /\ 2^5 = 32 /\ 2^6 = 64
  OBVIOUS

\* The bytes of a task.
LEMMA TaskBytes ==
  ASSUME NEW S, NEW a \in S, NEW b \in S, NEW c \in S, NEW d \in S, NEW e \in S, NEW f \in S, NEW g \in S,
         NEW s, s = <<a, b>> \o <<c, d>> \o <<e, f>> \o <<g>>
  PROVE  /\ s \in Seq(S) /\ Len(s) = 7 /\ s[1] = a /\ s[2] = b /\ s[3] = c /\ s[4] = d /\ s[5] = e /\ s[6] = f
         /\ s[7] = g
  OBVIOUS

\* The byte of the weekdays, and the weekdays that are read from it.
LEMMA WeekdaysRoundTrip ==
  ASSUME NEW w \in SUBSET (1..7),
         NEW n, n = (IF 1 \in w THEN 2 ^ (7 - 1) ELSE 0) + (IF 2 \in w THEN 2 ^ (7 - 2) ELSE 0)
                    + (IF 3 \in w THEN 2 ^ (7 - 3) ELSE 0) + (IF 4 \in w THEN 2 ^ (7 - 4) ELSE 0)
                    + (IF 5 \in w THEN 2 ^ (7 - 5) ELSE 0) + (IF 6 \in w THEN 2 ^ (7 - 6) ELSE 0)
                    + (IF 7 \in w THEN 2 ^ (7 - 7) ELSE 0)
  PROVE  n \in Nat /\ {d \in 1..7 : (n \div 2 ^ (7 - d)) % 2 = 1} = w
<1>1. PICK on : on = [d \in 1..7 |-> IF d \in w THEN 1 ELSE 0]
  OBVIOUS
<1>2. \A d \in 1..7 : on[d] \in 0..1 /\ (on[d] = 1 <=> d \in w)
  BY <1>1
<1>3. /\ 2 ^ (7 - 1) = 64 /\ 2 ^ (7 - 2) = 32 /\ 2 ^ (7 - 3) = 16 /\ 2 ^ (7 - 4) = 8 /\ 2 ^ (7 - 5) = 4
      /\ 2 ^ (7 - 6) = 2 /\ 2 ^ (7 - 7) = 1
  OBVIOUS
<1>4. n = 64 * on[1] + 32 * on[2] + 16 * on[3] + 8 * on[4] + 4 * on[5] + 2 * on[6] + on[7]
  BY <1>1, <1>3
<1>5. PICK a, b, c, d, e, f, g :
        a = on[1] /\ b = on[2] /\ c = on[3] /\ d = on[4] /\ e = on[5] /\ f = on[6] /\ g = on[7]
  OBVIOUS
<1>6. /\ a \in 0..1 /\ b \in 0..1 /\ c \in 0..1 /\ d \in 0..1 /\ e \in 0..1 /\ f \in 0..1 /\ g \in 0..1
      /\ n = 64 * a + 32 * b + 16 * c + 8 * d + 4 * e + 2 * f + g
  BY <1>2, <1>4, <1>5
<1>7. /\ n \in 0..127 /\ (n \div 64) % 2 = a /\ (n \div 32) % 2 = b /\ (n \div 16) % 2 = c /\ (n \div 8) % 2 = d
      /\ (n \div 4) % 2 = e /\ (n \div 2) % 2 = f /\ (n \div 1) % 2 = g
  BY ONLY <1>6, SevenBits
<1>8. /\ (n \div 2 ^ (7 - 1)) % 2 = on[1] /\ (n \div 2 ^ (7 - 2)) % 2 = on[2] /\ (n \div 2 ^ (7 - 3)) % 2 = on[3]
      /\ (n \div 2 ^ (7 - 4)) % 2 = on[4] /\ (n \div 2 ^ (7 - 5)) % 2 = on[5] /\ (n \div 2 ^ (7 - 6)) % 2 = on[6]
      /\ (n \div 2 ^ (7 - 7)) % 2 = on[7]
  BY ONLY <1>3, <1>5, <1>7
<1>9. ASSUME NEW x \in 1..7
      PROVE  (n \div 2 ^ (7 - x)) % 2 = on[x]
  <2>1. CASE x = 1
    BY ONLY <1>8, <2>1
  <2>2. CASE x = 2
    BY ONLY <1>8, <2>2
  <2>3. CASE x = 3
    BY ONLY <1>8, <2>3
  <2>4. CASE x = 4
    BY ONLY <1>8, <2>4
  <2>5. CASE x = 5
    BY ONLY <1>8, <2>5
  <2>6. CASE x = 6
    BY ONLY <1>8, <2>6
  <2>7. CASE x = 7
    BY ONLY <1>8, <2>7
  <2>8. x \in {1, 2, 3, 4, 5, 6, 7}
    OBVIOUS
  <2> QED
    BY <2>1, <2>2, <2>3, <2>4, <2>5, <2>6, <2>7, <2>8, Zenon
<1>10. {x \in 1..7 : (n \div 2 ^ (7 - x)) % 2 = 1} = {x \in 1..7 : on[x] = 1}
  BY <1>9, Zenon
<1>11. {x \in 1..7 : on[x] = 1} = w
  BY <1>2
<1>12. n \in Nat
  BY <1>7
<1> QED
  BY <1>10, <1>11, <1>12, Zenon

\* What a task is made of, and the minutes of it.
LEMMA TaskFields ==
  ASSUME NEW t \in Tasks
  PROVE  \E id, w, h, m, x, q, z :
           /\ t.id = id /\ t.weekdays = w /\ t.start[1] = h /\ t.start[2] = m /\ t.duration = x /\ t.a_id = z
           /\ id \in Nat /\ w \in SUBSET (1..7) /\ h \in 0..23 /\ m \in 0..59 /\ z \in Nat
           /\ q = x \div 60 /\ q \in Nat
           /\ TaskInMinutes(t) = [id |-> id, weekdays |-> w, start |-> <<h, m, 0>>, duration |-> 60 * q, a_id |-> z]
<1>1. /\ t = [id |-> t.id, weekdays |-> t.weekdays, start |-> t.start, duration |-> t.duration, a_id |-> t.a_id]
      /\ t.id \in Nat /\ t.weekdays \in SUBSET (1..7) /\ t.duration \in Nat /\ t.a_id \in Nat
      /\ t.start \in (0..23) \X (0..59) \X (0..59)
  BY DurationsCount DEF Tasks
<1>2. t.start[1] \in 0..23 /\ t.start[2] \in 0..59
  BY <1>1
<1>3. t.duration \div 60 \in Nat
  BY <1>1
<1>4. TaskInMinutes(t) = [id |-> t.id, weekdays |-> t.weekdays, start |-> <<t.start[1], t.start[2], 0>>,
                          duration |-> 60 * (t.duration \div 60), a_id |-> t.a_id]
  <2>1. PICK S, D : S = TaskInMinutes(t) /\ D = WholeMinutes(t.duration)
    OBVIOUS
  <2>2. S = [t EXCEPT !.start = <<t.start[1], t.start[2], 0>>, !.duration = D]
    BY <2>1, Zenon DEF TaskInMinutes
  <2>3. D = 60 * (t.duration \div 60)
    BY <2>1, Zenon DEF WholeMinutes
  <2> QED
    BY <1>1, <2>1, <2>2, <2>3
<1> QED
  BY <1>1, <1>2, <1>3, <1>4

\* A task is read as it was set, up to the seconds.
LEMMA TaskRoundTrip ==
  ASSUME NEW t \in Tasks
  PROVE  /\ PackTask(t) \in Seq(Nat) /\ Len(PackTask(t)) = 7
         /\ UnpackTask(PackTask(t)) = TaskInMinutes(t)
         /\ IsTime(PackTask(t)[3], PackTask(t)[4])
<1>1. PICK id, w, h, m, x, q, z :
        /\ t.id = id /\ t.weekdays = w /\ t.start[1] = h /\ t.start[2] = m /\ t.duration = x /\ t.a_id = z
        /\ id \in Nat /\ w \in SUBSET (1..7) /\ h \in 0..23 /\ m \in 0..59 /\ z \in Nat
        /\ q = x \div 60 /\ q \in Nat
        /\ TaskInMinutes(t) = [id |-> id, weekdays |-> w, start |-> <<h, m, 0>>, duration |-> 60 * q, a_id |-> z]
  BY TaskFields, Zenon
<1>2. PICK n : n = (IF 1 \in w THEN 2 ^ (7 - 1) ELSE 0) + (IF 2 \in w THEN 2 ^ (7 - 2) ELSE 0)
                    + (IF 3 \in w THEN 2 ^ (7 - 3) ELSE 0) + (IF 4 \in w THEN 2 ^ (7 - 4) ELSE 0)
                    + (IF 5 \in w THEN 2 ^ (7 - 5) ELSE 0) + (IF 6 \in w THEN 2 ^ (7 - 6) ELSE 0)
                    + (IF 7 \in w THEN 2 ^ (7 - 7) ELSE 0)
  OBVIOUS
<1>3. n \in Nat /\ {d \in 1..7 : (n \div 2 ^ (7 - d)) % 2 = 1} = w
  BY <1>1, <1>2, WeekdaysRoundTrip
<1>4. PICK a, b : a = q % 256 /\ b = q \div 256
  OBVIOUS
<1>5. a + 256 * b = q /\ a \in Nat /\ b \in Nat
  BY <1>1, <1>4, TwoBytes
<1>6. PICK s : s = <<id, n>> \o <<h, m>> \o <<a, b>> \o <<z>>
  OBVIOUS
<1>7. PackTask(t) = s
  <2>1. LittleEndian(q) = <<a, b>>
    BY <1>4 DEF LittleEndian
  <2>2. t.id = id /\ t.weekdays = w /\ t.start[1] = h /\ t.start[2] = m /\ t.duration \div 60 = q /\ t.a_id = z
    BY <1>1
  <2>3. PackTask(t) = <<id, n>> \o <<h, m>> \o LittleEndian(q) \o <<z>>
    BY ONLY <1>2, <2>2 DEF PackTask
  <2> QED
    BY <1>6, <2>1, <2>3
<1>8. /\ s \in Seq(Nat) /\ Len(s) = 7 /\ s[1] = id /\ s[2] = n /\ s[3] = h /\ s[4] = m /\ s[5] = a /\ s[6] = b
      /\ s[7] = z
  <2>1. h \in Nat /\ m \in Nat
    BY <1>1
  <2> QED
    BY <1>1, <1>3, <1>5, <1>6, <2>1, TaskBytes
<1>9. UnpackTask(s) = TaskInMinutes(t)
  BY <1>1, <1>3, <1>5, <1>8, Zenon DEF UnpackTask
<1>10. IsTime(s[3], s[4])
  BY <1>1, <1>8, TimeIsTaken
<1> QED
  BY <1>7, <1>8, <1>9, <1>10

\* Tasks of right times are unpacked, and nothing else is.
LEMMA ScheduleIsRead ==
  ASSUME NEW s, NEW structs, structs = Structs(s, 7), Len(s) % 7 = 0,
         \A i \in DOMAIN structs : IsTime(structs[i][3], structs[i][4])
  PROVE  UnpackSchedule(s) = [i \in DOMAIN structs |-> UnpackTask(structs[i])]
<1>1. Len(<<255>>) = 1 /\ 1 % 7 # 0
  OBVIOUS
<1>2. s # <<255>>
  BY <1>1, Zenon
<1> QED
  BY <1>2, Zenon DEF UnpackSchedule

\* A schedule of any tasks is read as it was set, up to the seconds of starts
\* and durations, which are not packed; the one of no tasks as well.
THEOREM ScheduleRoundTrip ==
  ASSUME NEW schedule \in Seq(Tasks)
  PROVE  /\ PackSchedule(schedule) \in Seq(Nat)
         /\ UnpackSchedule(PackSchedule(schedule)) = InMinutes("schedule", schedule)
<1>1. PICK n : n = Len(schedule) /\ n \in Nat
  OBVIOUS
<1>2. DOMAIN schedule = 1..n /\ schedule \in [1..n -> Tasks]
  BY <1>1, SequenceIsFunction
<1>3. PICK structs : structs = [i \in 1..n |-> PackTask(schedule[i])]
  OBVIOUS
<1>4. \A i \in 1..n : /\ structs[i] \in Seq(Nat) /\ Len(structs[i]) = 7
                      /\ UnpackTask(structs[i]) = TaskInMinutes(schedule[i])
                      /\ IsTime(structs[i][3], structs[i][4])
  BY <1>2, <1>3, TaskRoundTrip
<1>5. structs \in Seq(Seq(Nat)) /\ Len(structs) = n
  <2>1. structs \in [1..n -> Seq(Nat)]
    BY <1>3, <1>4
  <2> QED
    BY <1>1, <2>1, FunctionIsSequence
<1>6. PICK s : s = Joined(structs, 7)
  OBVIOUS
<1>7. s \in Seq(Nat) /\ Len(s) = 7 * n /\ Structs(s, 7) = structs
  BY <1>4, <1>5, <1>6, ComeApart
<1>8. PackSchedule(schedule) = s
  BY <1>2, <1>3, <1>6 DEF PackSchedule
<1>9. Len(s) % 7 = 0
  <2>1. (7 * n) % 7 = 0
    BY <1>1
  <2> QED
    BY <1>7, <2>1
<1>10. DOMAIN structs = 1..n
  BY <1>3
<1>11. UnpackSchedule(s) = [i \in 1..n |-> UnpackTask(structs[i])]
  <2>1. /\ structs = Structs(s, 7) /\ Len(s) % 7 = 0
        /\ \A i \in DOMAIN structs : IsTime(structs[i][3], structs[i][4])
    BY <1>4, <1>7, <1>9, <1>10
  <2>2. UnpackSchedule(s) = [i \in DOMAIN structs |-> UnpackTask(structs[i])]
    BY ONLY <2>1, ScheduleIsRead
  <2> QED
    BY <1>10, <2>2
<1>12. [i \in 1..n |-> UnpackTask(structs[i])] = [i \in 1..n |-> TaskInMinutes(schedule[i])]
  BY <1>4
<1> QED
  BY <1>2, <1>7, <1>8, <1>11, <1>12, CutOffs

\* What the tasks that schedule_to_canonical combines have in common.
TimeOf(t) == <<t.start, t.duration, t.a_id>>

\* The weekdays of all tasks of S at that time.
DaysAt(S, k) == UNION {u.weekdays : u \in {v \in S : TimeOf(v) = k}}

\* One task for each time.
Combined(S) == {[key |-> TimeOf(t), weekdays |-> DaysAt(S, TimeOf(t))] : t \in S}

\* A task without weekdays never runs.
Running(x) == {t \in ToSet(x) : t.weekdays # {}}

\* schedule_to_canonical combines the tasks that run.
LEMMA CanonicalCombines ==
  ASSUME NEW x
  PROVE  Canonical(x) = Combined(Running(x))
  BY DEF Canonical, Combined, Running, DaysAt, TimeOf

\* The mower runs on day d at time k.
LEMMA RunsAt ==
  ASSUME NEW x, NEW d, NEW start, NEW duration, NEW a_id
  PROVE  <<d, start, duration, a_id>> \in Runs(x) <=> d \in DaysAt(Running(x), <<start, duration, a_id>>)
<1>1. <<d, start, duration, a_id>> \in Runs(x)
        <=> \E t \in ToSet(x) : d \in t.weekdays /\ TimeOf(t) = <<start, duration, a_id>>
  BY DEF Runs, TimeOf
<1>2. d \in DaysAt(Running(x), <<start, duration, a_id>>)
        <=> \E t \in Running(x) : TimeOf(t) = <<start, duration, a_id>> /\ d \in t.weekdays
  BY DEF DaysAt
<1> QED
  BY <1>1, <1>2 DEF Running

\* Sets with the same elements are equal.
LEMMA SameElements ==
  ASSUME NEW A, NEW B, \A e : e \in A <=> e \in B
  PROVE  A = B
  OBVIOUS

\* Schedules that are combined to the same have the same days at each time, ...
LEMMA CombinedDays ==
  ASSUME NEW S, NEW T, Combined(S) = Combined(T), NEW k, NEW d \in DaysAt(S, k)
  PROVE  d \in DaysAt(T, k)
<1>1. PICK t \in S : TimeOf(t) = k
  BY DEF DaysAt
<1>2. [key |-> k, weekdays |-> DaysAt(S, k)] \in Combined(T)
  BY <1>1 DEF Combined
<1>3. PICK u \in T : [key |-> k, weekdays |-> DaysAt(S, k)] = [key |-> TimeOf(u), weekdays |-> DaysAt(T, TimeOf(u))]
  BY <1>2 DEF Combined
<1>4. k = TimeOf(u) /\ DaysAt(S, k) = DaysAt(T, TimeOf(u))
  BY <1>3
<1> QED
  BY <1>4

\* ... and those that run at the same times are combined to the same.
LEMMA DaysCombined ==
  ASSUME NEW x, NEW y, Runs(x) = Runs(y)
  PROVE  Combined(Running(x)) \subseteq Combined(Running(y))
<1>1. ASSUME NEW start, NEW duration, NEW a_id
      PROVE  DaysAt(Running(x), <<start, duration, a_id>>) = DaysAt(Running(y), <<start, duration, a_id>>)
  <2>1. \A d : <<d, start, duration, a_id>> \in Runs(x) <=> <<d, start, duration, a_id>> \in Runs(y)
    OBVIOUS
  <2>2. \A d : d \in DaysAt(Running(x), <<start, duration, a_id>>)
                 <=> d \in DaysAt(Running(y), <<start, duration, a_id>>)
    BY <2>1, RunsAt, Zenon
  <2> QED
    BY <2>2, SameElements, Zenon
<1>2. ASSUME NEW t \in Running(x)
      PROVE  [key |-> TimeOf(t), weekdays |-> DaysAt(Running(x), TimeOf(t))] \in Combined(Running(y))
  <2>1. DaysAt(Running(x), TimeOf(t)) = DaysAt(Running(y), TimeOf(t))
    BY <1>1 DEF TimeOf
  <2>2. PICK d : d \in t.weekdays
    BY DEF Running
  <2>3. d \in DaysAt(Running(x), TimeOf(t))
    BY <2>2 DEF DaysAt
  <2>4. PICK u \in Running(y) : TimeOf(u) = TimeOf(t)
    BY <2>1, <2>3 DEF DaysAt
  <2> QED
    BY <2>1, <2>4 DEF Combined
<1> QED
  BY <1>2 DEF Combined

\* mower_compare_schedules is right about any two schedules: they are the same to
\* it if and only if the mower runs at the same times.
THEOREM SchedulesCompare ==
  \A x, y : Canonical(x) = Canonical(y) <=> Runs(x) = Runs(y)
<1> SUFFICES ASSUME NEW x, NEW y PROVE Canonical(x) = Canonical(y) <=> Runs(x) = Runs(y)
  OBVIOUS
<1>1. ASSUME Runs(x) = Runs(y) PROVE Canonical(x) = Canonical(y)
  <2>1. Combined(Running(x)) \subseteq Combined(Running(y)) /\ Combined(Running(y)) \subseteq Combined(Running(x))
    BY <1>1, DaysCombined
  <2>2. Combined(Running(x)) = Combined(Running(y))
    BY <2>1, Zenon
  <2> QED
    BY <2>2, CanonicalCombines
<1>2. ASSUME Canonical(x) = Canonical(y) PROVE Runs(x) = Runs(y)
  <2>1. Combined(Running(x)) = Combined(Running(y))
    BY <1>2, CanonicalCombines
  <2>2. \A k : DaysAt(Running(x), k) = DaysAt(Running(y), k)
    BY <2>1, CombinedDays
  <2>3. \A z : \A r \in Runs(z) : \E d, s, n, a : r = <<d, s, n, a>>
    BY DEF Runs
  <2>4. \A d, s, n, a : <<d, s, n, a>> \in Runs(x) <=> <<d, s, n, a>> \in Runs(y)
    BY <2>2, RunsAt, Zenon
  <2>5. ASSUME NEW r PROVE r \in Runs(x) <=> r \in Runs(y)
    <3>1. CASE \E d, s, n, a : r = <<d, s, n, a>>
      <4>1. PICK d, s, n, a : r = <<d, s, n, a>>
        BY <3>1
      <4> QED
        BY <2>4, <4>1
    <3>2. CASE ~\E d, s, n, a : r = <<d, s, n, a>>
      BY <2>3, <3>2, Zenon
    <3> QED
      BY <3>1, <3>2
  <2> QED
    BY <2>5, SameElements, Zenon
<1> QED
  BY <1>1, <1>2

-----------------------------------------------------------------------------
(* The control messages *)

\* At most two entries.
LEMMA UpToTwo ==
  ASSUME NEW S, NEW a \in SeqOf(S, 2)
  PROVE  \/ a = <<>>
         \/ \E x \in S : a = <<x>>
         \/ \E x, y \in S : a = <<x, y>>
<1>1. PICK m \in 0..2 : a \in [1..m -> S]
  BY DEF SeqOf
<1>2. a \in Seq(S) /\ Len(a) = m
  BY <1>1
<1>3. CASE m = 0
  BY <1>2, <1>3
<1>4. CASE m = 1
  <2>1. a[1] \in S /\ a = <<a[1]>>
    BY <1>2, <1>4
  <2> QED
    BY <2>1
<1>5. CASE m = 2
  <2>1. PICK x, y : x = a[1] /\ y = a[2]
    OBVIOUS
  <2>2. x \in S /\ y \in S
    BY <1>2, <1>5, <2>1
  <2>3. <<x, y>> \in Seq(S) /\ Len(<<x, y>>) = 2 /\ <<x, y>>[1] = x /\ <<x, y>>[2] = y
    BY <2>2
  <2>4. \A i \in 1..2 : i = 1 \/ i = 2
    OBVIOUS
  <2>5. a = <<x, y>>
    BY <1>2, <1>5, <2>1, <2>3, <2>4, EqualElements
  <2> QED
    BY <2>2, <2>5
<1> QED
  BY <1>3, <1>4, <1>5

\* What deleting leaves of one or two entries.
LEMMA Removed ==
  ASSUME NEW S, NEW x \in S, NEW y \in S
  PROVE  /\ RemoveAt(<<x>>, 1) = <<>>
         /\ RemoveAt(<<x, y>>, 1) = <<y>>
         /\ RemoveAt(<<x, y>>, 2) = <<x>>
<1>1. PICK s : s = <<x, y>>
  OBVIOUS
<1>2. s \in Seq(S) /\ Len(s) = 2 /\ s[1] = x /\ s[2] = y
  BY <1>1
<1>3. SubSeq(s, 1, 0) = <<>> /\ SubSeq(s, 3, 2) = <<>>
  BY <1>2
<1>4. SubSeq(s, 1, 1) \in Seq(S) /\ Len(SubSeq(s, 1, 1)) = 1 /\ SubSeq(s, 1, 1)[1] = x
  BY <1>2
<1>5. SubSeq(s, 2, 2) \in Seq(S) /\ Len(SubSeq(s, 2, 2)) = 1 /\ SubSeq(s, 2, 2)[1] = y
  BY <1>2
<1>6. \A t \in Seq(S), e \in S : Len(t) = 1 /\ t[1] = e => t = <<e>>
  OBVIOUS
<1>7. SubSeq(s, 1, 1) = <<x>> /\ SubSeq(s, 2, 2) = <<y>>
  BY <1>4, <1>5, <1>6
<1>8. RemoveAt(s, 1) = <<y>>
  <2>1. RemoveAt(s, 1) = SubSeq(s, 1, 0) \o SubSeq(s, 2, 2)
    BY <1>2 DEF RemoveAt
  <2>2. <<>> \o <<y>> = <<y>>
    OBVIOUS
  <2> QED
    BY <1>3, <1>7, <2>1, <2>2
<1>9. RemoveAt(s, 2) = <<x>>
  <2>1. RemoveAt(s, 2) = SubSeq(s, 1, 1) \o SubSeq(s, 3, 2)
    BY <1>2 DEF RemoveAt
  <2>2. <<x>> \o <<>> = <<x>>
    OBVIOUS
  <2> QED
    BY <1>3, <1>7, <2>1, <2>2
<1>10. RemoveAt(<<x>>, 1) = <<>>
  BY DEF RemoveAt
<1> QED
  BY <1>1, <1>8, <1>9, <1>10

\* The four cases of an entry.
LEMMA Entries ==
  ASSUME NEW S, NEW a \in Seq(S), NEW i \in Nat
  PROVE  /\ i > Len(a) => Entry(a, i) = a
         /\ i <= Len(a) =>
              /\ a[i] = "encrypted" => Entry(a, i) = RemoveAt(a, i)
              /\ a[i] = "plain" => Entry(a, i) = <<"plain">>
              /\ a[i] = "error" => Entry(a, i) = a
<1>1. i <= Len(a) => ~(i > Len(a))
  OBVIOUS
<1> QED
  BY <1>1, Zenon DEF Entry

\* One entry, and the loop is over.
LEMMA OneEntry ==
  ASSUME NEW x \in ControlMessages
  PROVE  /\ x = "encrypted" => Entry(<<x>>, 1) = <<>>
         /\ x # "encrypted" => Entry(<<x>>, 1) = <<x>>
         /\ Entry(<<x>>, 2) = <<x>>
         /\ Entry(<<>>, 2) = <<>>
<1>1. /\ <<x>> \in Seq(ControlMessages) /\ Len(<<x>>) = 1 /\ <<x>>[1] = x
      /\ <<>> \in Seq(ControlMessages) /\ Len(<<>>) = 0
  OBVIOUS
<1>2. 1 \in Nat /\ 2 \in Nat /\ 1 <= 1 /\ 2 > 1 /\ 2 > 0
  OBVIOUS
<1>3. Entry(<<x>>, 2) = <<x>> /\ Entry(<<>>, 2) = <<>>
  BY <1>1, <1>2, Entries
<1>4. x \in {"encrypted", "plain", "error"}
  BY DEF ControlMessages
<1>5. /\ x = "encrypted" => Entry(<<x>>, 1) = RemoveAt(<<x>>, 1)
      /\ x = "plain" => Entry(<<x>>, 1) = <<"plain">>
      /\ x = "error" => Entry(<<x>>, 1) = <<x>>
  <2>1. PICK s : s = <<x>>
    OBVIOUS
  <2>2. s \in Seq(ControlMessages) /\ 1 \in Nat /\ 1 <= Len(s) /\ s[1] = x
    BY <1>1, <2>1
  <2> QED
    BY <2>1, <2>2, Entries
<1>6. x # "encrypted" => Entry(<<x>>, 1) = <<x>>
  BY <1>4, <1>5
<1> QED
  BY <1>3, <1>5, <1>6, Removed

\* Two entries: one of them is left.
LEMMA TwoEntries ==
  ASSUME NEW x \in ControlMessages, NEW y \in ControlMessages
  PROVE  Entry(Entry(<<x, y>>, 1), 2) # <<>>
<1>1. PICK s : s = <<x, y>>
  OBVIOUS
<1>2. /\ s \in Seq(ControlMessages) /\ Len(s) = 2 /\ s[1] = x /\ s[2] = y
      /\ s # <<>> /\ <<x>> # <<>> /\ <<y>> # <<>> /\ <<"plain">> # <<>>
  BY <1>1
<1>3. RemoveAt(s, 1) = <<y>> /\ RemoveAt(s, 2) = <<x>>
  BY <1>1, Removed
<1>4. 1 \in Nat /\ 2 \in Nat /\ 1 <= Len(s) /\ 2 <= Len(s)
  BY <1>2
<1>5. /\ x = "encrypted" => Entry(s, 1) = <<y>>
      /\ x = "plain" => Entry(s, 1) = <<x>>
      /\ x = "error" => Entry(s, 1) = s
  BY <1>2, <1>3, <1>4, Entries
<1>6. /\ y = "encrypted" => Entry(s, 2) = <<x>>
      /\ y = "plain" => Entry(s, 2) = <<"plain">>
      /\ y = "error" => Entry(s, 2) = s
  BY <1>2, <1>3, <1>4, Entries
<1>7. Entry(s, 2) # <<>>
  BY <1>2, <1>6 DEF ControlMessages
<1>8. Entry(<<x>>, 2) = <<x>> /\ Entry(<<y>>, 2) = <<y>>
  BY OneEntry
<1> QED
  BY <1>1, <1>2, <1>5, <1>7, <1>8 DEF ControlMessages

\* An answer is taken if its only control message says that it was encrypted.
LEMMA TakenIfEncrypted ==
  ASSUME NEW a \in SeqOf(ControlMessages, 2)
  PROVE  Taken(a) <=> a = <<"encrypted">>
<1>1. CASE a = <<>>
  BY <1>1 DEF Taken
<1>2. ASSUME NEW x \in ControlMessages, a = <<x>>
      PROVE  Taken(a) <=> a = <<"encrypted">>
  <2>1. a # <<>> /\ (a = <<"encrypted">> <=> x = "encrypted")
    BY <1>2
  <2>2. Entry(Entry(a, 1), 2) = <<>> <=> x = "encrypted"
    BY <1>2, <2>1, OneEntry
  <2> QED
    BY <2>1, <2>2 DEF Taken
<1>3. ASSUME NEW x \in ControlMessages, NEW y \in ControlMessages, a = <<x, y>>
      PROVE  Taken(a) <=> a = <<"encrypted">>
  <2>1. a # <<"encrypted">>
    BY <1>3
  <2> QED
    BY <1>3, <2>1, TwoEntries DEF Taken
<1> QED
  BY <1>1, <1>2, <1>3, UpToTwo

-----------------------------------------------------------------------------
(* What is confirmed *)

\* What is confirmed is what is stored.
LEMMA ConfirmedValue ==
  ASSUME TypeOK, description.kind = "download", Read(Reported(value)) = setting,
         Read(Reported(value)) # Raised
  PROVE  value = Packed(setting)
<1>1. Reported(value) = Attributes(value)
  BY DEF Reported
<1>2. value # None /\ Attributes(value) = <<AttributeName, value>>
  BY <1>1 DEF Read, Attributes
<1>3. FromAttributes(Attributes(value)) = value /\ Attributes(value) # <<>>
  BY <1>2 DEF FromAttributes
<1>4. Read(Attributes(value)) = UnpackDownload(value)
  BY <1>3 DEF Read, Unpacked
<1>5. \A x : Packed(x) = PackDownload(x)
  BY DEF Packed
<1>6. \A x \in Inputs(description) : x \in Downloads
  <2>1. \A x : Settable("download", x) => x \in Downloads
    BY Zenon DEF Settable
  <2>2. description \in Descriptions
    BY DEF TypeOK
  <2> QED
    BY <2>1, <2>2, InputAssumption
<1>7. \E f \in Downloads : value = PackDownload(f)
  BY <1>2, <1>5, <1>6, DownloadAssumption DEF TypeOK
<1> QED
  BY <1>1, <1>4, <1>5, <1>7, DownloadRoundTrip

-----------------------------------------------------------------------------
(* The requests *)

\* The description is fixed, and with it what is sent.
LEMMA SameMessages ==
  ASSUME UNCHANGED description
  PROVE  /\ \A x : Packed(x)' = Packed(x)
         /\ Messages' = Messages
         /\ \A x : x' = x => Reported(x)' = Reported(x)
  BY DEF Packed, Messages, SetMessage, Attributes, AttributeName, Reported

\* What is under way is a get, or a set of an input with its packed value.
LEMMA MessageTypes ==
  ASSUME NEW m \in Messages
  PROVE  /\ m.type \in {"set", "get"} /\ m.live \in BOOLEAN
         /\ m.type = "set" =>
              /\ ~m.live /\ m.meant \in Inputs(description)
              /\ m.value = Attributes(Packed(m.meant))
              /\ [m EXCEPT !.live = FALSE] = m
         /\ [m EXCEPT !.live = FALSE] \in Messages
         /\ ~[m EXCEPT !.live = FALSE].live /\ [m EXCEPT !.live = FALSE].type = m.type
<1>1. CASE m \in [type : {"get"}, live : BOOLEAN]
  BY <1>1 DEF Messages
<1>2. CASE \E x \in Inputs(description) : m = SetMessage(x)
  <2>1. PICK x \in Inputs(description) : m = SetMessage(x)
    BY <1>2
  <2>2. /\ m.type = "set" /\ m.live = FALSE /\ m.meant = x /\ m.value = Attributes(Packed(x))
        /\ [m EXCEPT !.live = FALSE] = m
    <3>1. PICK v : v = Attributes(Packed(x))
      OBVIOUS
    <3>2. m = [type |-> "set", value |-> v, meant |-> x, live |-> FALSE]
      BY <2>1, <3>1 DEF SetMessage
    <3>3. [m EXCEPT !.live = FALSE] = m
      <4>1. m \in [type : {"set"}, value : {v}, meant : {x}, live : {FALSE}]
        BY <3>2
      <4> QED
        BY ONLY <4>1
    <3> QED
      BY <3>1, <3>2, <3>3
  <2> QED
    BY <2>2
<1> QED
  BY <1>1, <1>2 DEF Messages

\* Closing the socket changes nothing of a request but .live.
LEMMA ClosedMessages ==
  ASSUME NEW q \in Seq(Messages)
  PROVE  /\ Closed(q) \in Seq(Messages) /\ Len(Closed(q)) = Len(q)
         /\ \A i \in 1..Len(q) : ~Closed(q)[i].live /\ Closed(q)[i].type = q[i].type
<1>1. DOMAIN q = 1..Len(q) /\ Len(q) \in Nat /\ \A i \in 1..Len(q) : q[i] \in Messages
  OBVIOUS
<1>2. \A i \in 1..Len(q) :
        /\ [q[i] EXCEPT !.live = FALSE] \in Messages
        /\ ~[q[i] EXCEPT !.live = FALSE].live
        /\ [q[i] EXCEPT !.live = FALSE].type = q[i].type
  BY <1>1, MessageTypes
<1>3. Closed(q) = [i \in 1..Len(q) |-> [q[i] EXCEPT !.live = FALSE]]
  BY <1>1 DEF Closed
<1>4. Closed(q) \in Seq(Messages) /\ Len(Closed(q)) = Len(q)
  BY <1>1, <1>2, <1>3
<1> QED
  BY <1>2, <1>3, <1>4

\* Nobody waits for what was sent when the socket is closed, ...
LEMMA CloseMessages ==
  ASSUME queue \in Seq(Messages), CloseSocket
  PROVE  /\ queue' \in Seq(Messages) /\ reply' = NoReply
         /\ \A i \in 1..Len(queue') : ~queue'[i].live
         /\ NothingSet => NothingSet'
<1>1. queue' = Closed(queue) /\ reply' = NoReply
  BY DEF CloseSocket
<1> QED
  BY <1>1, ClosedMessages DEF NothingSet

\* ... nor for any but the request that is sent.
LEMMA SendMessage ==
  ASSUME queue \in Seq(Messages), NEW m \in Messages, SendRequest(m)
  PROVE  /\ queue' \in Seq(Messages) /\ reply' = NoReply
         /\ \A i \in 1..Len(queue') : queue'[i].live => i = Len(queue') /\ queue'[i] = m
<1>1. /\ Closed(queue) \in Seq(Messages)
      /\ Len(Closed(queue)) = Len(queue) /\ Len(queue) \in Nat
      /\ \A i \in 1..Len(queue) : ~Closed(queue)[i].live
  BY ClosedMessages
<1>2. CASE queue' = Closed(queue)
  BY <1>1, <1>2 DEF SendRequest
<1>3. CASE queue' = Append(Closed(queue), m)
  <2>1. /\ queue' \in Seq(Messages) /\ Len(queue') = Len(queue) + 1
        /\ \A i \in 1..Len(queue) : queue'[i] = Closed(queue)[i]
        /\ queue'[Len(queue')] = m
    BY <1>1, <1>3
  <2>2. \A i \in 1..Len(queue') : i \in 1..Len(queue) \/ i = Len(queue')
    BY <1>1, <2>1
  <2> QED
    BY <1>1, <2>1, <2>2 DEF SendRequest
<1> QED
  BY <1>2, <1>3 DEF SendRequest

\* A copy in front of the others.
LEMMA CopyInFront ==
  ASSUME NEW S, NEW c \in S, NEW t \in Seq(S)
  PROVE  /\ <<c>> \o t \in Seq(S) /\ Len(<<c>> \o t) = Len(t) + 1
         /\ (<<c>> \o t)[1] = c
         /\ \A i \in 2..Len(<<c>> \o t) : (<<c>> \o t)[i] = t[i - 1]
  OBVIOUS

\* The device takes the request at the head.
LEMMA TakeMessage ==
  ASSUME queue \in Seq(Messages), LastGet, queue # <<>>, TakeIncoming
  PROVE  /\ queue' \in Seq(Messages)
         /\ Head(queue) = queue[1] /\ 1 \in 1..Len(queue) /\ Head(queue) \in Messages
         /\ Head(queue).live => Len(queue) = 1
         /\ \A i \in 1..Len(queue') :
              /\ queue'[i].live => i = Len(queue') /\ Len(queue) > 1 /\ queue'[i] = queue[Len(queue)]
              /\ \E j \in 1..Len(queue) : queue'[i].type = queue[j].type
<1>1. /\ Len(queue) \in Nat \ {0} /\ 1 \in 1..Len(queue)
      /\ Head(queue) = queue[1] /\ Head(queue) \in Messages
      /\ Tail(queue) \in Seq(Messages) /\ Len(Tail(queue)) = Len(queue) - 1
      /\ \A i \in 1..Len(queue) - 1 : Tail(queue)[i] = queue[i + 1]
  OBVIOUS
<1>2. Head(queue).live => Len(queue) = 1
  BY <1>1 DEF LastGet
<1>3. CASE queue' = Tail(queue)
  <2>1. /\ Len(queue') = Len(queue) - 1 /\ queue' \in Seq(Messages)
        /\ \A i \in 1..Len(queue') : i + 1 \in 1..Len(queue) /\ queue'[i] = queue[i + 1]
    BY <1>1, <1>3
  <2>2. ASSUME NEW i \in 1..Len(queue'), queue[i + 1].live
        PROVE  i = Len(queue') /\ Len(queue) > 1 /\ queue[i + 1] = queue[Len(queue)]
    <3>1. i + 1 \in 1..Len(queue)
      BY <2>1
    <3>2. i + 1 = Len(queue)
      BY <2>2, <3>1 DEF LastGet
    <3>3. Len(queue) \in Nat /\ Len(queue') = Len(queue) - 1
      BY <1>1, <2>1
    <3> QED
      BY <3>2, <3>3
  <2> QED
    BY <1>1, <1>2, <2>1, <2>2
<1>4. CASE queue' = <<[Head(queue) EXCEPT !.live = FALSE]>> \o Tail(queue)
  <2>1. PICK c : c = [Head(queue) EXCEPT !.live = FALSE]
    OBVIOUS
  <2>2. c \in Messages /\ ~c.live /\ c.type = queue[1].type
    BY <1>1, <2>1, MessageTypes
  <2>3. PICK t : t = Tail(queue)
    OBVIOUS
  <2>4. PICK q : q = queue'
    OBVIOUS
  <2>5. /\ q \in Seq(Messages) /\ Len(q) = Len(t) + 1 /\ q[1] = c
        /\ \A i \in 2..Len(q) : q[i] = t[i - 1]
    <3>1. q = <<c>> \o t
      BY <1>4, <2>1, <2>3, <2>4
    <3>2. t \in Seq(Messages) /\ c \in Messages
      BY <1>1, <2>2, <2>3
    <3> QED
      BY <3>1, <3>2, CopyInFront
  <2>6. Len(q) = Len(queue)
    BY <1>1, <2>3, <2>5
  <2>7. ASSUME NEW i \in 2..Len(q)
        PROVE  i \in 1..Len(queue) /\ q[i] = queue[i]
    <3>1. i - 1 \in 1..Len(queue) - 1 /\ (i - 1) + 1 = i /\ i \in 1..Len(queue)
      BY <1>1, <2>6
    <3>2. t[i - 1] = queue[(i - 1) + 1]
      BY <1>1, <2>3, <3>1
    <3> QED
      BY <2>5, <3>1, <3>2
  <2>8. \A i \in 1..Len(q) : i = 1 \/ i \in 2..Len(q)
    BY <1>1, <2>6
  <2>9. ASSUME NEW i \in 1..Len(q)
        PROVE  /\ q[i].live => i = Len(q) /\ Len(queue) > 1 /\ q[i] = queue[Len(queue)]
               /\ \E j \in 1..Len(queue) : q[i].type = queue[j].type
    <3>1. CASE i = 1
      BY <1>1, <2>2, <2>5, <3>1
    <3>2. CASE i \in 2..Len(q)
      <4>1. i \in 1..Len(queue) /\ q[i] = queue[i]
        BY <2>7, <3>2
      <4>2. queue[i].live => i = Len(queue)
        BY <4>1 DEF LastGet
      <4>3. Len(queue) \in Nat /\ Len(q) = Len(queue) /\ i > 1
        BY <1>1, <2>6, <3>2
      <4> QED
        BY <4>1, <4>2, <4>3
    <3> QED
      BY <2>8, <3>1, <3>2
  <2> QED
    BY <1>1, <1>2, <2>4, <2>5, <2>9
<1> QED
  BY <1>3, <1>4 DEF TakeIncoming

-----------------------------------------------------------------------------
(* The steps of the program *)

\* The program changes nothing of the device.
LEMMA ProgramTypes ==
  ASSUME TypeOK, UNCHANGED <<description, value, meant>>,
         at' \in Places, setting' \in Inputs(description) \cup {None},
         attempt' \in 0..MAX_TRIES, tries' \in 0..MAX_TRIES,
         queue' \in Seq(Messages)
  PROVE  TypeOK'
<1>1. Messages' = Messages /\ Packed(meant)' = Packed(meant)
  BY SameMessages
<1> QED
  BY <1>1 DEF TypeOK

\* The property is assigned, or data_download_int is set (once more).
LEMMA SetStep ==
  ASSUME AccessInv, SetProperty \/ StartConfirm \/ SetDataAgain
  PROVE  AccessInv'
<1>1. /\ TypeOK /\ LoopInv /\ queue \in Seq(Messages)
      /\ MAX_TRIES \in Nat \ {0} /\ attempt \in 0..MAX_TRIES
  BY TriesAssumption DEF AccessInv, TypeOK
<1>2. PICK x \in Inputs(description) :
        /\ SendSet(x) /\ UNCHANGED <<description, value, meant>>
        /\ \/ at = "idle" /\ UNCHANGED <<at, setting, attempt, tries>>
           \/ /\ description.kind = "download" /\ at' = "set" /\ setting' = x /\ tries' = 0
              /\ attempt' \in 0..MAX_TRIES
  <2>1. CASE SetProperty
    BY <2>1 DEF SetProperty
  <2>2. CASE StartConfirm
    <3>1. 1 \in 0..MAX_TRIES
      BY <1>1
    <3> QED
      BY <2>2, <3>1 DEF StartConfirm, SetData
  <2>3. CASE SetDataAgain
    <3>1. attempt + 1 \in 0..MAX_TRIES
      BY <1>1, <2>3 DEF SetDataAgain
    <3>2. description.kind = "download" /\ setting \in Inputs(description)
      BY <1>1, <2>3 DEF SetDataAgain, Differs, Answered, LoopInv
    <3> QED
      BY <2>3, <3>1, <3>2 DEF SetDataAgain, SetData
  <2> QED
    BY <2>1, <2>2, <2>3
<1>3. SetMessage(x) \in Messages /\ SetMessage(x).live = FALSE
  BY DEF Messages, SetMessage
<1>4. /\ queue' \in Seq(Messages) /\ reply' = NoReply
      /\ \A i \in 1..Len(queue') : ~queue'[i].live
  BY <1>1, <1>2, <1>3, SendMessage DEF SendSet
<1>5. TypeOK'
  <2>1. /\ at' \in Places /\ setting' \in Inputs(description) \cup {None}
        /\ attempt' \in 0..MAX_TRIES /\ tries' \in 0..MAX_TRIES
    BY <1>1, <1>2 DEF TypeOK, Places
  <2> QED
    BY <1>1, <1>2, <1>4, <2>1, ProgramTypes
<1>6. LoopInv'
  BY <1>1, <1>2 DEF LoopInv
<1>7. LastGet' /\ ConfirmInv'
  BY <1>2, <1>4 DEF LastGet, ConfirmInv
<1> QED
  BY <1>5, <1>6, <1>7 DEF AccessInv

\* A get is sent.
LEMMA GetStep ==
  ASSUME AccessInv, GetProperty \/ GetData
  PROVE  AccessInv'
<1>1. /\ TypeOK /\ LoopInv /\ queue \in Seq(Messages)
      /\ MAX_TRIES \in Nat \ {0} /\ tries \in 0..MAX_TRIES
  BY TriesAssumption DEF AccessInv, TypeOK
<1>2. /\ SendGet /\ UNCHANGED <<description, value, meant, setting, attempt>>
      /\ \/ at' = "get" /\ UNCHANGED tries /\ at = "idle"
         \/ at' = "confirm" /\ tries' = tries + 1 /\ at \in {"set", "confirm"}
              /\ (at = "confirm" => tries < MAX_TRIES)
  BY DEF GetProperty, GetData, Unanswered
<1>3. tries' \in 0..MAX_TRIES
  BY <1>1, <1>2 DEF LoopInv
<1>4. PICK m : m = [type |-> "get", live |-> TRUE]
  OBVIOUS
<1>5. m \in Messages /\ m.type = "get"
  BY <1>4 DEF Messages
<1>6. /\ queue' \in Seq(Messages) /\ reply' = NoReply
      /\ \A i \in 1..Len(queue') : queue'[i].live => i = Len(queue') /\ queue'[i] = m
  BY <1>1, <1>2, <1>4, <1>5, SendMessage DEF SendGet
<1>7. TypeOK'
  <2>1. /\ at' \in Places /\ setting' \in Inputs(description) \cup {None}
        /\ attempt' \in 0..MAX_TRIES
    BY <1>1, <1>2 DEF TypeOK, Places
  <2> QED
    BY <1>1, <1>2, <1>3, <1>6, <2>1, ProgramTypes
<1>8. LoopInv'
  BY <1>1, <1>2 DEF LoopInv
<1>9. LastGet' /\ ConfirmInv'
  BY <1>2, <1>5, <1>6 DEF LastGet, ConfirmInv
<1> QED
  BY <1>7, <1>8, <1>9 DEF AccessInv

\* The program goes on, or is over.
LEMMA CloseStep ==
  ASSUME AccessInv, GetEnds \/ Confirmed \/ GiveUp
  PROVE  AccessInv'
<1>1. /\ TypeOK /\ LoopInv /\ ConfirmInv /\ queue \in Seq(Messages)
      /\ MAX_TRIES \in Nat \ {0} /\ tries \in 0..MAX_TRIES
  BY TriesAssumption DEF AccessInv, TypeOK
<1>2. /\ CloseSocket /\ UNCHANGED <<description, value, meant>>
      /\ at' \in {"idle", "confirmed"} /\ setting' \in {setting, None}
      /\ attempt' \in {attempt, 0}
      /\ tries' = 0 \/ (UNCHANGED tries /\ at = "get")
  BY DEF GetEnds, Confirmed, GiveUp
<1>3. /\ queue' \in Seq(Messages) /\ reply' = NoReply
      /\ \A i \in 1..Len(queue') : ~queue'[i].live
      /\ NothingSet => NothingSet'
  BY <1>1, <1>2, CloseMessages
<1>4. TypeOK'
  <2>1. /\ at' \in Places /\ setting' \in Inputs(description) \cup {None}
        /\ attempt' \in 0..MAX_TRIES /\ tries' \in 0..MAX_TRIES
    BY <1>1, <1>2 DEF TypeOK, Places
  <2> QED
    BY <1>1, <1>2, <1>3, <2>1, ProgramTypes
<1>5. at' = "confirmed" => Confirmed
  BY DEF GetEnds, Confirmed, GiveUp
<1>6. ASSUME Confirmed
      PROVE  /\ description.kind = "download" /\ setting \in Inputs(description)
             /\ setting' = setting /\ NothingSet /\ value = Packed(setting)
  <2>1. /\ at = "confirm" /\ reply # NoReply /\ setting' = setting
        /\ Read(reply.value) # Raised /\ Read(reply.value) = setting
    BY <1>6 DEF Confirmed, Confirms, Answered
  <2>2. description.kind = "download" /\ setting \in Inputs(description)
    BY <1>1, <2>1 DEF LoopInv
  <2>3. NothingSet /\ reply.value = Reported(value)
    BY <1>1, <2>1 DEF ConfirmInv
  <2>4. value = Packed(setting)
    BY <1>1, <2>1, <2>2, <2>3, ConfirmedValue
  <2> QED
    BY <2>1, <2>2, <2>3, <2>4
<1>7. LoopInv'
  BY <1>1, <1>2, <1>5, <1>6 DEF LoopInv
<1>8. ConfirmInv'
  <2>1. \A x : Packed(x)' = Packed(x)
    BY <1>2, SameMessages
  <2> QED
    BY <1>2, <1>3, <1>5, <1>6, <2>1 DEF ConfirmInv
<1>9. LastGet'
  BY <1>3 DEF LastGet
<1> QED
  BY <1>4, <1>7, <1>8, <1>9 DEF AccessInv

-----------------------------------------------------------------------------
(* The steps of the device *)

\* What remains under way.
LEMMA TakeStep ==
  ASSUME AccessInv, queue # <<>>, TakeIncoming, UNCHANGED <<description, programVars>>,
         \/ UNCHANGED reply
         \/ Head(queue).live
  PROVE  /\ queue' \in Seq(Messages)
         /\ LoopInv' /\ LastGet'
         /\ NothingSet => NothingSet'
<1>1. queue \in Seq(Messages) /\ LoopInv /\ LastGet /\ Len(queue) \in Nat
  BY DEF AccessInv, TypeOK
<1>2. /\ queue' \in Seq(Messages)
      /\ Head(queue).live => Len(queue) = 1
      /\ \A i \in 1..Len(queue') :
           /\ queue'[i].live => i = Len(queue') /\ Len(queue) > 1 /\ queue'[i] = queue[Len(queue)]
           /\ \E j \in 1..Len(queue) : queue'[i].type = queue[j].type
  BY <1>1, TakeMessage
<1>3. LoopInv'
  BY <1>1 DEF LoopInv
<1>4. LastGet'
  <2>1. Len(queue) \in Nat
    BY <1>1
  <2>2. Len(queue) > 1 => Len(queue) \in 1..Len(queue)
    BY <2>1
  <2>3. Head(queue).live => Len(queue) = 1
    BY <1>2, Zenon
  <2>4. Len(queue) = 1 => ~(Len(queue) > 1)
    BY <2>1
  <2>5. Len(queue) > 1 => ~Head(queue).live
    BY <2>3, <2>4, Zenon
  <2> QED
    BY <1>1, <1>2, <2>2, <2>5 DEF LastGet
<1>5. NothingSet => NothingSet'
  BY <1>2 DEF NothingSet
<1> QED
  BY <1>2, <1>3, <1>4, <1>5

\* A set arrives: no answer has been waiting for it, and nothing was confirmed.
LEMMA HandleSetStep ==
  ASSUME AccessInv, HandleSet
  PROVE  AccessInv'
<1>1. TypeOK /\ ConfirmInv /\ queue \in Seq(Messages) /\ LastGet
  BY DEF AccessInv, TypeOK
<1>2. /\ queue # <<>> /\ Head(queue).type = "set" /\ TakeIncoming
      /\ UNCHANGED <<reply, description, programVars>>
      /\ value' = FromAttributes(Head(queue).value) /\ meant' = Head(queue).meant
  BY DEF HandleSet, Incoming, Ignore
<1>3. Head(queue) = queue[1] /\ 1 \in 1..Len(queue) /\ Head(queue) \in Messages
  BY <1>1, <1>2, TakeMessage
<1>4. /\ queue' \in Seq(Messages) /\ LoopInv' /\ LastGet'
  BY <1>2, TakeStep
<1>5. meant' \in Inputs(description) /\ value' = Packed(meant')
  <2>1. PICK x : x = Head(queue).meant
    OBVIOUS
  <2>2. x \in Inputs(description) /\ Head(queue).value = Attributes(Packed(x))
    BY <1>2, <1>3, <2>1, MessageTypes
  <2>3. \A y : FromAttributes(Attributes(y)) = y
    BY DEF FromAttributes, Attributes
  <2> QED
    BY <1>2, <2>1, <2>2, <2>3
<1>6. TypeOK'
  <2>1. Messages' = Messages /\ \A x : Packed(x)' = Packed(x)
    BY <1>2, SameMessages
  <2>2. PICK x : x = meant'
    OBVIOUS
  <2>3. Packed(meant)' = Packed(x)
    BY <2>1, <2>2, <1>2 DEF Packed
  <2> QED
    BY <1>1, <1>2, <1>4, <1>5, <2>1, <2>2, <2>3 DEF TypeOK
<1>7. ~NothingSet
  BY <1>2, <1>3 DEF NothingSet
<1>8. ConfirmInv'
  BY <1>1, <1>2, <1>7 DEF ConfirmInv
<1> QED
  BY <1>4, <1>6, <1>8 DEF AccessInv

\* A get is answered, to the program or to nobody, or the handler raises.
LEMMA HandleGetStep ==
  ASSUME AccessInv, HandleGet \/ HandleGetFails
  PROVE  AccessInv'
<1>1. TypeOK /\ ConfirmInv /\ LoopInv /\ queue \in Seq(Messages) /\ LastGet
  BY DEF AccessInv, TypeOK
<1>2. /\ queue # <<>> /\ Head(queue).type = "get" /\ TakeIncoming
      /\ UNCHANGED <<description, value, meant, programVars>>
      /\ \/ UNCHANGED reply
         \/ Head(queue).live /\ reply'.value = Reported(value)
  BY DEF HandleGet, HandleGetFails, Incoming, Ignore, Respond
<1>3. /\ Head(queue) = queue[1] /\ 1 \in 1..Len(queue)
      /\ Head(queue).live => Len(queue) = 1
  BY <1>1, <1>2, TakeMessage
<1>4. queue' \in Seq(Messages) /\ LoopInv' /\ LastGet' /\ (NothingSet => NothingSet')
  BY <1>2, TakeStep
<1>5. Messages' = Messages /\ (\A x : Packed(x)' = Packed(x))
      /\ Reported(value)' = Reported(value)
  BY <1>2, SameMessages
<1>6. TypeOK'
  BY <1>1, <1>2, <1>4, ProgramTypes DEF TypeOK
<1>7. Head(queue).live => NothingSet
  BY <1>2, <1>3 DEF NothingSet
<1>8. ConfirmInv'
  BY <1>1, <1>2, <1>4, <1>5, <1>7 DEF ConfirmInv
<1> QED
  BY <1>4, <1>6, <1>8 DEF AccessInv

-----------------------------------------------------------------------------
(* What the description allows *)

\* Division by a positive number, of numbers on either side of zero.
LEMMA Division ==
  ASSUME NEW x \in Int, NEW n \in Nat \ {0}
  PROVE  \E k \in Int, r \in Nat : k = x \div n /\ r = x % n /\ x = n * k + r /\ r < n
  OBVIOUS

\* Products grow with a factor.
LEMMA Grows ==
  ASSUME NEW n \in Nat, NEW a \in Int, NEW b \in Int, a <= b
  PROVE  n * a <= n * b /\ n * a \in Int /\ n * b \in Int
  OBVIOUS

\* A quotient grows with the number that is divided.
LEMMA DivisionInOrder ==
  ASSUME NEW a \in Int, NEW b \in Int, a <= b, NEW n \in Nat \ {0}
  PROVE  a \div n <= b \div n /\ a \div n \in Int /\ b \div n \in Int
<1>1. PICK k \in Int, r \in Nat : k = a \div n /\ a = n * k + r /\ r < n
  BY Division
<1>2. PICK l \in Int, q \in Nat : l = b \div n /\ b = n * l + q /\ q < n
  BY Division
<1>3. SUFFICES ASSUME l + 1 <= k PROVE FALSE
  BY <1>1, <1>2
<1>4. n * (l + 1) <= n * k
  BY <1>3, Grows
<1>5. n * (l + 1) = n * l + n /\ n * l \in Int /\ n * k \in Int
  OBVIOUS
<1> QED
  BY <1>1, <1>2, <1>4, <1>5

\* A number is rounded to a multiple of Quantum, by half of it at most.
LEMMA Rounds ==
  ASSUME NEW x \in Int
  PROVE  /\ Round(x) \in Int
         /\ \E j \in Int : Round(x) = Quantum * j /\ 2 * (Round(x) - x) <= Quantum /\ 2 * (x - Round(x)) <= Quantum
<1>1. Quantum \in Nat \ {0}
  BY UnitsAssumption
<1>2. PICK k \in Int, r \in Nat : k = x \div Quantum /\ r = x % Quantum /\ x = Quantum * k + r /\ r < Quantum
  BY <1>1, Division
<1>3. Quantum * (k + 1) = Quantum * k + Quantum /\ Quantum * k \in Int
  BY <1>1
<1>4. CASE 2 * r < Quantum \/ (2 * r = Quantum /\ k % 2 = 0)
  <2>1. Round(x) = Quantum * k
    BY <1>2, <1>4 DEF Round
  <2>2. 2 * (Quantum * k - x) <= Quantum /\ 2 * (x - Quantum * k) <= Quantum
    BY <1>1, <1>2, <1>3, <1>4
  <2> QED
    BY <1>3, <2>1, <2>2
<1>5. CASE ~(2 * r < Quantum \/ (2 * r = Quantum /\ k % 2 = 0))
  <2>1. Round(x) = Quantum * (k + 1)
    BY <1>2, <1>5 DEF Round
  <2>2. 2 * (Quantum * (k + 1) - x) <= Quantum /\ 2 * (x - Quantum * (k + 1)) <= Quantum
    BY <1>1, <1>2, <1>3, <1>5
  <2>3. k + 1 \in Int /\ Quantum * (k + 1) \in Int
    BY <1>1, <1>3
  <2> QED
    BY <2>1, <2>2, <2>3
<1> QED
  BY <1>4, <1>5

\* Rounding keeps the order.
LEMMA RoundsInOrder ==
  ASSUME NEW x \in Int, NEW y \in Int, x <= y
  PROVE  Round(x) <= Round(y)
<1>1. Quantum \in Nat \ {0}
  BY UnitsAssumption
<1>2. PICK k \in Int, r \in Nat : k = x \div Quantum /\ r = x % Quantum /\ x = Quantum * k + r /\ r < Quantum
  BY <1>1, Division
<1>3. PICK l \in Int, q \in Nat : l = y \div Quantum /\ q = y % Quantum /\ y = Quantum * l + q /\ q < Quantum
  BY <1>1, Division
<1>4. Round(x) \in {Quantum * k, Quantum * (k + 1)} /\ Round(y) \in {Quantum * l, Quantum * (l + 1)}
  BY <1>2, <1>3 DEF Round
<1>5. Quantum * (k + 1) = Quantum * k + Quantum /\ Quantum * k \in Int
  BY <1>1
<1>6. Quantum * (l + 1) = Quantum * l + Quantum /\ Quantum * l \in Int
  BY <1>1
<1>7. CASE k = l
  <2>1. r <= q
    BY <1>2, <1>3, <1>6, <1>7
  <2> QED
    BY <1>1, <1>2, <1>3, <1>5, <1>7, <2>1 DEF Round
<1>8. CASE k < l
  <2>1. k + 1 <= l
    BY <1>8
  <2>2. Quantum * (k + 1) <= Quantum * l
    BY <1>1, <2>1, Grows
  <2> QED
    BY <1>1, <1>4, <1>5, <1>6, <2>2
<1>9. CASE l < k
  <2>1. l + 1 <= k
    BY <1>9
  <2>2. Quantum * (l + 1) <= Quantum * k
    BY <1>1, <2>1, Grows
  <2> QED
    BY <1>1, <1>2, <1>3, <1>5, <1>6, <2>2
<1> QED
  BY <1>7, <1>8, <1>9

\* What passes the check is a multiple of the step when it is rounded, and it
\* is as close to one as Slack says.
LEMMA StepChecked ==
  ASSUME NEW x \in Int, NEW min \in Int, NEW step \in Int, min <= x,
         0 < Round(step), CheckStep(x, min, step)
  PROVE  \E k \in 0..((Round(x - min) \div Round(step)) + 1) :
           2 * One * Distance(x, min + k * Round(step)) <= Quantum * (One + Slack(Round(step)))
<1>1. Quantum \in Nat \ {0} /\ One \in Nat \ {0} /\ One % Quantum = 0
  BY UnitsAssumption
<1>2. PICK m \in Nat : m = One \div Quantum /\ One = Quantum * m
  <2>1. One \in Int
    BY <1>1
  <2>2. PICK k \in Int, r \in Nat : k = One \div Quantum /\ r = One % Quantum /\ One = Quantum * k + r /\ r < Quantum
    BY <1>1, <2>1, Division
  <2>3. One = Quantum * k
    BY <1>1, <2>2
  <2>4. k >= 0
    <3>1. SUFFICES ASSUME k <= -1 PROVE FALSE
      OBVIOUS
    <3>2. Quantum * k <= Quantum * (-1)
      BY <1>1, <3>1, Grows
    <3> QED
      BY <1>1, <2>3, <3>2
  <2> QED
    BY <2>2, <2>3, <2>4
<1>3. PICK off, s : off = Round(x - min) /\ s = Round(step)
  OBVIOUS
<1>4. PICK j \in Int : off = Quantum * j
  <2>1. x - min \in Int
    OBVIOUS
  <2> QED
    BY <1>3, <2>1, Rounds
<1>5. PICK t \in Int : s = Quantum * t
  BY <1>3, Rounds
<1>6. off \in Nat
  <2>1. x - min \in Int /\ 0 <= x - min
    OBVIOUS
  <2>2. Round(0) <= off
    BY <1>3, <2>1, RoundsInOrder
  <2>3. Round(0) = 0
    BY <1>1 DEF Round
  <2>4. off \in Int
    BY <1>1, <1>4
  <2> QED
    BY <2>2, <2>3, <2>4
<1>7. s \in Nat \ {0}
  BY <1>1, <1>3, <1>5
<1>8. PICK k \in Int, r \in Nat : k = off \div s /\ r = off % s /\ off = s * k + r /\ r < s
  <2>1. off \in Int
    BY <1>6
  <2> QED
    BY <1>7, <2>1, Division
<1>9. 2 * r * m <= s \/ 2 * (s - r) * m <= s
  <2>1. off - s * k = r /\ s * k + s - off = s - r
    BY <1>6, <1>7, <1>8
  <2> QED
    BY <1>2, <1>3, <1>8, <2>1 DEF CheckStep
<1>10. PICK u \in Int : u = j - t * k /\ r = Quantum * u
  <2>1. (Quantum * t) * k = Quantum * (t * k) /\ t * k \in Int
    BY <1>1
  <2>2. Quantum * (j - t * k) = Quantum * j - Quantum * (t * k)
    BY <1>1, <2>1
  <2> QED
    BY <1>4, <1>5, <1>8, <2>1, <2>2
<1>11. ASSUME NEW w \in Int, NEW d \in Nat, d = Quantum * w, 2 * d * m <= s, s < 2 * One
       PROVE  d = 0
  <2>1. SUFFICES ASSUME d > 0 PROVE FALSE
    BY <1>11
  <2>2. w >= 1
    <3>1. SUFFICES ASSUME w <= 0 PROVE FALSE
      OBVIOUS
    <3>2. Quantum * w <= Quantum * 0
      BY <1>1, <3>1, Grows
    <3> QED
      BY <1>1, <1>11, <2>1, <3>2
  <2>3. Quantum * 1 <= Quantum * w
    BY <1>1, <2>2, Grows
  <2>4. Quantum <= d
    BY <1>1, <1>11, <2>3
  <2>5. m * Quantum <= m * d
    BY <1>1, <1>2, <2>4, Grows
  <2>6. 2 * d * m = 2 * (m * d) /\ Quantum * m = m * Quantum
    BY <1>1, <1>2
  <2> QED
    BY <1>1, <1>2, <1>7, <1>11, <2>5, <2>6
<1>12. ASSUME NEW w \in Int, NEW d \in Nat, d = Quantum * w, 2 * d * m <= s
       PROVE  2 * One * d <= Quantum * Slack(s)
  <2>1. CASE s < 2 * One
    <3>1. d = 0
      BY <1>11, <1>12, <2>1
    <3> QED
      BY <1>1, <2>1, <3>1 DEF Slack
  <2>2. CASE ~(s < 2 * One)
    <3>1. Quantum * (2 * d * m) <= Quantum * s
      BY <1>1, <1>2, <1>7, <1>12, Grows
    <3>2. 2 * (Quantum * m) * d = Quantum * (2 * d * m)
      BY <1>1, <1>2
    <3> QED
      BY <1>2, <2>2, <3>1, <3>2 DEF Slack
  <2> QED
    BY <2>1, <2>2
<1>13. k >= 0
  <2>1. SUFFICES ASSUME k <= -1 PROVE FALSE
    OBVIOUS
  <2>2. s * k <= s * (-1)
    BY <1>7, <2>1, Grows
  <2> QED
    BY <1>6, <1>7, <1>8, <2>2
<1>14. ASSUME NEW n \in Int, NEW w \in Int, NEW d \in Nat, d = Quantum * w, 2 * d * m <= s,
              off - n = d \/ n - off = d
       PROVE  2 * One * Distance(x, min + n) <= Quantum * (One + Slack(s))
  <2>1. 2 * One * d <= Quantum * Slack(s) /\ Slack(s) \in Nat
    BY <1>1, <1>7, <1>12, <1>14 DEF Slack
  <2>2. x - min \in Int
    OBVIOUS
  <2>3. 2 * (off - (x - min)) <= Quantum /\ 2 * ((x - min) - off) <= Quantum
    BY <1>3, <2>2, Rounds
  <2>4. PICK g : g = Distance(x, min + n)
    OBVIOUS
  <2>5. g \in Nat /\ 2 * g <= Quantum + 2 * d
    BY <1>1, <1>6, <1>14, <2>3, <2>4 DEF Distance
  <2>6. One * (2 * g) <= One * (Quantum + 2 * d)
    BY <1>1, <2>5, Grows
  <2>7. One * (2 * g) = 2 * One * g /\ One * (Quantum + 2 * d) = Quantum * One + 2 * One * d
    BY <1>1, <2>5
  <2>8. Quantum * (One + Slack(s)) = Quantum * One + Quantum * Slack(s)
    BY <1>1, <2>1
  <2>9. PICK a, b, c, e, f : a = 2 * One * g /\ b = Quantum * One /\ c = 2 * One * d /\ e = Quantum * Slack(s)
                             /\ f = Quantum * (One + Slack(s))
    OBVIOUS
  <2>10. a <= b + c /\ c <= e /\ f = b + e /\ a \in Int /\ b \in Int /\ c \in Int /\ e \in Int
    BY <1>1, <2>1, <2>5, <2>6, <2>7, <2>8, <2>9
  <2> QED
    BY <2>4, <2>9, <2>10
<1>15. PICK z : z = Slack(s)
  OBVIOUS
<1>16. k \in 0..k + 1 /\ k + 1 \in 0..k + 1
  BY <1>13
<1>17. CASE 2 * r * m <= s
  <2>1. off - k * s = r /\ k * s \in Int
    BY <1>6, <1>7, <1>8
  <2>2. 2 * One * Distance(x, min + k * s) <= Quantum * (One + Slack(s))
    BY <1>10, <1>14, <1>17, <2>1
  <2> QED
    BY <1>3, <1>8, <1>16, <2>2
<1>18. CASE 2 * (s - r) * m <= s
  <2>1. s - r = Quantum * (t - u) /\ t - u \in Int /\ s - r \in Nat
    BY <1>1, <1>5, <1>7, <1>8, <1>10
  <2>2. (k + 1) * s - off = s - r /\ (k + 1) * s \in Int
    BY <1>6, <1>7, <1>8
  <2>3. 2 * One * Distance(x, min + (k + 1) * s) <= Quantum * (One + Slack(s))
    BY <1>14, <1>18, <2>1, <2>2
  <2> QED
    BY <1>3, <1>8, <1>16, <2>3
<1> QED
  BY <1>9, <1>17, <1>18

\* The setter, and upload.py, which sets a data_download_int without it.
Admitted(x) == Accepted(x) \/ description.kind = "download"

\* What is let through fits the description.
LEMMA AdmittedFits ==
  ASSUME description \in Descriptions, NEW x \in Inputs(description), Admitted(x)
  PROVE  Fits(description, Packed(x))
<1> DEFINE d == description
<1>1. CASE Packed(x) = None \/ d.kind \in OwnDescriptions \cup {"timezone"}
  BY <1>1 DEF Fits, OwnDescriptions
<1>2. CASE Packed(x) # None /\ d.kind = "number"
  <2>1. PICK min, max, step : min = d.min /\ max = d.max /\ step = d.step
    OBVIOUS
  <2>2. /\ min \in Int \cup {None} /\ max \in Int \cup {None} /\ step \in Int \cup {None}
        /\ step # None => Round(step) > 0
    <3>1. {d.min, d.max, d.step} \subseteq Int \cup {None}
      BY <1>2, LimitsAssumption
    <3> QED
      BY <1>2, <2>1, <3>1, StepAssumption
  <2>3. Packed(x) = x /\ Within(Limits(d), x) /\ (x = NaN \/ x \in Int)
    <3>1. x = NaN \/ x \in Int
      BY <1>2, InputAssumption DEF Settable
    <3> QED
      BY <1>2, <3>1 DEF Packed, Admitted, Accepted, Valid
  <2>4. ASSUME min # None, max # None, min <= max
        PROVE  x = NaN \/ x \in min..max
    <3>1. Limits(d).min = min /\ Limits(d).max = max
      BY <2>1, <2>2, <2>4 DEF Limits
    <3> QED
      BY <2>2, <2>3, <2>4, <3>1 DEF Within
  <2>5. ASSUME Complete(d)
        PROVE  /\ x # NaN
               /\ \E n \in Multiples(d) : 2 * One * Distance(x, n) <= Quantum * (One + Slack(Round(d.step)))
    <3>1. /\ min \in Int /\ max \in Int /\ step \in Int /\ Limits(d).step # None
          /\ min # None /\ max # None /\ step # None
      BY <2>1, <2>2, <2>5 DEF Complete
    <3>2. min <= max /\ Limits(d) = [min |-> min, max |-> max, step |-> step]
      BY <2>1, <2>2, <3>1 DEF Limits
    <3>3. x # NaN /\ x \in Int /\ min <= x /\ x <= max /\ CheckStep(x, min, step)
      BY <2>2, <2>3, <3>1, <3>2 DEF Within
    <3>4. PICK k \in 0..((Round(x - min) \div Round(step)) + 1) :
            2 * One * Distance(x, min + k * Round(step)) <= Quantum * (One + Slack(Round(step)))
      BY <2>2, <3>1, <3>3, StepChecked
    <3>5. k \in 0..((Round(max - min) \div Round(step)) + 1)
      <4>1. x - min \in Int /\ max - min \in Int /\ x - min <= max - min
        BY <3>1, <3>3
      <4>2. PICK a, b, s : a = Round(x - min) /\ b = Round(max - min) /\ s = Round(step)
        OBVIOUS
      <4>3. a <= b
        BY <4>1, <4>2, RoundsInOrder
      <4>4. a \in Int /\ b \in Int /\ s \in Nat \ {0}
        <5>1. a \in Int /\ b \in Int /\ s \in Int
          BY <3>1, <4>1, <4>2, Rounds
        <5> QED
          BY <2>2, <3>1, <4>2, <5>1
      <4>5. a \div s <= b \div s /\ a \div s \in Int /\ b \div s \in Int
        BY <4>3, <4>4, DivisionInOrder
      <4> QED
        BY <3>4, <4>2, <4>5
    <3>6. min + k * Round(step) \in Multiples(d)
      BY <2>1, <3>5 DEF Multiples
    <3> QED
      BY <2>1, <3>3, <3>4, <3>6
  <2> QED
    BY <1>2, <2>1, <2>3, <2>4, <2>5 DEF Fits, OwnDescriptions
<1>3. CASE d.kind \notin OwnDescriptions \cup {"timezone", "number"}
  <2>1. d.max_length # None => Len(Packed(x)) <= d.max_length
    <3>1. CASE Accepted(x)
      <4>1. ValidLength(d.max_length, Packed(x))
        BY <1>3, <3>1, Zenon DEF Accepted
      <4> QED
        BY <4>1 DEF ValidLength
    <3>2. CASE d.kind = "download"
      <4>1. x \in Downloads
        BY <3>2, InputAssumption DEF Settable
      <4>2. Packed(x) = PackDownload(x)
        BY <3>2 DEF Packed
      <4>3. Len(PackDownload(x)) = 8
        BY <4>1, DownloadRoundTrip
      <4> QED
        BY <3>2, <4>2, <4>3, DownloadAssumption
    <3> QED
      BY <3>1, <3>2 DEF Admitted
  <2> QED
    BY <1>3, <2>1 DEF Fits
<1> QED
  BY <1>1, <1>2, <1>3

\* What is stored fits the description, and so will what is on its way.
FitInv ==
  /\ Fits(description, value)
  /\ \A i \in 1..Len(queue) : queue[i].type = "set" => Admitted(queue[i].meant)

\* A set that is under way was so before ...
LEMMA SetsClosed ==
  ASSUME queue \in Seq(Messages), NEW i \in 1..Len(Closed(queue)), Closed(queue)[i].type = "set"
  PROVE  i \in 1..Len(queue) /\ Closed(queue)[i] = queue[i]
<1>1. DOMAIN queue = 1..Len(queue) /\ Len(queue) \in Nat
  OBVIOUS
<1>2. Closed(queue) = [j \in 1..Len(queue) |-> [queue[j] EXCEPT !.live = FALSE]]
  BY <1>1 DEF Closed
<1>3. i \in 1..Len(queue) /\ Closed(queue)[i].type = queue[i].type
  BY ClosedMessages
<1>4. Closed(queue)[i] = [queue[i] EXCEPT !.live = FALSE]
  BY <1>2, <1>3
<1>5. queue[i] \in Messages
  BY <1>3
<1> QED
  BY <1>3, <1>4, <1>5, MessageTypes

\* ... unless it has just been sent, ...
LEMMA SetsSent ==
  ASSUME queue \in Seq(Messages), NEW m, SendRequest(m),
         NEW i \in 1..Len(queue'), queue'[i].type = "set"
  PROVE  queue'[i] = m \/ \E j \in 1..Len(queue) : queue'[i] = queue[j]
<1>1. CASE queue' = Closed(queue)
  BY <1>1, SetsClosed
<1>2. CASE queue' = Append(Closed(queue), m)
  <2>1. PICK q : q = Closed(queue)
    OBVIOUS
  <2>2. q \in Seq(Messages) /\ Len(q) \in Nat
    BY <2>1, ClosedMessages
  <2>3. \/ i \in 1..Len(q) /\ queue'[i] = q[i]
        \/ queue'[i] = m
    BY <1>2, <2>1, <2>2
  <2> QED
    BY <2>1, <2>3, SetsClosed
<1> QED
  BY <1>1, <1>2 DEF SendRequest

\* ... and the device takes the first of them.
LEMMA SetsTaken ==
  ASSUME queue \in Seq(Messages), queue # <<>>, TakeIncoming,
         NEW i \in 1..Len(queue'), queue'[i].type = "set"
  PROVE  \E j \in 1..Len(queue) : queue'[i] = queue[j]
<1>1. /\ Len(queue) \in Nat \ {0} /\ 1 \in 1..Len(queue)
      /\ Head(queue) = queue[1] /\ Head(queue) \in Messages
      /\ Tail(queue) \in Seq(Messages) /\ Len(Tail(queue)) = Len(queue) - 1
      /\ \A j \in 1..Len(queue) - 1 : j + 1 \in 1..Len(queue) /\ Tail(queue)[j] = queue[j + 1]
  OBVIOUS
<1>2. CASE queue' = Tail(queue)
  BY <1>1, <1>2
<1>3. CASE queue' = <<[Head(queue) EXCEPT !.live = FALSE]>> \o Tail(queue)
  <2>1. PICK c, t : c = [Head(queue) EXCEPT !.live = FALSE] /\ t = Tail(queue)
    OBVIOUS
  <2>2. c \in Messages /\ c.type = queue[1].type /\ (queue[1].type = "set" => c = queue[1])
    BY <1>1, <2>1, MessageTypes
  <2>3. PICK q : q = queue'
    OBVIOUS
  <2>4. /\ Len(q) = Len(t) + 1 /\ q[1] = c
        /\ \A j \in 2..Len(q) : q[j] = t[j - 1]
    <3>1. q = <<c>> \o t /\ t \in Seq(Messages)
      BY <1>1, <1>3, <2>1, <2>3
    <3> QED
      BY <2>2, <3>1, CopyInFront
  <2>5. CASE i = 1
    BY <1>1, <2>2, <2>3, <2>4, <2>5
  <2>6. CASE i # 1
    <3>1. Len(t) = Len(queue) - 1 /\ i \in 1..Len(q)
      BY <1>1, <2>1, <2>3
    <3>2. i \in 2..Len(q) /\ i - 1 \in 1..Len(queue) - 1
      BY <1>1, <2>4, <2>6, <3>1
    <3> QED
      BY <1>1, <2>1, <2>3, <2>4, <3>2
  <2> QED
    BY <2>5, <2>6
<1> QED
  BY <1>2, <1>3 DEF TakeIncoming

\* What is set was let through, and the device stores what was set.
LEMMA FitSteps ==
  ASSUME AccessInv, FitInv, [Next]_vars
  PROVE  FitInv'
<1>1. UNCHANGED description
  BY DEF Next, Program, SetProperty, GetProperty, GetEnds, StartConfirm, GetData, Confirmed, SetDataAgain, GiveUp,
     SetData, HandleSet, HandleGet, HandleGetFails, vars
<1>2. /\ \A x : x' = x => Fits(description, x)' = Fits(description, x)
      /\ \A x : Admitted(x)' = Admitted(x)
      /\ queue \in Seq(Messages) /\ description \in Descriptions
  BY <1>1, SameMessages DEF Fits, Admitted, Accepted, AccessInv, TypeOK
<1>3. ASSUME UNCHANGED value,
             \A i \in 1..Len(queue') :
               queue'[i].type = "set" =>
                 Admitted(queue'[i].meant) \/ \E j \in 1..Len(queue) : queue'[i] = queue[j]
      PROVE  FitInv'
  BY <1>1, <1>2, <1>3 DEF FitInv
<1>4. CASE SetProperty \/ StartConfirm \/ SetDataAgain
  <2>1. PICK x : Admitted(x) /\ SendSet(x) /\ UNCHANGED value
    <3>1. CASE SetProperty
      BY <3>1 DEF SetProperty, Admitted
    <3>2. CASE StartConfirm
      BY <3>2 DEF StartConfirm, SetData, Admitted
    <3>3. CASE SetDataAgain
      <4>1. description.kind = "download"
        BY <3>3 DEF SetDataAgain, Differs, Answered, AccessInv, LoopInv
      <4> QED
        BY <3>3, <4>1 DEF SetDataAgain, SetData, Admitted
    <3> QED
      BY <1>4, <3>1, <3>2, <3>3
  <2>2. SetMessage(x).meant = x
    BY DEF SetMessage
  <2> QED
    BY <1>2, <1>3, <2>1, <2>2, SetsSent DEF SendSet
<1>5. CASE GetProperty \/ GetData
  <2>1. PICK m : SendRequest(m) /\ m.type = "get" /\ UNCHANGED value
    BY <1>5 DEF GetProperty, GetData, SendGet
  <2> QED
    BY <1>2, <1>3, <2>1, SetsSent
<1>6. CASE GetEnds \/ Confirmed \/ GiveUp
  BY <1>2, <1>3, <1>6, SetsClosed DEF GetEnds, Confirmed, GiveUp, CloseSocket
<1>7. CASE HandleGet \/ HandleGetFails
  BY <1>2, <1>3, <1>7, SetsTaken DEF HandleGet, HandleGetFails, Incoming, Respond, Ignore
<1>8. CASE HandleSet
  <2>1. /\ queue # <<>> /\ Head(queue).type = "set" /\ TakeIncoming
        /\ value' = FromAttributes(Head(queue).value)
    BY <1>8 DEF HandleSet, Incoming, Ignore
  <2>2. Head(queue) = queue[1] /\ 1 \in 1..Len(queue) /\ Head(queue) \in Messages
    BY <1>2, <2>1
  <2>3. PICK x : x = Head(queue).meant
    OBVIOUS
  <2>4. x \in Inputs(description) /\ Head(queue).value = Attributes(Packed(x)) /\ Admitted(x)
    BY <2>1, <2>2, <2>3, MessageTypes DEF FitInv
  <2>5. value' = Packed(x)
    BY <2>1, <2>4 DEF FromAttributes, Attributes
  <2>6. Fits(description, Packed(x))
    BY <1>2, <2>4, AdmittedFits
  <2>7. Fits(description, value)'
    BY <1>1, <2>5, <2>6 DEF Fits
  <2>8. \A i \in 1..Len(queue') : queue'[i].type = "set" => Admitted(queue'[i].meant)
    BY <1>2, <2>1, SetsTaken DEF FitInv
  <2> QED
    BY <1>2, <2>7, <2>8 DEF FitInv
<1>9. CASE UNCHANGED vars
  BY <1>2, <1>3, <1>9 DEF vars
<1> QED
  BY <1>4, <1>5, <1>6, <1>7, <1>8, <1>9 DEF Next, Program

-----------------------------------------------------------------------------
(* What is stored is read as what it means *)

\* A number is cut off to an integer by less than One, on either side of zero.
LEMMA NumberIsRead ==
  ASSUME NEW x, x = NaN \/ x \in Int
  PROVE  \/ Converted(description, x) = x
         \/ IsInt(description) /\ Distance(Converted(description, x), x) < One
<1>1. One \in Nat \ {0}
  BY UnitsAssumption
<1>2. CASE ~IsInt(description) \/ x = NaN
  BY <1>2 DEF Converted
<1>3. CASE IsInt(description) /\ x # NaN /\ x >= 0
  <2>1. x \in Nat
    BY <1>3
  <2>2. PICK n : n = One * (x \div One)
    OBVIOUS
  <2>3. n <= x /\ x - n < One /\ n \in Nat
    BY <1>1, <2>1, <2>2, CutOff
  <2>4. Converted(description, x) = n
    BY <1>3, <2>2, Zenon DEF Converted
  <2>5. Distance(n, x) < One
    BY <1>1, <2>1, <2>3 DEF Distance
  <2> QED
    BY <1>3, <2>4, <2>5
<1>4. CASE IsInt(description) /\ x # NaN /\ ~(x >= 0)
  <2>1. PICK y : y = 0 - x
    OBVIOUS
  <2>2. x \in Int /\ y \in Nat
    BY <1>4, <2>1
  <2>3. PICK n : n = One * (y \div One)
    OBVIOUS
  <2>4. n <= y /\ y - n < One /\ n \in Nat
    BY <1>1, <2>2, <2>3, CutOff
  <2>5. Converted(description, x) = 0 - n
    BY <1>4, <2>1, <2>3, Zenon DEF Converted
  <2>6. Distance(0 - n, x) < One
    BY <1>1, <2>1, <2>2, <2>4 DEF Distance
  <2> QED
    BY <1>4, <2>5, <2>6
<1> QED
  BY <1>2, <1>3, <1>4

\* What may be read for m.
Means(read, m) ==
  \/ read = m
  \/ description.kind \in {"points", "skip", "shorten", "schedule_state"} /\ m = <<>> /\ read = None
  \/ description.kind = "number" /\ IsInt(description) /\ Distance(read, m) < One
  \/ description.kind \in {"schedule", "shorten", "date"} /\ read = InMinutes(description.kind, m)

\* Whatever is packed is read as what it means.
LEMMA SettableIsRead ==
  ASSUME description.kind \in WrittenKinds, NEW x, Settable(description.kind, x)
  PROVE  Means(Unpacked(description, Packed(x)), x)
<1>1. CASE description.kind = "number"
  <2>1. x = NaN \/ x \in Int
    BY <1>1, Zenon DEF Settable
  <2>2. Unpacked(description, Packed(x)) = Converted(description, x)
    BY <1>1 DEF Unpacked, Packed
  <2> QED
    BY <1>1, <2>1, <2>2, NumberIsRead DEF Means
<1>2. CASE description.kind = "timezone"
  BY <1>2 DEF Unpacked, Packed, Means
<1>3. CASE description.kind = "schedule"
  <2>1. x \in Seq(Tasks)
    BY <1>3, Zenon DEF Settable
  <2>2. Unpacked(description, Packed(x)) = UnpackSchedule(PackSchedule(x))
    BY <1>3 DEF Unpacked, Packed
  <2> QED
    BY <1>3, <2>1, <2>2, ScheduleRoundTrip DEF Means
<1>4. CASE description.kind = "settings"
  <2>1. x = [i \in 1..8 |-> x[i]] /\ \A i \in 1..8 : x[i] \in SettingValues(i) \cup {None}
    BY <1>4, Zenon DEF Settable
  <2>2. Unpacked(description, Packed(x)) = UnpackSettings(PackSettings(x))
    BY <1>4 DEF Unpacked, Packed
  <2> QED
    BY <1>4, <2>1, <2>2, SettingsRoundTrip DEF Means
<1>5. CASE description.kind = "date"
  <2>1. x \in Dates
    BY <1>5, Zenon DEF Settable
  <2>2. Unpacked(description, Packed(x)) = UnpackDate(PackDate(x))
    BY <1>5 DEF Unpacked, Packed
  <2> QED
    BY <1>5, <2>1, <2>2, DateRoundTrip DEF Means
<1>6. CASE description.kind = "skip"
  <2>1. x \in Seq([id : Byte])
    BY <1>6, Zenon DEF Settable
  <2>2. Unpacked(description, Packed(x)) = UnpackSkip(PackSkip(x))
    BY <1>6 DEF Unpacked, Packed
  <2> QED
    BY <1>6, <2>1, <2>2, SkipRoundTrip DEF Means
<1>7. CASE description.kind = "shorten"
  <2>1. x \in Seq(Shortened)
    BY <1>7, Zenon DEF Settable
  <2>2. Unpacked(description, Packed(x)) = UnpackShorten(PackShorten(x))
    BY <1>7 DEF Unpacked, Packed
  <2> QED
    BY <1>7, <2>1, <2>2, ShortenRoundTrip DEF Means
<1>8. CASE description.kind = "lona_control"
  <2>1. x \subseteq {Flags[i] : i \in 1..5}
    BY <1>8, Zenon DEF Settable
  <2>2. Unpacked(description, Packed(x)) = UnpackLonaControl(PackLonaControl(x))
    BY <1>8 DEF Unpacked, Packed
  <2> QED
    BY <1>8, <2>1, <2>2, LonaControlRoundTrip DEF Means
<1>9. CASE description.kind = "download"
  <2>1. x \in Downloads
    BY <1>9, Zenon DEF Settable
  <2>2. Unpacked(description, Packed(x)) = UnpackDownload(PackDownload(x))
    BY <1>9 DEF Unpacked, Packed
  <2> QED
    BY <1>9, <2>1, <2>2, DownloadRoundTrip DEF Means
<1>10. CASE description.kind = "schedule_state"
  <2>1. x \in Seq(States)
    BY <1>10, Zenon DEF Settable
  <2>2. Unpacked(description, Packed(x)) = UnpackScheduleStates(PackScheduleStates(x))
    BY <1>10 DEF Unpacked, Packed
  <2> QED
    BY <1>10, <2>1, <2>2, StatesRoundTrip DEF Means
<1> QED
  BY <1>1, <1>2, <1>3, <1>4, <1>5, <1>6, <1>7, <1>8, <1>9, <1>10 DEF WrittenKinds

\* What is in the device at first, or was set, and what it means.
Stored(v, m) ==
  \/ \E w \in Initially(description) : v = w.value /\ m = w.meant
  \/ m \in Inputs(description) /\ v = Packed(m)

\* It is read as what it means; the getter raises for a value that was never set.
LEMMA StoredIsRead ==
  ASSUME description \in Descriptions, description.kind \in WrittenKinds, NEW v, NEW m, Stored(v, m)
  PROVE  /\ v = None => Read(Attributes(v)) = Raised
         /\ v # None => Read(Attributes(v)) = Unpacked(description, v) /\ Means(Unpacked(description, v), m)
<1>1. description.kind \notin OwnDescriptions
  BY DEF OwnDescriptions, WrittenKinds
<1>2. CASE v = None
  <2>1. Attributes(v) = <<>>
    BY <1>2 DEF Attributes
  <2>2. Read(<<>>) = Raised
    BY <1>1, Zenon DEF Read, OwnDescriptions
  <2> QED
    BY <1>2, <2>1, <2>2
<1>3. CASE v # None
  <2>1. PICK a : a = Attributes(v)
    OBVIOUS
  <2>2. a = <<AttributeName, v>> /\ a # <<>>
    BY <1>3, <2>1 DEF Attributes
  <2>3. FromAttributes(a) = v
    BY <2>2 DEF FromAttributes
  <2>4. Read(a) = Unpacked(description, v)
    BY <1>1, <2>2, <2>3, Zenon DEF Read, OwnDescriptions
  <2>5. Means(Unpacked(description, v), m)
    <3>1. CASE m \in Inputs(description) /\ v = Packed(m)
      BY <3>1, InputAssumption, SettableIsRead
    <3>2. CASE \E w \in Initially(description) : v = w.value /\ m = w.meant
      <4>1. PICK w \in Initially(description) : v = w.value /\ m = w.meant
        BY <3>2
      <4>2. CASE description.kind = "number"
        <5>1. m = v /\ v \in Int
          BY <1>3, <4>1, <4>2, InitialAssumption
        <5>2. Unpacked(description, v) = Converted(description, v)
          BY <4>2 DEF Unpacked
        <5> QED
          BY <4>2, <5>1, <5>2, NumberIsRead DEF Means
      <4>3. CASE description.kind # "number"
        <5>1. m = Unpacked(description, v)
          BY <1>3, <4>1, <4>3, InitialAssumption
        <5> QED
          BY <5>1 DEF Means
      <4> QED
        BY <4>2, <4>3
    <3> QED
      BY <3>1, <3>2 DEF Stored
  <2> QED
    BY <1>3, <2>1, <2>4, <2>5
<1> QED
  BY <1>2, <1>3

\* Starting points that fit in less than 30 bytes are read as what they mean,
\* but for those that were never set and those of two sizes.
LEMMA StoredPointsAreRead ==
  ASSUME description \in Descriptions, description.kind = "points", description.max_length < 30,
         description.max_length \in Nat,
         NEW v, NEW m, Stored(v, m), Fits(description, v)
  PROVE  \/ Read(Attributes(v)) = Raised /\ (v = None \/ TwoSizes(m))
         \/ Means(Read(Attributes(v)), m)
<1>1. CASE v = None
  <2>1. Attributes(v) = <<>>
    BY <1>1 DEF Attributes
  <2>2. Read(<<>>) = Raised
    BY Zenon DEF Read
  <2> QED
    BY <1>1, <2>1, <2>2
<1>2. CASE v # None
  <2>1. PICK a : a = Attributes(v)
    OBVIOUS
  <2>2. a = <<AttributeName, v>> /\ a # <<>>
    BY <1>2, <2>1 DEF Attributes
  <2>3. FromAttributes(a) = v
    BY <2>2 DEF FromAttributes
  <2>4. Read(a) = Unpacked(description, v)
    BY <2>2, <2>3, Zenon DEF Read
  <2>5. CASE \E w \in Initially(description) : v = w.value /\ m = w.meant
    <3>1. m = Unpacked(description, v)
      BY <1>2, <2>5, InitialAssumption
    <3> QED
      BY <2>1, <2>4, <3>1 DEF Means
  <2>6. CASE m \in Inputs(description) /\ v = Packed(m)
    <3>1. m \in Seq(Points)
      <4>1. Settable("points", m)
        BY <2>6, InputAssumption
      <4> QED
        BY <4>1, Zenon DEF Settable
    <3>2. v = PackPoints(m)
      BY <2>6 DEF Packed
    <3>3. Len(v) <= description.max_length
      <4>1. description.max_length # None
        BY NoneAssumption
      <4> QED
        BY <1>2, <4>1 DEF Fits, OwnDescriptions
    <3>4. Len(PackPoints(m)) \in Nat
      BY <3>1, BytesOfPoints
    <3>5. Len(PackPoints(m)) < 30
      BY <3>2, <3>3, <3>4
    <3>6. Unpacked(description, v) = UnpackPoints(PackPoints(m))
      BY <3>2 DEF Unpacked
    <3>7. UnpackPoints(PackPoints(m)) = IF m = <<>> THEN None ELSE IF TwoSizes(m) THEN Raised ELSE m
      BY <3>1, <3>5, PointsRoundTrip
    <3> QED
      BY <2>1, <2>4, <3>6, <3>7, Zenon DEF Means
  <2> QED
    BY <2>5, <2>6 DEF Stored
<1> QED
  BY <1>1, <1>2

\* An answer says what was stored, and carries what that meant.
AnswerInv ==
  reply # NoReply =>
    \E v, m : Stored(v, m) /\ Fits(description, v) /\ reply.value = Reported(v) /\ reply.meant = m

\* Whoever answers, answers with what is stored then.
LEMMA AnswerSteps ==
  ASSUME TypeOK, FitInv, AnswerInv, [Next]_vars
  PROVE  AnswerInv'
<1>1. UNCHANGED description
  BY DEF Next, Program, SetProperty, GetProperty, GetEnds, StartConfirm, GetData, Confirmed, SetDataAgain, GiveUp,
     SetData, HandleSet, HandleGet, HandleGetFails, vars
<1>2. /\ \A v, m : Stored(v, m)' = Stored(v, m)
      /\ \A v : Reported(v)' = Reported(v) /\ Fits(description, v)' = Fits(description, v)
  BY <1>1, SameMessages DEF Stored, Fits
<1>3. CASE reply' = NoReply \/ UNCHANGED reply
  BY <1>2, <1>3 DEF AnswerInv
<1>4. CASE HandleGet
  <2>1. Stored(value, meant) /\ Fits(description, value)
    BY DEF TypeOK, Stored, FitInv
  <2>2. CASE reply'.value = Reported(value) /\ reply'.meant = meant
    BY <1>2, <2>1, <2>2 DEF AnswerInv
  <2> QED
    BY <1>3, <1>4, <2>2 DEF HandleGet, Respond
<1>5. CASE Program
  BY <1>3, <1>5 DEF Program, SetProperty, GetProperty, GetEnds, StartConfirm, GetData, Confirmed, SetDataAgain,
     GiveUp, SetData, SendSet, SendGet, SendRequest, CloseSocket
<1>6. CASE HandleSet \/ HandleGetFails \/ UNCHANGED vars
  BY <1>3, <1>6 DEF HandleSet, HandleGetFails, Ignore, vars
<1> QED
  BY <1>4, <1>5, <1>6 DEF Next

-----------------------------------------------------------------------------
(* The theorems *)

\* At first nothing was asked or set.
LEMMA InitAccess == Init => AccessInv
<1> SUFFICES ASSUME Init PROVE AccessInv
  OBVIOUS
<1>1. TypeOK
  BY TriesAssumption DEF Init, ChannelInit, TypeOK, Places
<1>2. LoopInv /\ LastGet /\ ConfirmInv
  BY DEF Init, ChannelInit, LoopInv, LastGet, ConfirmInv
<1> QED
  BY <1>1, <1>2 DEF AccessInv

\* The invariant is a matter of the state alone.
LEMMA AccessStutters ==
  ASSUME AccessInv, UNCHANGED vars
  PROVE  AccessInv'
<1>1. /\ UNCHANGED <<queue, reply, description, value, meant, at, setting, attempt, tries>>
      /\ TypeOK /\ queue \in Seq(Messages) /\ setting \in Inputs(description) \cup {None}
  BY DEF vars, AccessInv, TypeOK
<1>2. (\A x : Packed(x)' = Packed(x)) /\ Reported(value)' = Reported(value)
  BY <1>1, SameMessages
<1>3. TypeOK'
  BY <1>1, ProgramTypes DEF TypeOK
<1>4. LoopInv' /\ LastGet' /\ ConfirmInv'
  BY <1>1, <1>2 DEF AccessInv, LoopInv, LastGet, ConfirmInv, NothingSet
<1> QED
  BY <1>3, <1>4 DEF AccessInv

\* AccessInv is inductive: neither TypeOK (tries is counted from the set on)
\* nor ConfirmedIsStored (the order of the requests) is so by itself.
THEOREM AccessInvariant == Spec => []AccessInv
<1>1. AccessInv /\ [Next]_vars => AccessInv'
  BY SetStep, GetStep, CloseStep, HandleSetStep, HandleGetStep, AccessStutters DEF Next, Program
<1> QED
  BY <1>1, InitAccess, PTL DEF Spec

\* Both loops of upload.py end at MAX_TRIES, and the cache of the device holds
\* what somebody packed, whatever is set and described.
THEOREM TypeCorrect == Spec => []TypeOK
<1>1. AccessInv => TypeOK
  BY DEF AccessInv
<1> QED
  BY <1>1, AccessInvariant, PTL

\* When upload.py goes on to the upload, the device has its data_download_int
\* and no other is on its way: the get that was answered was the last request.
THEOREM ConfirmedStays == Spec => []ConfirmedIsStored
<1>1. AccessInv => ConfirmedIsStored
  <2> SUFFICES ASSUME AccessInv, at = "confirmed"
               PROVE  value = Packed(setting) /\ \A i \in DOMAIN queue : queue[i].type # "set"
    BY DEF ConfirmedIsStored
  <2>1. DOMAIN queue = 1..Len(queue)
    BY DEF AccessInv, TypeOK
  <2> QED
    BY <2>1 DEF AccessInv, ConfirmInv, NothingSet
<1> QED
  BY <1>1, AccessInvariant, PTL

\* FitInv is inductive together with AccessInv, which knows what upload.py sets.
THEOREM FitInvariant == Spec => []FitInv
<1>1. Init => FitInv
  BY FitsAssumption DEF Init, ChannelInit, FitInv
<1>2. AccessInv /\ FitInv /\ [Next]_vars => FitInv'
  BY FitSteps
<1> QED
  BY <1>1, <1>2, AccessInvariant, PTL DEF Spec

\* What value_properties.py stores in a device fits the value's description: a
\* number is in the range and, up to rounding, a multiple of the step, and a
\* buffer is not too long, for any limits, unit and length.
THEOREM StoredFits == Spec => []WithinDescription
<1>1. FitInv => WithinDescription
  BY DEF FitInv, WithinDescription
<1> QED
  BY <1>1, FitInvariant, PTL

\* Whose answer it is, it comes with control messages.
LEMMA AnswerComes ==
  ASSUME reply # NoReply => reply.ancdata \in SeqOf(ControlMessages, 2), [Next]_vars
  PROVE  reply' # NoReply => reply'.ancdata \in SeqOf(ControlMessages, 2)
<1>1. CASE reply' = NoReply \/ UNCHANGED reply
  BY <1>1
<1>2. CASE HandleGet
  BY <1>2 DEF HandleGet, Respond
<1>3. CASE Program
  BY <1>1, <1>3 DEF Program, SetProperty, GetProperty, GetEnds, StartConfirm, GetData, Confirmed, SetDataAgain,
     GiveUp, SetData, SendSet, SendGet, SendRequest, CloseSocket
<1>4. CASE HandleSet \/ HandleGetFails \/ UNCHANGED vars
  BY <1>1, <1>4 DEF HandleSet, HandleGetFails, Ignore, vars
<1> QED
  BY <1>2, <1>3, <1>4 DEF Next

\* _send returns an answer if its only control message says that it was
\* encrypted, whatever two control messages came and in which order.
THEOREM EncryptedIsTaken == Spec => []TakesEncrypted
<1> DEFINE Listed == reply # NoReply => reply.ancdata \in SeqOf(ControlMessages, 2)
<1>1. Init => Listed
  BY DEF Init, ChannelInit
<1>2. Listed /\ [Next]_vars => Listed'
  BY AnswerComes
<1>3. Listed => TakesEncrypted
  BY TakenIfEncrypted DEF TakesEncrypted
<1> QED
  BY <1>1, <1>2, <1>3, PTL DEF Spec

\* Every answer tells what was stored when it was given.
THEOREM AnswerInvariant == Spec => []AnswerInv
<1>1. Init => AnswerInv
  BY DEF Init, ChannelInit, AnswerInv
<1>2. TypeOK /\ FitInv /\ AnswerInv /\ [Next]_vars => AnswerInv'
  BY AnswerSteps
<1> QED
  BY <1>1, <1>2, TypeCorrect, FitInvariant, PTL DEF Spec

\* An answer without an attribute is one for a value that was never set.
LEMMA NeverSet ==
  ASSUME NEW v, v = None
  PROVE  Attributes(v) = <<>>
  BY DEF Attributes

\* Whatever a program can set, but starting points, is read as what it meant by
\* it, up to the seconds of times and dates, which the mower helpers cut off; the
\* getter raises for a value that was never set, and for no other.  This is so
\* for numbers, the time zone and every structure of a mower, whatever their
\* fields hold.
THEOREM WrittenIsRead == Spec => [](description.kind \in WrittenKinds => ReadsWhatWasMeant)
<1>1. TypeOK /\ AnswerInv => (description.kind \in WrittenKinds => ReadsWhatWasMeant)
  <2> SUFFICES ASSUME TypeOK, AnswerInv, description.kind \in WrittenKinds, reply # NoReply
               PROVE  \/ Read(reply.value) = Raised /\ reply.value = <<>>
                      \/ Means(Read(reply.value), reply.meant)
    BY DEF ReadsWhatWasMeant, CannotBeRead, Means, WrittenKinds
  <2>1. PICK v, m : Stored(v, m) /\ reply.value = Reported(v) /\ reply.meant = m
    BY DEF AnswerInv
  <2>2. Reported(v) = Attributes(v)
    BY DEF Reported, WrittenKinds
  <2>3. description \in Descriptions
    BY DEF TypeOK
  <2>4. CASE v = None
    BY <2>1, <2>2, <2>3, <2>4, StoredIsRead, NeverSet
  <2>5. CASE v # None
    BY <2>1, <2>2, <2>3, <2>5, StoredIsRead
  <2> QED
    BY <2>4, <2>5
<1> QED
  BY <1>1, TypeCorrect, AnswerInvariant, PTL

\* Starting points are read as what they were set to, if the description
\* leaves less than 30 bytes: five points with a corridor cut would be as long
\* as six without.  Only for points of two sizes, and for points that were
\* never set, the getter raises.
THEOREM PointsAreRead ==
  Spec => [](description.kind = "points" /\ description.max_length \in 0..29 => ReadsWhatWasMeant)
<1>1. TypeOK /\ AnswerInv =>
        (description.kind = "points" /\ description.max_length \in 0..29 => ReadsWhatWasMeant)
  <2> SUFFICES ASSUME TypeOK, AnswerInv, description.kind = "points", description.max_length \in 0..29,
                      reply # NoReply
               PROVE  \/ Read(reply.value) = Raised /\ CannotBeRead(reply)
                      \/ Means(Read(reply.value), reply.meant)
    BY DEF ReadsWhatWasMeant, Means
  <2>1. PICK v, m : Stored(v, m) /\ Fits(description, v) /\ reply.value = Reported(v) /\ reply.meant = m
    BY DEF AnswerInv
  <2>2. Reported(v) = Attributes(v)
    BY DEF Reported
  <2>3. description \in Descriptions
    BY DEF TypeOK
  <2>4. description.max_length \in Nat /\ description.max_length < 30
    OBVIOUS
  <2>5. \/ Read(reply.value) = Raised /\ (v = None \/ TwoSizes(m))
        \/ Means(Read(reply.value), m)
    BY <2>1, <2>2, <2>3, <2>4, StoredPointsAreRead
  <2>6. v = None => reply.value = <<>>
    BY <2>1, <2>2, NeverSet
  <2> QED
    BY <2>1, <2>5, <2>6 DEF CannotBeRead
<1> QED
  BY <1>1, TypeCorrect, AnswerInvariant, PTL

\* The bytes of a device that are unpacked to a schedule have no seconds.
LEMMA NoSeconds ==
  ASSUME NEW b \in Seq(Byte), UnpackSchedule(b) \notin {None, Raised}
  PROVE  InMinutes("schedule", UnpackSchedule(b)) = UnpackSchedule(b)
<1>1. PICK n, structs : n = Len(b) \div 7 /\ structs = Structs(b, 7)
  OBVIOUS
<1>2. UnpackSchedule(b) = [i \in DOMAIN structs |-> UnpackTask(structs[i])]
  BY <1>1, Zenon DEF UnpackSchedule
<1>3. n \in Nat /\ 7 * n <= Len(b) /\ DOMAIN structs = 1..n
  BY <1>1 DEF Structs
<1>4. ASSUME NEW i \in 1..n
      PROVE  TaskInMinutes(UnpackTask(structs[i])) = UnpackTask(structs[i])
  <2>1. PICK k, s : k = 7 * (i - 1) /\ s = structs[i] /\ s = SubSeq(b, k + 1, 7 * i)
    BY <1>1, <1>3 DEF Structs
  <2>2. k \in Nat /\ 7 * i = k + 7 /\ k + 7 <= Len(b)
    BY <1>3, <2>1
  <2>3. s[5] = b[k + 5] /\ s[6] = b[k + 6]
    BY <2>1, <2>2
  <2>4. b[k + 5] \in Byte /\ b[k + 6] \in Byte
    BY <2>2
  <2>5. PICK q : q = s[5] + 256 * s[6] /\ q \in Nat
    <3>1. s[5] \in Nat /\ s[6] \in Nat
      BY <2>3, <2>4, DurationsCount, Zenon
    <3>2. s[5] + 256 * s[6] \in Nat
      BY <3>1
    <3> QED
      BY <3>2
  <2>6. WholeMinutes(60 * q) = 60 * q
    BY <2>5 DEF WholeMinutes
  <2>7. PICK w : UnpackTask(s) = [id |-> s[1], weekdays |-> w, start |-> <<s[3], s[4], 0>>, duration |-> 60 * q,
                                  a_id |-> s[7]]
    BY <2>5 DEF UnpackTask
  <2>8. PICK t : t = UnpackTask(s)
    OBVIOUS
  <2>9. t.start = <<s[3], s[4], 0>> /\ t.start[1] = s[3] /\ t.start[2] = s[4] /\ t.duration = 60 * q
    BY <2>7, <2>8
  <2>10. PICK S, y : S = TaskInMinutes(t) /\ y = <<s[3], s[4], 0>>
    OBVIOUS
  <2>11. S = [t EXCEPT !.start = y, !.duration = 60 * q]
    BY <2>6, <2>9, <2>10, Zenon DEF TaskInMinutes
  <2>12. S = t
    <3>1. PICK x, d, z : x = s[1] /\ d = 60 * q /\ z = s[7]
      OBVIOUS
    <3>2. t = [id |-> x, weekdays |-> w, start |-> y, duration |-> d, a_id |-> z]
      BY <2>7, <2>8, <2>10, <3>1, Zenon
    <3>3. S = [t EXCEPT !.start = y, !.duration = d]
      BY <2>11, <3>1, Zenon
    <3>4. S = [id |-> x, weekdays |-> w, start |-> y, duration |-> d, a_id |-> z]
      BY ONLY <3>2, <3>3
    <3> QED
      BY ONLY <3>2, <3>4
  <2> QED
    BY <2>1, <2>8, <2>10, <2>12
<1>5. UnpackSchedule(b) = [i \in 1..n |-> UnpackTask(structs[i])]
  BY <1>2, <1>3
<1>6. InMinutes("schedule", UnpackSchedule(b)) = [i \in 1..n |-> TaskInMinutes(UnpackTask(structs[i]))]
  <2>1. PICK x : x = UnpackSchedule(b)
    OBVIOUS
  <2>2. InMinutes("schedule", x) = [i \in DOMAIN x |-> TaskInMinutes(x[i])]
    BY CutOffs, Zenon
  <2>3. DOMAIN x = 1..n /\ \A i \in 1..n : x[i] = UnpackTask(structs[i])
    BY <1>5, <2>1
  <2> QED
    BY <2>1, <2>2, <2>3
<1> QED
  BY <1>4, <1>5, <1>6

\* A schedule that is stored, or on its way, is read to the minute.
LEMMA StoredScheduleIsRead ==
  ASSUME description \in Descriptions, description.kind = "schedule", NEW v, NEW m, Stored(v, m),
         (m \in Inputs(description) /\ v = Packed(m)) \/ m \notin {None, Raised}
  PROVE  Read(Attributes(v)) = InMinutes("schedule", m)
<1>1. CASE m \in Inputs(description) /\ v = Packed(m)
  <2>1. m \in Seq(Tasks)
    <3>1. Settable("schedule", m)
      BY <1>1, InputAssumption
    <3> QED
      BY <3>1, Zenon DEF Settable
  <2>2. v = PackSchedule(m)
    BY <1>1 DEF Packed
  <2>3. v # None
    BY <2>1, <2>2, ScheduleRoundTrip, NoneAssumption
  <2>4. Read(Attributes(v)) = Unpacked(description, v)
    BY <2>3, StoredIsRead DEF WrittenKinds
  <2>5. Unpacked(description, v) = UnpackSchedule(v)
    BY DEF Unpacked
  <2> QED
    BY <2>1, <2>2, <2>4, <2>5, ScheduleRoundTrip
<1>2. CASE m \notin {None, Raised} /\ \E w \in Initially(description) : v = w.value /\ m = w.meant
  <2>1. PICK w \in Initially(description) : v = w.value /\ m = w.meant
    BY <1>2
  <2>2. v # None /\ m = Unpacked(description, v) /\ v \in Seq(Byte)
    BY <1>2, <2>1, InitialAssumption DEF WrittenKinds
  <2>3. Read(Attributes(v)) = Unpacked(description, v)
    BY <2>2, StoredIsRead DEF WrittenKinds
  <2>4. Unpacked(description, v) = UnpackSchedule(v)
    BY DEF Unpacked
  <2> QED
    BY <1>2, <2>2, <2>3, <2>4, NoSeconds
<1> QED
  BY <1>1, <1>2 DEF Stored

\* mower_compare_schedules decides whether the mower will run at other times, to
\* the minute, whatever two schedules were packed, one stored and one on its way.
THEOREM SchedulesIdentical == Spec => []IdenticalSchedules
<1>1. AccessInv => IdenticalSchedules
  <2> SUFFICES ASSUME AccessInv, description.kind = "schedule", meant \notin {None, Raised},
                      NEW i \in DOMAIN queue, queue[i].type = "set"
               PROVE  Canonical(Read(Attributes(value))) = Canonical(Read(queue[i].value))
                        <=> Runs(InMinutes("schedule", meant)) = Runs(InMinutes("schedule", queue[i].meant))
    BY DEF IdenticalSchedules
  <2>1. TypeOK /\ description \in Descriptions
    BY DEF AccessInv, TypeOK
  <2>2. Stored(value, meant)
    BY <2>1 DEF TypeOK, Stored
  <2>3. PICK y : y = queue[i].meant
    OBVIOUS
  <2>4. y \in Inputs(description) /\ queue[i].value = Attributes(Packed(y))
    <3>1. queue[i] \in Messages
      BY <2>1 DEF TypeOK
    <3> QED
      BY <2>3, <3>1, MessageTypes
  <2>5. Stored(Packed(y), y)
    BY <2>4 DEF Stored
  <2>6. Read(Attributes(value)) = InMinutes("schedule", meant)
    BY <2>1, <2>2, StoredScheduleIsRead
  <2>7. Read(queue[i].value) = InMinutes("schedule", y)
    BY <2>1, <2>4, <2>5, StoredScheduleIsRead
  <2> QED
    BY <2>3, <2>6, <2>7, SchedulesCompare
<1> QED
  BY <1>1, AccessInvariant, PTL
=============================================================================
