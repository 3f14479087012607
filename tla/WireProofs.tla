----------------------------- MODULE WireProofs -----------------------------
(***************************************************************************)
(* Proofs about writer, span and reader, for messages of any number of     *)
(* fields, any limits and any size of byte: a refused write leaves no      *)
(* trace, span and reader are the sequences of AbstractReader, integers    *)
(* come back as they were written, and the framed message example takes    *)
(* exactly the frames that are all there.                                  *)
(***************************************************************************)
EXTENDS Wire, SequenceTheorems, TLAPS

USE DEF Size, Nullopt

-----------------------------------------------------------------------------
(***************************************************************************)
(* Sequences of whatever elements.                                         *)
(***************************************************************************)

IsSeq(q) == \E S : q \in Seq(S)

\* The n elements of q after the first lo.
Cut(q, lo, n) == SubSeq(q, lo + 1, lo + n)

\* A function on 1 .. n is a sequence of length n.
LEMMA FunIsSeq ==
  ASSUME NEW n \in Nat, NEW S, NEW q \in [1 .. n -> S]
  PROVE  IsSeq(q) /\ Len(q) = n
<1>1. q \in Seq(S)
  BY SeqDef
<1>2. DOMAIN q = 1 .. Len(q) /\ DOMAIN q = 1 .. n /\ Len(q) \in Nat
  BY <1>1
<1> QED BY <1>1, <1>2 DEF IsSeq

\* Sequences with the same elements are equal.
LEMMA SameSeq ==
  ASSUME NEW p, IsSeq(p), NEW q, IsSeq(q), Len(p) = Len(q), \A i \in 1 .. Len(p) : p[i] = q[i]
  PROVE  p = q
<1>1. PICK S : p \in Seq(S)
  BY DEF IsSeq
<1>2. PICK T : q \in Seq(T)
  BY DEF IsSeq
<1>3. p \in Seq(S \cup T) /\ q \in Seq(S \cup T)
  BY <1>1, <1>2, SeqMonotonic
<1> QED BY <1>3, SeqEqual

\* A concatenation has both parts' elements.
LEMMA ConcatIsSeq ==
  ASSUME NEW p, IsSeq(p), NEW q, IsSeq(q)
  PROVE  /\ IsSeq(p \o q) /\ Len(p \o q) = Len(p) + Len(q)
         /\ Len(p) \in Nat /\ Len(q) \in Nat
<1>1. PICK S : p \in Seq(S)
  BY DEF IsSeq
<1>2. PICK T : q \in Seq(T)
  BY DEF IsSeq
<1>3. p \in Seq(S \cup T) /\ q \in Seq(S \cup T)
  BY <1>1, <1>2, SeqMonotonic
<1>4. p \o q \in Seq(S \cup T) /\ Len(p \o q) = Len(p) + Len(q)
  BY <1>3, ConcatProperties
<1> QED BY <1>3, <1>4 DEF IsSeq

\* A cut within bounds.
LEMMA CutIs ==
  ASSUME NEW q, IsSeq(q), NEW lo \in Nat, NEW n \in Nat, lo + n <= Len(q)
  PROVE  IsSeq(Cut(q, lo, n)) /\ Len(Cut(q, lo, n)) = n
         /\ \A i \in 1 .. n : Cut(q, lo, n)[i] = q[lo + i]
<1>1. PICK S : q \in Seq(S)
  BY DEF IsSeq
<1>2. PICK a, b : a = lo + 1 /\ b = lo + n
  OBVIOUS
<1>3. a \in Int /\ b \in Int /\ b - a + 1 = n /\ (a <= b <=> n > 0) /\ a \in Nat
  BY <1>2
<1>4. \A i \in a .. b : q[i] \in S
  BY <1>1, <1>2
<1>5. PICK r : r = SubSeq(q, a, b)
  OBVIOUS
<1>6. /\ r \in Seq(S) /\ Len(r) = (IF a <= b THEN b - a + 1 ELSE 0)
      /\ \A i \in 1 .. b - a + 1 : r[i] = q[a + i - 1]
  BY <1>3, <1>4, <1>5, SubSeqProperties
<1>7. Len(r) = n
  BY <1>3, <1>6
<1>8. ASSUME NEW i \in 1 .. n PROVE r[i] = q[lo + i]
  <2>1. a + i - 1 = lo + i
    BY <1>2
  <2> QED BY <1>3, <1>6, <2>1
<1>9. Cut(q, lo, n) = r
  BY <1>2, <1>5 DEF Cut
<1> QED BY <1>6, <1>7, <1>8, <1>9 DEF IsSeq

\* A cut of a cut is a cut.
LEMMA CutCut ==
  ASSUME NEW q, IsSeq(q), NEW lo \in Nat, NEW n \in Nat, lo + n <= Len(q),
         NEW at2 \in Nat, NEW m \in Nat, at2 + m <= n, NEW to, to = lo + at2
  PROVE  Cut(Cut(q, lo, n), at2, m) = Cut(q, to, m)
<1>1. PICK r, s, t : r = Cut(q, lo, n) /\ s = Cut(r, at2, m) /\ t = Cut(q, to, m)
  OBVIOUS
<1>2. IsSeq(r) /\ Len(r) = n /\ \A i \in 1 .. n : r[i] = q[lo + i]
  BY <1>1, CutIs
<1>3. IsSeq(s) /\ Len(s) = m /\ \A i \in 1 .. m : s[i] = r[at2 + i]
  BY <1>1, <1>2, CutIs
<1>4. to \in Nat /\ to + m <= Len(q)
  <2>1. Len(q) \in Nat
    BY DEF IsSeq
  <2> QED BY <2>1
<1>5. IsSeq(t) /\ Len(t) = m /\ \A i \in 1 .. m : t[i] = q[to + i]
  BY <1>1, <1>4, CutIs
<1>6. ASSUME NEW i \in 1 .. m PROVE s[i] = t[i]
  <2>1. PICK j \in 1 .. n : j = at2 + i /\ lo + j = to + i
    <3>1. at2 + i \in 1 .. n /\ lo + (at2 + i) = to + i
      OBVIOUS
    <3> QED BY <3>1
  <2> QED BY <1>2, <1>3, <1>5, <2>1
<1>7. s = t
  BY <1>3, <1>5, <1>6, SameSeq
<1> QED BY <1>1, <1>7

\* Cutting nothing off leaves the sequence, cutting nothing out the empty one.
LEMMA CutTrivial ==
  ASSUME NEW q
  PROVE  /\ IsSeq(q) => Cut(q, 0, Len(q)) = q
         /\ \A lo \in Nat : Cut(q, lo, 0) = <<>>
<1>1. ASSUME IsSeq(q) PROVE Cut(q, 0, Len(q)) = q
  <2>1. PICK lo, n : lo = 0 /\ n = Len(q)
    OBVIOUS
  <2>2. lo \in Nat /\ n \in Nat /\ lo + n <= Len(q)
    BY <1>1, <2>1 DEF IsSeq
  <2>3. PICK r : r = Cut(q, lo, n)
    OBVIOUS
  <2>4. IsSeq(r) /\ Len(r) = n /\ \A i \in 1 .. n : r[i] = q[lo + i]
    BY <1>1, <2>2, <2>3, CutIs
  <2>5. \A i \in 1 .. n : lo + i = i
    BY <2>1, <2>2
  <2>6. r = q
    BY <1>1, <2>1, <2>4, <2>5, SameSeq
  <2> QED BY <2>1, <2>3, <2>6
<1>2. ASSUME NEW lo \in Nat PROVE Cut(q, lo, 0) = <<>>
  <2>1. PICK a, b : a = lo + 1 /\ b = lo + 0
    OBVIOUS
  <2>2. a \in Int /\ b \in Int /\ b < a
    BY <2>1
  <2>3. SubSeq(q, a, b) = <<>>
    BY <2>2, SubSeqEmpty
  <2> QED BY <2>1, <2>3 DEF Cut
<1> QED BY <1>1, <1>2

-----------------------------------------------------------------------------
(***************************************************************************)
(* Integers as digits.                                                     *)
(***************************************************************************)

\* Division with remainder is unique, and what it leaves is a remainder.
LEMMA DivIs ==
  ASSUME NEW m \in Nat \ {0}, NEW k \in Nat, NEW r \in 0 .. m - 1, NEW v, v = k * m + r
  PROVE  v \div m = k /\ v % m = r
OBVIOUS

LEMMA DivMod ==
  ASSUME NEW m \in Nat \ {0}, NEW v \in Nat
  PROVE  \E q \in Nat, r \in 0 .. m - 1 : q = v \div m /\ r = v % m /\ v = q * m + r
<1>1. v % m \in 0 .. m - 1
  OBVIOUS
<1>2. v \div m \in Nat
  OBVIOUS
<1>3. PICK q, r : q = v \div m /\ r = v % m
  OBVIOUS
<1>4. v = q * m + r
  BY <1>3
<1> QED BY <1>1, <1>2, <1>3, <1>4

\* Dividing by m and then by b is dividing by both.
LEMMA DivTwice ==
  ASSUME NEW m \in Nat \ {0}, NEW b \in Nat \ {0}, NEW v \in Nat
  PROVE  v \div (b * m) = (v \div m) \div b
<1>1. PICK q \in Nat, r \in 0 .. m - 1 : q = v \div m /\ v = q * m + r
  BY DivMod
<1>2. PICK k \in Nat, s \in 0 .. b - 1 : k = q \div b /\ q = k * b + s
  BY DivMod
<1>3. PICK n \in Nat \ {0}, u \in Nat, z \in Nat : n = b * m /\ u = s * m + r /\ z = s * m
  OBVIOUS
<1>4. z <= (b - 1) * m
  BY <1>2, <1>3
<1>5. (b - 1) * m = n - m
  BY <1>3
<1>6. u \in 0 .. n - 1
  BY <1>1, <1>3, <1>4, <1>5
<1>7. v = k * n + u
  <2>1. v = (k * b + s) * m + r
    BY <1>1, <1>2
  <2>2. (k * b + s) * m = k * (b * m) + s * m
    OBVIOUS
  <2> QED BY <1>3, <2>1, <2>2
<1>8. v \div n = k
  BY <1>6, <1>7, DivIs
<1> QED BY <1>1, <1>2, <1>3, <1>8

\* What is left of v after its last i digits.
Rest(v, i) == v \div Base ^ i

\* Places are positive.
LEMMA Places ==
  /\ Base \in Nat \ {0, 1} /\ Base ^ 0 = 1 /\ Base ^ 1 = Base
  /\ \A i \in 0 .. 8 : Base ^ i \in Nat \ {0}
  /\ \A i \in 0 .. 7 : Base ^ (i + 1) = Base * Base ^ i
<1>1. Base \in Nat \ {0, 1} /\ Base ^ 0 = 1 /\ \A i \in 0 .. 7 : Base ^ (i + 1) = Base * Base ^ i
  BY WireAssumption, PowersAssumption
<1>2. ASSUME NEW i \in 0 .. 7, Base ^ i \in Nat \ {0} PROVE Base ^ (i + 1) \in Nat \ {0}
  <2>1. PICK p \in Nat \ {0} : p = Base ^ i
    BY <1>2
  <2>2. Base * p \in Nat \ {0}
    BY <1>1
  <2> QED BY <1>1, <2>1, <2>2
<1>3. Base ^ 0 \in Nat \ {0} /\ 0 + 1 = 1
  BY <1>1
<1>4. Base ^ 1 \in Nat \ {0} /\ Base ^ 1 = Base
  BY <1>1, <1>3
<1>5. Base ^ 2 \in Nat \ {0}
  BY <1>2, <1>4
<1>6. Base ^ 3 \in Nat \ {0}
  BY <1>2, <1>5
<1>7. Base ^ 4 \in Nat \ {0}
  BY <1>2, <1>6
<1>8. Base ^ 5 \in Nat \ {0}
  BY <1>2, <1>7
<1>9. Base ^ 6 \in Nat \ {0}
  BY <1>2, <1>8
<1>10. Base ^ 7 \in Nat \ {0}
  BY <1>2, <1>9
<1>11. Base ^ 8 \in Nat \ {0}
  BY <1>2, <1>10
<1> QED BY <1>1, <1>3, <1>4, <1>5, <1>6, <1>7, <1>8, <1>9, <1>10, <1>11

\* The digits of v, from the last one on.
LEMMA Digits ==
  ASSUME NEW v \in Nat
  PROVE  /\ Rest(v, 0) = v
         /\ \A i \in 0 .. 8 : Rest(v, i) \in Nat /\ (v < Base ^ i => Rest(v, i) = 0)
         /\ \A i \in 0 .. 7 : digit(v, i) \in Nat /\ Rest(v, i) = Rest(v, i + 1) * Base + digit(v, i)
<1>1. ASSUME NEW i \in 0 .. 8 PROVE Rest(v, i) \in Nat /\ (v < Base ^ i => Rest(v, i) = 0)
  <2>1. PICK p \in Nat \ {0} : p = Base ^ i
    BY Places
  <2>2. v \div p \in Nat
    BY DivMod
  <2>3. ASSUME v < p PROVE v \div p = 0
    <3>1. v \in 0 .. p - 1 /\ v = 0 * p + v
      BY <2>3
    <3> QED BY <3>1, DivIs
  <2> QED BY <2>1, <2>2, <2>3 DEF Rest
<1>2. Rest(v, 0) = v
  <2>1. v \div 1 = v
    OBVIOUS
  <2> QED BY <2>1, Places DEF Rest
<1>3. ASSUME NEW i \in 0 .. 7
      PROVE  digit(v, i) \in Nat /\ Rest(v, i) = Rest(v, i + 1) * Base + digit(v, i)
  <2>1. PICK p \in Nat \ {0}, b \in Nat \ {0} : p = Base ^ i /\ b = Base /\ Base ^ (i + 1) = b * p
    BY Places
  <2>2. PICK q \in Nat : q = v \div p
    BY DivMod
  <2>3. v \div (b * p) = q \div b
    BY <2>2, DivTwice
  <2>5. digit(v, i) = q % b /\ Rest(v, i) = q /\ Rest(v, i + 1) = q \div b
    BY <2>1, <2>2, <2>3 DEF digit, Rest
  <2>6. PICK k \in Nat, d \in Nat : k = q \div b /\ d = q % b /\ q = k * b + d
    BY DivMod
  <2>7. Rest(v, i) = q /\ Rest(v, i + 1) = k /\ digit(v, i) = d /\ b = Base
    BY <2>1, <2>5, <2>6
  <2> QED BY <2>6, <2>7
<1> QED BY <1>1, <1>2, <1>3

\* A digit in its place.
LEMMA Placed ==
  ASSUME NEW v \in Nat, NEW i \in 0 .. 7
  PROVE  /\ Rest(v, i) * Base ^ i \in Nat /\ Rest(v, i + 1) * Base ^ (i + 1) \in Nat
         /\ digit(v, i) * Base ^ i \in Nat
         /\ Rest(v, i) * Base ^ i = Rest(v, i + 1) * Base ^ (i + 1) + digit(v, i) * Base ^ i
<1>1. PICK p \in Nat, b \in Nat, q \in Nat, d \in Nat :
        /\ p = Base ^ i /\ b = Base /\ q = Rest(v, i + 1) /\ d = digit(v, i)
        /\ Base ^ (i + 1) = b * p /\ Rest(v, i) = q * b + d
  <2>1. i + 1 \in 0 .. 8 /\ i \in 0 .. 8
    OBVIOUS
  <2>2. PICK p \in Nat, b \in Nat : p = Base ^ i /\ b = Base /\ Base ^ (i + 1) = b * p
    BY <2>1, Places
  <2>3. PICK q \in Nat, d \in Nat : q = Rest(v, i + 1) /\ d = digit(v, i) /\ Rest(v, i) = q * Base + d
    <3>1. Rest(v, i + 1) \in Nat
      BY <2>1, Digits
    <3>2. digit(v, i) \in Nat /\ Rest(v, i) = Rest(v, i + 1) * Base + digit(v, i)
      BY Digits
    <3> QED BY <3>1, <3>2
  <2>4. Rest(v, i) = q * b + d
    BY <2>2, <2>3
  <2> QED BY <2>2, <2>3, <2>4
<1>2. (q * b + d) * p = q * (b * p) + d * p
  OBVIOUS
<1>3. (q * b + d) * p \in Nat /\ q * (b * p) \in Nat /\ d * p \in Nat
  OBVIOUS
<1> QED BY <1>1, <1>2, <1>3

\* The value of two or of four digits, and of one.
LEMMA DigitsSum ==
  ASSUME NEW v \in Nat
  PROVE  /\ v < Base ^ 1 => digit(v, 0) = v
         /\ v < Base ^ 2 => digit(v, 1) * Base ^ 1 + digit(v, 0) * Base ^ 0 = v
         /\ v < Base ^ 4 => /\ digit(v, 3) * Base ^ 3 + digit(v, 2) * Base ^ 2 + digit(v, 1) * Base ^ 1
                                 + digit(v, 0) * Base ^ 0 = v
                            /\ digit(v, 0) * Base ^ 0 + digit(v, 1) * Base ^ 1 + digit(v, 2) * Base ^ 2
                                 + digit(v, 3) * Base ^ 3 = v
<1> DEFINE d(i) == digit(v, i) * Base ^ i
           r(i) == Rest(v, i) * Base ^ i
<1>1. r(0) = r(1) + d(0) /\ r(0) \in Nat /\ r(1) \in Nat /\ d(0) \in Nat
  <2>1. 0 \in 0 .. 7 /\ 0 + 1 = 1
    OBVIOUS
  <2> QED BY <2>1, Placed
<1>2. r(1) = r(2) + d(1) /\ r(2) \in Nat /\ d(1) \in Nat
  <2>1. 1 \in 0 .. 7 /\ 1 + 1 = 2
    OBVIOUS
  <2> QED BY <2>1, Placed
<1>3. r(2) = r(3) + d(2) /\ r(3) \in Nat /\ d(2) \in Nat
  <2>1. 2 \in 0 .. 7 /\ 2 + 1 = 3
    OBVIOUS
  <2> QED BY <2>1, Placed
<1>4. r(3) = r(4) + d(3) /\ r(4) \in Nat /\ d(3) \in Nat
  <2>1. 3 \in 0 .. 7 /\ 3 + 1 = 4
    OBVIOUS
  <2> QED BY <2>1, Placed
<1>5. r(0) = v
  <2>1. Rest(v, 0) = v /\ Base ^ 0 = 1 /\ v * 1 = v
    BY Places, Digits
  <2> QED BY <2>1
<1>6. ASSUME NEW i \in {1, 2, 4}, v < Base ^ i PROVE r(i) = 0
  <2>1. i \in 0 .. 8 /\ v < Base ^ i
    BY <1>6
  <2>3. Rest(v, i) = 0
    BY <2>1, Digits
  <2>2. Base ^ i \in Nat
    BY <2>1, Places
  <2> QED BY <2>2, <2>3
<1>7. d(0) = digit(v, 0)
  <2>1. digit(v, 0) \in Nat
    BY Digits
  <2> QED BY <2>1, Places
<1> HIDE DEF d, r
<1>8. v < Base ^ 1 => digit(v, 0) = v
  BY <1>1, <1>5, <1>6, <1>7
<1>9. v < Base ^ 2 => d(1) + d(0) = v
  BY <1>1, <1>2, <1>5, <1>6
<1>10. v < Base ^ 4 => d(3) + d(2) + d(1) + d(0) = v /\ d(0) + d(1) + d(2) + d(3) = v
  BY <1>1, <1>2, <1>3, <1>4, <1>5, <1>6
<1> QED BY <1>8, <1>9, <1>10 DEF d

-----------------------------------------------------------------------------
(***************************************************************************)
(* The inductive invariant: WritesWhole, with the bounds that keep the     *)
(* counters from wrapping and the fields in the part that was written.     *)
(***************************************************************************)

Bounds ==
  /\ IsSeq(bytes) /\ Len(bytes) <= MAX_ALLOC_BYTES
  /\ start \in Nat /\ start <= Len(bytes)
  /\ view \in [off : Nat, len : Nat] /\ view.off + view.len <= Len(bytes)
  /\ pos \in Nat /\ pos <= view.len

FieldsInside == \A f \in fields : f.at \in Nat /\ f.len \in Nat /\ f.at + f.len <= Len(bytes)

Inv == Bounds /\ FieldsInside /\ WritesWhole

\* Neither size nor any sum up to it wraps.
LEMMA WrapExact ==
  ASSUME NEW n \in Nat, n <= SIZE_MAX
  PROVE  Wrap(n) = n
BY SizeAssumption DEF Wrap

\* The sizes the reader and the span compute with.
LEMMA Sizes ==
  ASSUME Bounds
  PROVE  /\ Len(bytes) \in Nat /\ Len(bytes) <= SIZE_MAX /\ MAX_ALLOC_BYTES \in Nat /\ SIZE_MAX \in Nat
         /\ view.off \in Nat /\ view.len \in Nat /\ view.len <= SIZE_MAX
         /\ remaining = view.len - pos /\ remaining \in Nat
<1>1. Len(bytes) \in Nat
  BY DEF Bounds, IsSeq
<1>2. Len(bytes) <= SIZE_MAX /\ MAX_ALLOC_BYTES \in Nat /\ SIZE_MAX \in Nat
  BY <1>1, SizeAssumption DEF Bounds
<1>3. view.off \in Nat /\ view.len \in Nat /\ view.len <= SIZE_MAX
  BY <1>1, <1>2 DEF Bounds
<1>4. view.len - pos \in Nat /\ view.len - pos <= SIZE_MAX
  BY <1>1, <1>2, <1>3 DEF Bounds
<1>5. Wrap(view.len - pos) = view.len - pos
  BY <1>4, WrapExact
<1> QED BY <1>1, <1>2, <1>3, <1>4, <1>5 DEF remaining

\* At the start nothing has been written and there is no span.
LEMMA InitInv ==
  Init => Inv
<1> SUFFICES ASSUME Init PROVE Inv
  OBVIOUS
<1>1. bytes \in Seq(0 .. Base - 1) /\ Len(bytes) <= MAX_ALLOC_BYTES /\ start = Len(bytes)
  BY WireAssumption DEF Init
<1>2. Len(bytes) \in Nat /\ IsSeq(bytes)
  BY <1>1 DEF IsSeq
<1>3. view \in [off : Nat, len : Nat] /\ view.off + view.len <= Len(bytes) /\ pos \in Nat /\ pos <= view.len
  BY <1>2 DEF Init, NoSpan
<1>4. Bounds
  BY <1>1, <1>2, <1>3 DEF Bounds
<1>5. WritesWhole
  <2>1. written = Len(bytes) - start
    BY <1>1, <1>2 DEF Init
  <2>2. start .. Len(bytes) - 1 = {}
    BY <1>1, <1>2
  <2> QED BY <2>1, <2>2 DEF WritesWhole
<1>6. FieldsInside
  BY DEF Init, FieldsInside
<1> QED BY <1>4, <1>5, <1>6 DEF Inv

\* A write is taken whole, and counted, or not at all; spans end with it.
LEMMA WriteStep ==
  ASSUME Inv, NEW kind, NEW v, NEW array, IsSeq(array), NEW len \in Nat, NEW given,
         len <= MAX_ALLOC_BYTES => Len(array) = len, write_bytes(kind, v, array, len, given)
  PROVE  Inv' /\ Abs!Write(call')
<1>1. PICK code \in IF out THEN append(len, given) ELSE {"null_pointer"} :
        /\ Returns(<<"write", kind, v>>, code, <<>>)
        /\ written' = IF out THEN counted(code, len) ELSE written
        /\ \/ /\ code = "ok"
              /\ bytes' = bytes \o array
              /\ fields' = fields \cup (IF len = 0 THEN {} ELSE
                    {[at |-> Len(bytes), len |-> len, kind |-> kind, val |-> v]})
              /\ view' = NoSpan /\ pos' = 0
           \/ code # "ok" /\ UNCHANGED <<bytes, fields, view, pos>>
        /\ UNCHANGED <<out, start>>
  BY DEF write_bytes
<1>2. call'[1] = "write" /\ ret'.code = code
  BY <1>1 DEF Returns
<1>3. /\ Len(bytes) \in Nat /\ Len(bytes) <= SIZE_MAX /\ MAX_ALLOC_BYTES \in Nat /\ SIZE_MAX \in Nat
      /\ MAX_ALLOC_BYTES <= SIZE_MAX
  BY Sizes, SizeAssumption DEF Inv
<1>4. CASE code # "ok"
  <2>1. bytes' = bytes /\ fields' = fields /\ view' = view /\ pos' = pos /\ start' = start /\ written' = written
    BY <1>1, <1>4 DEF counted
  <2>2. Inv'
    BY <2>1 DEF Inv, Bounds, FieldsInside, WritesWhole
  <2>3. Abs!Write(call')
    BY <1>2, <1>4, <2>1 DEF Abs!Write, Abs!Same
  <2> QED BY <2>2, <2>3
<1>5. CASE code = "ok"
  <2>1. out /\ code \in append(len, given)
    BY <1>1, <1>5
  <2>2. Len(bytes) + len <= MAX_ALLOC_BYTES
    <3>1. CASE len = 0
      BY <1>3, <3>1 DEF Inv, Bounds
    <3>2. CASE len # 0
      <4>1. "ok" \in Buf!Room(Len(bytes) + len)
        BY <1>5, <2>1, <3>2 DEF append
      <4> QED BY <1>3, <4>1 DEF Buf!Room
    <3> QED BY <3>1, <3>2
  <2>3. PICK q, n, m : q = bytes' /\ n = Len(bytes) /\ m = n + len
    OBVIOUS
  <2>4. IsSeq(q) /\ Len(q) = m /\ m \in Nat /\ n \in Nat /\ m <= MAX_ALLOC_BYTES
    <3>1. Len(array) = len
      BY <1>3, <2>2
    <3>2. q = bytes \o array
      BY <1>1, <1>5, <2>3
    <3>3. IsSeq(bytes)
      BY DEF Inv, Bounds
    <3> QED BY <1>3, <2>2, <2>3, <3>1, <3>2, <3>3, ConcatIsSeq
  <2>5. start' = start /\ view' = NoSpan /\ pos' = 0 /\ start \in Nat /\ start <= n /\ written = n - start
    BY <1>1, <1>5, <2>3 DEF Inv, Bounds, WritesWhole
  <2>6. Bounds'
    <3>1. IsSeq(bytes') /\ Len(bytes') <= MAX_ALLOC_BYTES /\ start' \in Nat /\ start' <= Len(bytes')
      BY <2>3, <2>4, <2>5
    <3>2. view' \in [off : Nat, len : Nat] /\ view'.off + view'.len <= Len(bytes') /\ pos' \in Nat /\ pos' <= view'.len
      BY <2>3, <2>4, <2>5 DEF NoSpan
    <3> QED BY <3>1, <3>2 DEF Bounds
  <2>7. written' = m - start
    <3>1. written' = Wrap(written + len)
      BY <1>1, <1>5, <2>1 DEF counted
    <3>2. PICK k \in Nat : k = written + len /\ k <= SIZE_MAX /\ k = m - start
      BY <1>3, <2>3, <2>4, <2>5
    <3> QED BY <3>1, <3>2, WrapExact
  <2>8. CASE len = 0
    <3>1. fields' = fields /\ m = n
      BY <1>1, <1>5, <2>3, <2>4, <2>8
    <3>2. FieldsInside' /\ WritesWhole'
      BY <2>3, <2>4, <2>5, <2>7, <3>1 DEF Inv, FieldsInside, WritesWhole
    <3>3. Abs!Write(call')
      BY <1>2, <1>5, <2>5, SubSeqEmpty DEF Abs!Write, NoSpan
    <3> QED BY <2>6, <3>2, <3>3 DEF Inv
  <2>9. CASE len # 0
    <3>1. PICK e : e = [at |-> n, len |-> len, kind |-> kind, val |-> v]
      OBVIOUS
    <3>2. fields' = fields \cup {e} /\ e.at = n /\ e.len = len /\ e.at + e.len = m
      BY <1>1, <1>5, <2>3, <2>9, <3>1
    <3>3. FieldsInside'
      BY <2>3, <2>4, <3>2 DEF Inv, FieldsInside
    <3>4. ASSUME NEW i \in start .. m - 1
          PROVE  \E f \in fields' : /\ i \in f.at .. f.at + f.len - 1
                                    /\ \A g \in fields' : i \in g.at .. g.at + g.len - 1 => g = f
      <4>1. CASE i < n
        <5>1. i \in start .. Len(bytes) - 1
          BY <2>3, <2>4, <2>5, <4>1
        <5>2. PICK f \in fields : /\ i \in f.at .. f.at + f.len - 1
                                  /\ \A g \in fields : i \in g.at .. g.at + g.len - 1 => g = f
          BY <5>1 DEF Inv, WritesWhole
        <5>3. i \notin e.at .. e.at + e.len - 1
          BY <2>4, <2>5, <3>2, <4>1
        <5> QED BY <3>2, <5>2, <5>3
      <4>2. CASE ~(i < n)
        <5>1. i \in e.at .. e.at + e.len - 1
          BY <2>4, <2>5, <3>2, <4>2
        <5>2. ASSUME NEW g \in fields PROVE i \notin g.at .. g.at + g.len - 1
          <6>1. g.at \in Nat /\ g.len \in Nat /\ g.at + g.len <= n
            BY <2>3 DEF Inv, FieldsInside
          <6> QED BY <2>4, <2>5, <4>2, <6>1
        <5> QED BY <3>2, <5>1, <5>2
      <4> QED BY <4>1, <4>2
    <3>5. WritesWhole'
      BY <2>3, <2>4, <2>5, <2>7, <3>4 DEF WritesWhole
    <3>6. Abs!Write(call')
      BY <1>2, <1>5, <2>5, SubSeqEmpty DEF Abs!Write, NoSpan
    <3> QED BY <2>6, <3>3, <3>5, <3>6 DEF Inv
  <2> QED BY <2>8, <2>9
<1> QED BY <1>4, <1>5

-----------------------------------------------------------------------------
(***************************************************************************)
(* What AbstractReader sees: the span, and what the reader has before it.  *)
(***************************************************************************)

SpanNow == SubSeq(bytes, view.off + 1, view.off + view.len)

RestNow == SubSeq(bytes, view.off + pos + 1, view.off + view.len)

\* Both are sequences of bytes of the buffer.
LEMMA NowIs ==
  ASSUME Bounds
  PROVE  /\ SpanNow = Cut(bytes, view.off, view.len)
         /\ IsSeq(SpanNow) /\ Len(SpanNow) = view.len
         /\ \A i \in 1 .. view.len : SpanNow[i] = bytes[view.off + i]
         /\ RestNow = Cut(bytes, view.off + pos, view.len - pos)
         /\ IsSeq(RestNow) /\ Len(RestNow) = view.len - pos
         /\ \A i \in 1 .. view.len - pos : RestNow[i] = bytes[view.off + pos + i]
<1>0. PICK o \in Nat, n \in Nat : o = view.off /\ n = view.len
  BY Sizes
<1>1. PICK p, m : p = o + pos /\ m = n - pos
  OBVIOUS
<1>2. /\ o + n <= Len(bytes) /\ IsSeq(bytes)
      /\ p \in Nat /\ m \in Nat /\ p + m = o + n
  <2>1. pos \in Nat /\ pos <= n /\ o + n <= Len(bytes) /\ IsSeq(bytes)
    BY <1>0 DEF Bounds
  <2> QED BY <1>1, <2>1
<1>3. SpanNow = Cut(bytes, o, n)
  BY <1>0 DEF SpanNow, Cut
<1>4. RestNow = Cut(bytes, p, m)
  BY <1>0, <1>1, <1>2 DEF RestNow, Cut
<1>5. IsSeq(SpanNow) /\ Len(SpanNow) = n /\ \A i \in 1 .. n : SpanNow[i] = bytes[o + i]
  BY <1>2, <1>3, CutIs
<1>6. IsSeq(RestNow) /\ Len(RestNow) = m /\ \A i \in 1 .. m : RestNow[i] = bytes[p + i]
  BY <1>2, <1>4, CutIs
<1> QED BY <1>0, <1>1, <1>3, <1>4, <1>5, <1>6

\* A step that leaves buffer and writer alone keeps the invariant if it keeps
\* span and cursor in bounds.
LEMMA KeepsInv ==
  ASSUME Inv, UNCHANGED <<bytes, written, start, fields>>,
         view' \in [off : Nat, len : Nat], view'.off + view'.len <= Len(bytes),
         pos' \in Nat, pos' <= view'.len
  PROVE  Inv'
<1>1. bytes' = bytes /\ written' = written /\ start' = start /\ fields' = fields
  OBVIOUS
<1>2. Bounds'
  BY <1>1 DEF Inv, Bounds
<1>3. FieldsInside' /\ WritesWhole'
  BY <1>1 DEF Inv, FieldsInside, WritesWhole
<1> QED BY <1>2, <1>3 DEF Inv

\* A call that changes nothing.
LEMMA LooksStep ==
  ASSUME Inv, NEW c, NEW code, NEW v, Looks(c, code, v)
  PROVE  /\ Inv' /\ bytes' = bytes /\ SpanNow' = SpanNow /\ RestNow' = RestNow
         /\ call' = c /\ ret' = [code |-> code, val |-> v]
<1>1. UNCHANGED <<bytes, written, start, fields, view, pos>> /\ call' = c /\ ret' = [code |-> code, val |-> v]
  BY DEF Looks, Returns
<1>2. SpanNow' = SpanNow /\ RestNow' = RestNow
  BY <1>1 DEF SpanNow, RestNow
<1>3. Inv'
  BY <1>1, KeepsInv DEF Inv, Bounds
<1> QED BY <1>1, <1>2, <1>3

\* A new span, and a new reader over it.
LEMMA SpansStep ==
  ASSUME Inv, NEW c, NEW code, NEW off \in Nat, NEW len \in Nat, off + len <= Len(bytes),
         Spans(c, code, off, len)
  PROVE  /\ Inv' /\ bytes' = bytes /\ SpanNow' = Cut(bytes, off, len) /\ RestNow' = Cut(bytes, off, len)
         /\ call' = c /\ ret'.code = code
<1>1. /\ UNCHANGED <<bytes, written, start, fields>> /\ view' = [off |-> off, len |-> len] /\ pos' = 0
      /\ call' = c /\ ret'.code = code
  BY DEF Spans, Returns
<1>2. view' \in [off : Nat, len : Nat] /\ view'.off = off /\ view'.len = len
  BY <1>1
<1>3. Inv'
  BY <1>1, <1>2, KeepsInv
<1>4. SpanNow' = Cut(bytes, off, len)
  BY <1>1, <1>2 DEF SpanNow, Cut
<1>5. off + pos' + 1 = off + 1
  BY <1>1
<1>6. RestNow' = Cut(bytes, off, len)
  BY <1>1, <1>2, <1>5 DEF RestNow, Cut
<1> QED BY <1>1, <1>3, <1>4, <1>6

\* The cursor moves over n bytes that are there.
LEMMA AdvancesStep ==
  ASSUME Inv, NEW c, NEW v, NEW n \in Nat, n <= remaining, Advances(c, v, n)
  PROVE  /\ Inv' /\ bytes' = bytes /\ SpanNow' = SpanNow
         /\ RestNow' = Cut(RestNow, n, Len(RestNow) - n)
         /\ call' = c /\ ret' = [code |-> "ok", val |-> v]
<1>1. /\ UNCHANGED <<bytes, written, start, fields, view>> /\ pos' = Wrap(pos + n)
      /\ call' = c /\ ret' = [code |-> "ok", val |-> v]
  BY DEF Advances, Returns
<1>2. /\ remaining = view.len - pos /\ view.off \in Nat /\ view.len \in Nat /\ pos \in Nat /\ pos <= view.len
      /\ view.len <= SIZE_MAX /\ SIZE_MAX \in Nat
      /\ Len(bytes) \in Nat /\ view.off + view.len <= Len(bytes)
      /\ view \in [off : Nat, len : Nat]
  BY Sizes DEF Inv, Bounds
<1>3. PICK k \in Nat : k = pos + n /\ k <= view.len /\ k <= SIZE_MAX
  BY <1>2
<1>4. pos' = k
  BY <1>1, <1>3, WrapExact
<1>5. Inv'
  BY <1>1, <1>2, <1>3, <1>4, KeepsInv
<1>6. SpanNow' = SpanNow
  BY <1>1 DEF SpanNow
<1>7. RestNow' = Cut(RestNow, n, Len(RestNow) - n)
  <2>0. PICK o \in Nat, w \in Nat : o = view.off /\ w = view.len
    BY <1>2
  <2>1. PICK lo, m, r, to : lo = o + pos /\ m = w - pos /\ r = m - n /\ to = lo + n
    OBVIOUS
  <2>2. /\ lo \in Nat /\ m \in Nat /\ r \in Nat /\ n + r = m /\ lo + m = view.off + view.len
        /\ to + r = view.off + view.len /\ to = view.off + k
    <3>1. pos \in Nat /\ pos <= w /\ k = pos + n /\ k <= w
      BY <1>2, <1>3, <2>0
    <3>2. /\ lo \in Nat /\ m \in Nat /\ r \in Nat /\ n + r = m /\ lo + m = o + w
          /\ to + r = o + w /\ to = o + k
      BY <2>1, <3>1
    <3> QED BY <2>0, <3>2
  <2>3. lo + m <= Len(bytes) /\ n + r <= m /\ IsSeq(bytes)
    BY <1>2, <2>2 DEF Inv, Bounds
  <2>4. Cut(Cut(bytes, lo, m), n, r) = Cut(bytes, to, r)
    <3>1. lo \in Nat /\ m \in Nat /\ r \in Nat /\ to = lo + n
      BY <2>1, <2>2
    <3> QED BY <2>3, <3>1, CutCut
  <2>5. RestNow = Cut(bytes, lo, m) /\ Len(RestNow) = m
    BY <2>0, <2>1, NowIs DEF Inv
  <2>6. RestNow' = Cut(bytes, to, r)
    BY <1>1, <1>4, <2>2 DEF RestNow, Cut
  <2> QED BY <2>1, <2>4, <2>5, <2>6
<1> QED BY <1>1, <1>5, <1>6, <1>7

\* The bytes at the cursor are the first of the rest.
LEMMA HereIs ==
  ASSUME Bounds, NEW n \in Nat, n <= remaining
  PROVE  here(n) = Cut(RestNow, 0, n)
<1>1. /\ remaining = view.len - pos /\ view.off \in Nat /\ view.len \in Nat /\ pos \in Nat
      /\ Len(bytes) \in Nat /\ view.off + view.len <= Len(bytes) /\ Len(RestNow) = remaining
      /\ IsSeq(RestNow) /\ \A i \in 1 .. remaining : RestNow[i] = bytes[view.off + pos + i]
      /\ remaining \in Nat
  BY Sizes, NowIs DEF Bounds
<1>2. PICK z, q, h : z = 0 /\ q = Cut(RestNow, z, n) /\ h = here(n)
  OBVIOUS
<1>3. z \in Nat /\ z + n <= Len(RestNow)
  BY <1>1, <1>2
<1>4. IsSeq(q) /\ Len(q) = n /\ \A i \in 1 .. n : q[i] = RestNow[z + i]
  BY <1>1, <1>2, <1>3, CutIs
<1>5. IsSeq(h) /\ Len(h) = n
  <2>1. h \in [1 .. n -> {data(pos + i - 1) : i \in 1 .. n}]
    BY <1>2 DEF here
  <2> QED BY <2>1, FunIsSeq
<1>6. ASSUME NEW i \in 1 .. n PROVE h[i] = q[i]
  <2>1. h[i] = data(pos + i - 1)
    BY <1>2 DEF here
  <2>2. PICK j : j = view.off + (pos + i - 1)
    OBVIOUS
  <2>3. j < Len(bytes) /\ j + 1 = view.off + pos + i /\ z + i = i /\ i \in 1 .. remaining
    <3>1. PICK o \in Nat, l \in Nat, k \in Nat, r \in Nat, m \in Nat :
            o = view.off /\ l = view.len /\ k = pos /\ r = remaining /\ m = Len(bytes)
      BY <1>1
    <3>2. r = l - k /\ o + l <= m /\ j = o + (k + i - 1)
      BY <1>1, <2>2, <3>1
    <3>3. i <= r
      BY <3>1
    <3>4. j < m /\ j + 1 = o + k + i /\ i \in 1 .. r
      BY <3>2, <3>3
    <3> QED BY <1>2, <3>1, <3>4
  <2>4. data(pos + i - 1) = bytes[j + 1]
    BY <2>2, <2>3 DEF data, Load
  <2>5. RestNow[i] = bytes[j + 1]
    BY <1>1, <2>3
  <2>6. q[i] = RestNow[i]
    BY <1>4, <2>3
  <2> QED BY <2>1, <2>4, <2>5, <2>6
<1>7. h = q
  BY <1>4, <1>5, <1>6, SameSeq
<1> QED BY <1>2, <1>7

-----------------------------------------------------------------------------
(***************************************************************************)
(* Every step keeps the invariant and is one of AbstractReader's.          *)
(***************************************************************************)

\* The abstract slice and the abstract step to a new span, in the terms above.
LEMMA SliceTerms ==
  ASSUME NEW q
  PROVE  /\ Abs!Same <=> bytes' = bytes /\ SpanNow' = SpanNow /\ RestNow' = RestNow
         /\ Abs!Becomes(q) <=> /\ SpanNow' = q /\ RestNow' = q
                               /\ ret'.code = "ok" /\ bytes' = bytes
         /\ \A off, n : Abs!Part(q, off, n) = Cut(q, off, n)
BY DEF Abs!Same, Abs!Becomes, Abs!Part, SpanNow, RestNow, Cut

\* A part of the span is a part of the buffer.
LEMMA SpanPart ==
  ASSUME Inv, NEW off \in Nat, NEW n \in Nat, off + n <= view.len, NEW to, to = view.off + off
  PROVE  to \in Nat /\ to + n <= Len(bytes) /\ Cut(bytes, to, n) = Cut(SpanNow, off, n)
<1>1. PICK o \in Nat, w \in Nat : o = view.off /\ w = view.len /\ o + w <= Len(bytes) /\ IsSeq(bytes)
  BY Sizes DEF Inv, Bounds
<1>2. Len(bytes) \in Nat
  BY Sizes DEF Inv
<1>3. off + n <= w /\ to = o + off
  BY <1>1
<1>4. to \in Nat /\ to + n <= Len(bytes)
  BY <1>1, <1>2, <1>3
<1>5. Cut(Cut(bytes, o, w), off, n) = Cut(bytes, to, n)
  BY <1>1, <1>3, CutCut
<1>6. SpanNow = Cut(bytes, o, w)
  BY <1>1, NowIs DEF Inv
<1> QED BY <1>4, <1>5, <1>6

\* The span of all the buffer holds.
LEMMA OpenStep ==
  ASSUME Inv, open
  PROVE  Inv' /\ Abs!Slice(call')
<1>1. PICK z, n : z = 0 /\ n = Len(bytes)
  OBVIOUS
<1>2. z \in Nat /\ n \in Nat /\ z + n <= Len(bytes) /\ IsSeq(bytes)
  BY <1>1, Sizes DEF Inv, Bounds
<1>3. PICK c : c = <<"open">>
  OBVIOUS
<1>4. Spans(c, "ok", z, n)
  BY <1>1, <1>3 DEF open
<1>5. /\ Inv' /\ bytes' = bytes /\ SpanNow' = Cut(bytes, z, n) /\ RestNow' = Cut(bytes, z, n)
      /\ call' = c /\ ret'.code = "ok"
  BY <1>2, <1>4, SpansStep
<1>6. Cut(bytes, z, n) = bytes
  BY <1>1, <1>2, CutTrivial
<1>7. Abs!Becomes(bytes)
  BY <1>5, <1>6, SliceTerms
<1>8. call'[1] = "open"
  BY <1>3, <1>5
<1> QED BY <1>5, <1>7, <1>8 DEF Abs!Slice

\* A slice that Spans makes is the abstract one.
LEMMA SliceStep ==
  ASSUME Inv, NEW c, NEW off \in Nat, NEW n \in Nat, off + n <= view.len, NEW to,
         to = view.off + off, Spans(c, "ok", to, n)
  PROVE  Inv' /\ call' = c /\ Abs!Becomes(Abs!Part(SpanNow, off, n))
<1>1. to \in Nat /\ to + n <= Len(bytes) /\ Cut(bytes, to, n) = Cut(SpanNow, off, n)
  BY SpanPart
<1>2. PICK q : q = Cut(bytes, to, n)
  OBVIOUS
<1>3. Inv' /\ bytes' = bytes /\ SpanNow' = q /\ RestNow' = q /\ call' = c /\ ret'.code = "ok"
  BY <1>1, <1>2, SpansStep
<1>4. Abs!Becomes(q)
  BY <1>3, SliceTerms
<1>5. Abs!Part(SpanNow, off, n) = q
  BY <1>1, <1>2, SliceTerms
<1> QED BY <1>3, <1>4, <1>5

\* first and last take what there is, at most.
LEMMA CappedIs ==
  ASSUME Inv, NEW n \in Size
  PROVE  /\ Abs!Capped(n) = Lesser(n, view.len) /\ Lesser(n, view.len) \in Nat
         /\ Lesser(n, view.len) <= view.len /\ Len(SpanNow) = view.len /\ view.len \in Nat
<1>1. Len(SpanNow) = view.len /\ view.len \in Nat
  BY NowIs, Sizes DEF Inv
<1>2. n \in Nat
  BY SizeAssumption
<1>3. Abs!Capped(n) = Lesser(n, view.len)
  BY <1>1 DEF Abs!Capped, Lesser, SpanNow
<1> QED BY <1>1, <1>2, <1>3 DEF Lesser

\* A slice from the front.
LEMMA FirstStep ==
  ASSUME Inv, NEW n \in Size, first(n)
  PROVE  Inv' /\ Abs!Slice(call')
<1>1. PICK m, z, o, c : m = Lesser(n, view.len) /\ z = 0 /\ o = view.off /\ c = <<"first", n>>
  OBVIOUS
<1>2. m \in Nat /\ m <= view.len /\ Abs!Capped(n) = m /\ view.len \in Nat /\ o \in Nat
  BY <1>1, CappedIs, Sizes DEF Inv
<1>3. z \in Nat /\ z + m <= view.len /\ o = view.off + z
  BY <1>1, <1>2
<1>4. Spans(c, "ok", o, m)
  BY <1>1 DEF first
<1>5. Inv' /\ call' = c /\ Abs!Becomes(Abs!Part(SpanNow, z, m))
  BY <1>2, <1>3, <1>4, SliceStep
<1>6. c[1] = "first" /\ c[2] = n
  BY <1>1
<1> QED BY <1>1, <1>2, <1>5, <1>6 DEF Abs!Slice, SpanNow

\* A slice from the end.
LEMMA LastStep ==
  ASSUME Inv, NEW n \in Size, last(n)
  PROVE  Inv' /\ Abs!Slice(call')
<1>1. PICK m, z, o, c : m = Lesser(n, view.len) /\ z = view.len - m /\ o = view.off + (view.len - m)
                        /\ c = <<"last", n>>
  OBVIOUS
<1>2. m \in Nat /\ m <= view.len /\ Abs!Capped(n) = m /\ view.len \in Nat /\ Len(SpanNow) = view.len
  BY <1>1, CappedIs
<1>3. z \in Nat /\ z + m <= view.len /\ o = view.off + z
  BY <1>1, <1>2
<1>4. Spans(c, "ok", o, m)
  BY <1>1 DEF last
<1>5. Inv' /\ call' = c /\ Abs!Becomes(Abs!Part(SpanNow, z, m))
  BY <1>2, <1>3, <1>4, SliceStep
<1>6. c[1] = "last" /\ c[2] = n
  BY <1>1
<1> QED BY <1>1, <1>2, <1>5, <1>6 DEF Abs!Slice, SpanNow

\* A slice in the middle is made when it is inside the span, refused when not;
\* the difference the test takes does not wrap.
LEMMA SubspanStep ==
  ASSUME Inv, NEW offset \in Size, NEW count \in Size, subspan(offset, count)
  PROVE  Inv' /\ Abs!Slice(call')
<1>0. PICK c : c = <<"subspan", offset, count>>
  OBVIOUS
<1>1. c = <<"subspan", offset, count>> /\ c[1] = "subspan" /\ c[2] = offset /\ c[3] = count
  BY <1>0
<1>2. view.len \in Nat /\ view.len <= SIZE_MAX /\ offset \in Nat /\ count \in Nat /\ Len(SpanNow) = view.len
      /\ SIZE_MAX \in Nat
  BY Sizes, NowIs, SizeAssumption DEF Inv
<1>3. offset <= view.len => Wrap(view.len - offset) = view.len - offset
  <2>1. PICK k : k = view.len - offset
    OBVIOUS
  <2>2. offset <= view.len => k \in Nat /\ k <= SIZE_MAX
    BY <1>2, <2>1
  <2> QED BY <2>1, <2>2, WrapExact
<1>4. \/ /\ offset > view.len \/ count > Wrap(view.len - offset)
         /\ Looks(c, "out_of_range", <<>>)
      \/ /\ offset <= view.len /\ count <= Wrap(view.len - offset)
         /\ Spans(c, "ok", view.off + offset, count)
  BY <1>1 DEF subspan
<1>5. CASE offset + count <= view.len
  <2>1. offset <= view.len /\ count <= view.len - offset
    BY <1>2, <1>5
  <2>2. Spans(c, "ok", view.off + offset, count)
    BY <1>2, <1>3, <1>4, <2>1
  <2>3. PICK to : to = view.off + offset
    OBVIOUS
  <2>4. Inv' /\ call' = c /\ Abs!Becomes(Abs!Part(SpanNow, offset, count))
    BY <1>2, <1>5, <2>2, <2>3, SliceStep
  <2> QED BY <1>1, <1>2, <1>5, <2>4 DEF Abs!Slice, SpanNow
<1>6. CASE ~(offset + count <= view.len)
  <2>1. ~(offset <= view.len /\ count <= Wrap(view.len - offset))
    BY <1>2, <1>3, <1>6
  <2>2. PICK e : e = <<>>
    OBVIOUS
  <2>3. Looks(c, "out_of_range", e)
    BY <1>4, <2>1, <2>2
  <2>4. /\ Inv' /\ bytes' = bytes /\ SpanNow' = SpanNow /\ RestNow' = RestNow
        /\ call' = c /\ ret' = [code |-> "out_of_range", val |-> e]
    BY <2>3, LooksStep
  <2>5. Abs!Same /\ ret'.code = "out_of_range"
    BY <2>4, SliceTerms
  <2> QED BY <1>1, <1>2, <1>6, <2>4, <2>5 DEF Abs!Slice, SpanNow
<1> QED BY <1>5, <1>6

\* The element an index is good for; none for one past the end.
LEMMA AtStep ==
  ASSUME Inv, NEW i \in Size, at(i)
  PROVE  Inv' /\ Abs!Slice(call')
<1>1. PICK c, v : c = <<"at", i>> /\ v = (IF i < view.len THEN <<data(i)>> ELSE <<>>)
  OBVIOUS
<1>2. c[1] = "at" /\ c[2] = i
  BY <1>1
<1>3. Looks(c, "ok", v)
  BY <1>1 DEF at
<1>4. /\ Inv' /\ bytes' = bytes /\ SpanNow' = SpanNow /\ RestNow' = RestNow
      /\ call' = c /\ ret' = [code |-> "ok", val |-> v]
  BY <1>3, LooksStep
<1>5. Abs!Same /\ ret'.val = v
  BY <1>4, SliceTerms
<1>6. /\ view.len \in Nat /\ view.off \in Nat /\ i \in Nat /\ Len(SpanNow) = view.len /\ IsSeq(SpanNow)
      /\ view.off + view.len <= Len(bytes) /\ Len(bytes) \in Nat
      /\ \A k \in 1 .. view.len : SpanNow[k] = bytes[view.off + k]
  BY Sizes, NowIs, SizeAssumption DEF Inv, Bounds
<1>7. CASE i < view.len
  <2>1. PICK n, d, r : n = 1 /\ d = data(i) /\ r = Cut(SpanNow, i, n)
    OBVIOUS
  <2>2. n \in Nat /\ i + n <= Len(SpanNow)
    BY <1>6, <1>7, <2>1
  <2>3. IsSeq(r) /\ Len(r) = n /\ \A k \in 1 .. n : r[k] = SpanNow[i + k]
    <3>1. PICK q : q = SpanNow
      OBVIOUS
    <3>2. IsSeq(q) /\ i \in Nat /\ n \in Nat /\ i + n <= Len(q) /\ r = Cut(q, i, n)
      BY <1>6, <2>1, <2>2, <3>1
    <3>3. IsSeq(r) /\ Len(r) = n /\ \A k \in 1 .. n : r[k] = q[i + k]
      BY <3>2, CutIs
    <3> QED BY <3>1, <3>3
  <2>4. IsSeq(v) /\ Len(v) = 1 /\ v[1] = d
    <3>1. v = <<d>>
      BY <1>1, <1>7, <2>1
    <3>2. v \in Seq({d}) /\ Len(v) = 1 /\ v[1] = d
      BY <3>1
    <3> QED BY <3>2 DEF IsSeq
  <2>5. r[1] = d
    <3>1. PICK j : j = view.off + i
      OBVIOUS
    <3>2. j < Len(bytes) /\ view.off + (i + 1) = j + 1 /\ i + 1 \in 1 .. view.len
      BY <1>6, <1>7, <3>1
    <3>3. d = bytes[j + 1]
      BY <2>1, <3>1, <3>2 DEF data, Load
    <3>4. r[1] = SpanNow[i + 1]
      BY <2>1, <2>3
    <3> QED BY <1>6, <3>2, <3>3, <3>4
  <2>6. \A k \in 1 .. Len(v) : v[k] = r[k]
    BY <2>4, <2>5
  <2>7. v = r
    BY <2>1, <2>3, <2>4, <2>6, SameSeq
  <2>8. v = Abs!Part(SpanNow, i, 1)
    BY <2>1, <2>7, SliceTerms
  <2> QED BY <1>2, <1>4, <1>5, <1>6, <1>7, <2>8 DEF Abs!Slice, SpanNow
<1>8. CASE ~(i < view.len)
  <2>1. v = Cut(SpanNow, i, 0)
    BY <1>1, <1>6, <1>8, CutTrivial
  <2>2. v = Abs!Part(SpanNow, i, 0)
    BY <2>1, SliceTerms
  <2> QED BY <1>2, <1>4, <1>5, <1>6, <1>8, <2>2 DEF Abs!Slice, SpanNow
<1> QED BY <1>7, <1>8

\* The abstract read that is not short, in the terms above.
LEMMA TakeTerms ==
  ASSUME NEW n, NEW raw, ~(n > Len(RestNow)), bytes' = bytes, SpanNow' = SpanNow, ret'.code = "ok",
         raw => ret'.val = Abs!Part(RestNow, 0, n), RestNow' = Abs!Part(RestNow, n, Len(RestNow) - n)
  PROVE  Abs!Take(n, raw)
BY DEF Abs!Take, RestNow, SpanNow

\* A short read is refused and changes nothing; a read that is not short takes
\* its bytes off the front.
LEMMA TakeStep ==
  ASSUME Inv, NEW c, NEW n \in Nat, NEW v, NEW raw,
         \/ n > remaining /\ Short(c)
         \/ n <= remaining /\ Advances(c, v, n),
         raw => (n <= remaining => v = here(n))
  PROVE  Inv' /\ call' = c /\ Abs!Take(n, raw)
<1>1. Len(RestNow) = remaining /\ remaining \in Nat
  BY Sizes, NowIs DEF Inv
<1>2. CASE n > remaining
  <2>1. PICK e : e = <<>>
    OBVIOUS
  <2>2. Looks(c, "out_of_range", e)
    BY <1>1, <1>2, <2>1 DEF Short
  <2>3. /\ Inv' /\ bytes' = bytes /\ SpanNow' = SpanNow /\ RestNow' = RestNow
        /\ call' = c /\ ret' = [code |-> "out_of_range", val |-> e]
    BY <2>2, LooksStep
  <2>4. Abs!Same
    BY <2>3, SliceTerms
  <2> QED BY <1>1, <1>2, <2>1, <2>3, <2>4 DEF Abs!Take, RestNow
<1>3. CASE ~(n > remaining)
  <2>1. n <= remaining /\ Advances(c, v, n)
    BY <1>1, <1>3
  <2>2. /\ Inv' /\ bytes' = bytes /\ SpanNow' = SpanNow
        /\ RestNow' = Cut(RestNow, n, Len(RestNow) - n)
        /\ call' = c /\ ret' = [code |-> "ok", val |-> v]
    BY <2>1, AdvancesStep
  <2>3. RestNow' = Abs!Part(RestNow, n, Len(RestNow) - n)
    BY <2>2, SliceTerms
  <2>4. raw => ret'.val = Abs!Part(RestNow, 0, n)
    <3>1. here(n) = Cut(RestNow, 0, n)
      BY <2>1, HereIs DEF Inv
    <3>2. here(n) = Abs!Part(RestNow, 0, n)
      BY <3>1, SliceTerms
    <3>3. ret'.val = v
      BY <2>2
    <3>4. raw => v = here(n)
      BY <2>1, ZenonT(30)
    <3> QED BY <3>2, <3>3, <3>4, ZenonT(30)
  <2>5. ~(n > Len(RestNow)) /\ ret'.code = "ok"
    BY <1>1, <1>3, <2>2
  <2>6. Abs!Take(n, raw)
    BY <2>2, <2>3, <2>4, <2>5, TakeTerms, ZenonT(30)
  <2> QED BY <2>2, <2>6
<1> QED BY <1>2, <1>3

\* A read that hands out the bytes.
LEMMA TakesRaw ==
  ASSUME Inv, NEW c, NEW n \in Nat,
         \/ n > remaining /\ Short(c)
         \/ n <= remaining /\ Advances(c, here(n), n)
  PROVE  Inv' /\ call' = c /\ Abs!Take(n, TRUE)
<1>1. TRUE => (n <= remaining => here(n) = here(n))
  OBVIOUS
<1> QED BY <1>1, TakeStep, ZenonT(30)

\* A read that hands out what it makes of them, or nothing.
LEMMA Takes ==
  ASSUME Inv, NEW c, NEW n \in Nat, NEW v,
         \/ n > remaining /\ Short(c)
         \/ n <= remaining /\ Advances(c, v, n)
  PROVE  Inv' /\ call' = c /\ Abs!Take(n, FALSE)
<1>1. FALSE => (n <= remaining => v = here(n))
  OBVIOUS
<1> QED BY <1>1, TakeStep, ZenonT(30)

\* Skipping.
LEMMA SkipStep ==
  ASSUME Inv, NEW n \in Size, skip(n)
  PROVE  Inv' /\ Abs!Read(call')
<1>1. PICK c, e : c = <<"skip", n>> /\ e = <<>>
  OBVIOUS
<1>2. n \in Nat /\ c[1] = "skip" /\ c[2] = n
  BY <1>1, SizeAssumption
<1>3. \/ n > remaining /\ Short(c)
      \/ n <= remaining /\ Advances(c, e, n)
  BY <1>1 DEF skip
<1>4. Inv' /\ call' = c /\ Abs!Take(n, FALSE)
  BY <1>2, <1>3, Takes
<1> QED BY <1>2, <1>4 DEF Abs!Read

\* Reading a view.
LEMMA ReadViewStep ==
  ASSUME Inv, NEW n \in Size, read_view(n)
  PROVE  Inv' /\ Abs!Read(call')
<1>1. PICK c : c = <<"read_view", n>>
  OBVIOUS
<1>2. n \in Nat /\ c[1] = "read_view" /\ c[2] = n
  BY <1>1, SizeAssumption
<1>3. \/ n > remaining /\ Short(c)
      \/ n <= remaining /\ Advances(c, here(n), n)
  BY <1>1 DEF read_view
<1>4. Inv' /\ call' = c /\ Abs!Take(n, TRUE)
  BY <1>2, <1>3, TakesRaw
<1> QED BY <1>2, <1>4 DEF Abs!Read

\* Reading bytes into an array that may be null.
LEMMA ReadBytesStep ==
  ASSUME Inv, NEW given \in BOOLEAN, NEW n \in Size, read_bytes(given, n)
  PROVE  Inv' /\ Abs!Read(call')
<1>1. PICK c, e : c = <<"read_bytes", n, given>> /\ e = <<>>
  OBVIOUS
<1>2. n \in Nat /\ c[1] = "read_bytes" /\ c[2] = n /\ c[3] = given
  BY <1>1, SizeAssumption
<1>3. \/ n = 0 /\ Looks(c, "ok", e)
      \/ n > 0 /\ ~given /\ Looks(c, "null_pointer", e)
      \/ n > 0 /\ given /\ n > remaining /\ Short(c)
      \/ n > 0 /\ given /\ n <= remaining /\ Advances(c, here(n), n)
  BY <1>1, ZenonT(30) DEF read_bytes
<1>4. CASE n = 0 /\ Looks(c, "ok", e)
  <2>1. /\ Inv' /\ bytes' = bytes /\ SpanNow' = SpanNow /\ RestNow' = RestNow
        /\ call' = c /\ ret' = [code |-> "ok", val |-> e]
    BY <1>4, LooksStep
  <2>2. Len(RestNow) = remaining /\ remaining \in Nat /\ IsSeq(RestNow)
    BY Sizes, NowIs DEF Inv
  <2>3. e = Abs!Part(RestNow, 0, n)
    <3>1. PICK q : q = RestNow
      OBVIOUS
    <3>2. Cut(q, 0, 0) = <<>>
      BY CutTrivial
    <3>3. Abs!Part(q, 0, 0) = Cut(q, 0, 0)
      BY SliceTerms
    <3> QED BY <1>1, <1>4, <3>1, <3>2, <3>3
  <2>4. RestNow' = Abs!Part(RestNow, n, Len(RestNow) - n)
    <3>1. Len(RestNow) - n = Len(RestNow)
      BY <1>4, <2>2
    <3>2. PICK q, m : q = RestNow /\ m = Len(q)
      OBVIOUS
    <3>3. Cut(q, 0, m) = q
      BY <2>2, <3>2, CutTrivial
    <3>4. Abs!Part(q, 0, m) = Cut(q, 0, m)
      BY SliceTerms
    <3> QED BY <1>4, <2>1, <3>1, <3>2, <3>3, <3>4
  <2>5. ~(n > Len(RestNow))
    BY <1>4, <2>2
  <2>6. ret'.code = "ok" /\ ret'.val = Abs!Part(RestNow, 0, n)
    BY <2>1, <2>3
  <2>7. Abs!Take(n, TRUE)
    <3>1. /\ ~(n > Len(RestNow)) /\ bytes' = bytes /\ SpanNow' = SpanNow /\ ret'.code = "ok"
          /\ ret'.val = Abs!Part(RestNow, 0, n) /\ RestNow' = Abs!Part(RestNow, n, Len(RestNow) - n)
      BY <2>1, <2>4, <2>5, <2>6
    <3> QED BY <3>1, TakeTerms, ZenonT(30)
  <2>8. ~(c[2] > 0 /\ ~c[3])
    BY <1>2, <1>4
  <2> QED BY <1>2, <2>1, <2>7, <2>8, ZenonT(30) DEF Abs!Read
<1>5. CASE n > 0 /\ ~given /\ Looks(c, "null_pointer", e)
  <2>1. /\ Inv' /\ bytes' = bytes /\ SpanNow' = SpanNow /\ RestNow' = RestNow
        /\ call' = c /\ ret' = [code |-> "null_pointer", val |-> e]
    BY <1>5, LooksStep
  <2>2. Abs!Same /\ ret'.code = "null_pointer"
    BY <2>1, SliceTerms
  <2>3. c[2] > 0 /\ ~c[3]
    BY <1>2, <1>5
  <2> QED BY <1>2, <2>1, <2>2, <2>3, ZenonT(30) DEF Abs!Read
<1>6. CASE /\ n > 0 /\ given
           /\ \/ n > remaining /\ Short(c)
              \/ n <= remaining /\ Advances(c, here(n), n)
  <2>1. Inv' /\ call' = c /\ Abs!Take(n, TRUE)
    BY <1>2, <1>6, TakesRaw
  <2>2. ~(c[2] > 0 /\ ~c[3])
    BY <1>2, <1>6
  <2> QED BY <1>2, <2>1, <2>2, ZenonT(30) DEF Abs!Read
<1> QED BY <1>3, <1>4, <1>5, <1>6, ZenonT(30)

\* Peeking.
LEMMA PeekViewStep ==
  ASSUME Inv, NEW n \in Size, peek_view(n)
  PROVE  Inv' /\ Abs!Read(call')
<1>1. PICK c, e : c = <<"peek_view", n>> /\ e = <<>>
  OBVIOUS
<1>2. n \in Nat /\ c[1] = "peek_view" /\ c[2] = n
  BY <1>1, SizeAssumption
<1>3. Len(RestNow) = remaining /\ remaining \in Nat
  BY Sizes, NowIs DEF Inv
<1>4. CASE n > remaining
  <2>1. Looks(c, "out_of_range", e)
    BY <1>1, <1>2, <1>3, <1>4 DEF peek_view, Short
  <2>2. /\ Inv' /\ bytes' = bytes /\ SpanNow' = SpanNow /\ RestNow' = RestNow
        /\ call' = c /\ ret' = [code |-> "out_of_range", val |-> e]
    BY <2>1, LooksStep
  <2>3. Abs!Same
    BY <2>2, SliceTerms
  <2> QED BY <1>1, <1>2, <1>3, <1>4, <2>2, <2>3 DEF Abs!Read, RestNow
<1>5. CASE ~(n > remaining)
  <2>1. PICK v : v = here(n)
    OBVIOUS
  <2>2. Looks(c, "ok", v) /\ n <= remaining
    BY <1>1, <1>2, <1>3, <1>5, <2>1 DEF peek_view
  <2>3. /\ Inv' /\ bytes' = bytes /\ SpanNow' = SpanNow /\ RestNow' = RestNow
        /\ call' = c /\ ret' = [code |-> "ok", val |-> v]
    BY <2>2, LooksStep
  <2>4. Abs!Same
    BY <2>3, SliceTerms
  <2>5. v = Cut(RestNow, 0, n)
    BY <1>2, <2>1, <2>2, HereIs DEF Inv
  <2>6. v = Abs!Part(RestNow, 0, n)
    BY <2>5, SliceTerms
  <2> QED BY <1>2, <1>3, <1>5, <2>3, <2>4, <2>6 DEF Abs!Read, RestNow
<1> QED BY <1>4, <1>5

\* Reading an integer.
LEMMA ReadsStep ==
  ASSUME Inv, NEW kind \in Ints, NEW v, Reads(kind, v)
  PROVE  Inv' /\ Abs!Read(call')
<1>1. PICK c, e, n : c = <<"read", kind>> /\ e = <<v>> /\ n = Width[kind]
  OBVIOUS
<1>2. c[1] = "read" /\ c[2] = kind /\ n \in Nat
      /\ n = [u8 |-> 1, u16_be |-> 2, u32_be |-> 4, u32_le |-> 4, u64_be |-> 8][c[2]]
  BY <1>1 DEF Width, Ints
<1>3. remaining \in Nat
  BY Sizes DEF Inv
<1>4. \/ n > remaining /\ Short(c)
      \/ n <= remaining /\ Advances(c, e, n)
  BY <1>1, <1>2, <1>3 DEF Reads
<1>5. Inv' /\ call' = c /\ Abs!Take(n, FALSE)
  BY <1>2, <1>4, Takes
<1> QED BY <1>2, <1>5 DEF Abs!Read

\* What Array makes is as long as it is said to be, if a buffer could take it.
LEMMA ArrayIs ==
  ASSUME NEW len \in Size
  PROVE  IsSeq(Array(len)) /\ (len <= MAX_ALLOC_BYTES => Len(Array(len)) = len)
<1>1. PICK n, q : n = Lesser(len, MAX_ALLOC_BYTES) /\ q = Array(len)
  OBVIOUS
<1>2. n \in Nat /\ (len <= MAX_ALLOC_BYTES => n = len)
  BY <1>1, SizeAssumption DEF Lesser
<1>3. q \in [1 .. n -> {i % 2 : i \in 1 .. n}]
  BY <1>1 DEF Array
<1>4. IsSeq(q) /\ Len(q) = n
  BY <1>2, <1>3, FunIsSeq
<1> QED BY <1>1, <1>2, <1>4

\* The writer's operations, through write_bytes.
LEMMA WriterStep ==
  ASSUME Inv, WriterNext
  PROVE  Inv' /\ Abs!Write(call')
<1>1. ASSUME NEW len \in Raw, NEW given \in BOOLEAN, write_bytes("raw", 0, Array(len), len, given)
      PROVE  Inv' /\ Abs!Write(call')
  <2>1. PICK array, v, g : array = Array(len) /\ v = 0 /\ g = given
    OBVIOUS
  <2>2. len \in Size /\ len \in Nat
    BY WireAssumption, SizeAssumption
  <2>3. IsSeq(array) /\ (len <= MAX_ALLOC_BYTES => Len(array) = len)
    BY <2>1, <2>2, ArrayIs
  <2>4. write_bytes("raw", v, array, len, g)
    BY <1>1, <2>1, ZenonT(30)
  <2> QED BY <2>2, <2>3, <2>4, WriteStep, ZenonT(30)
<1>2. ASSUME NEW v, write_u8(v)
      PROVE  Inv' /\ Abs!Write(call')
  <2>1. PICK array, n : array = <<v>> /\ n = 1
    OBVIOUS
  <2>2. array \in Seq({v}) /\ Len(array) = n /\ n \in Nat
    BY <2>1
  <2>3. write_bytes("u8", v, array, n, TRUE) /\ IsSeq(array)
    BY <1>2, <2>1, <2>2, ZenonT(30) DEF write_u8, IsSeq
  <2> QED BY <2>2, <2>3, WriteStep, ZenonT(30)
<1>3. ASSUME NEW v, write_u16_be(v)
      PROVE  Inv' /\ Abs!Write(call')
  <2>1. PICK array, n : array = <<digit(v, 1), digit(v, 0)>> /\ n = 2
    OBVIOUS
  <2>2. array \in Seq({digit(v, 1), digit(v, 0)}) /\ Len(array) = n /\ n \in Nat
    BY <2>1
  <2>3. write_bytes("u16_be", v, array, n, TRUE) /\ IsSeq(array)
    BY <1>3, <2>1, <2>2, ZenonT(30) DEF write_u16_be, IsSeq
  <2> QED BY <2>2, <2>3, WriteStep, ZenonT(30)
<1>4. ASSUME NEW v, write_u32_be(v)
      PROVE  Inv' /\ Abs!Write(call')
  <2>1. PICK array, n : array = <<digit(v, 3), digit(v, 2), digit(v, 1), digit(v, 0)>> /\ n = 4
    OBVIOUS
  <2>2. array \in Seq({digit(v, 3), digit(v, 2), digit(v, 1), digit(v, 0)}) /\ Len(array) = n /\ n \in Nat
    BY <2>1
  <2>3. write_bytes("u32_be", v, array, n, TRUE) /\ IsSeq(array)
    BY <1>4, <2>1, <2>2, ZenonT(30) DEF write_u32_be, IsSeq
  <2> QED BY <2>2, <2>3, WriteStep, ZenonT(30)
<1>5. ASSUME NEW v, write_u32_le(v)
      PROVE  Inv' /\ Abs!Write(call')
  <2>1. PICK array, n : array = <<digit(v, 0), digit(v, 1), digit(v, 2), digit(v, 3)>> /\ n = 4
    OBVIOUS
  <2>2. array \in Seq({digit(v, 0), digit(v, 1), digit(v, 2), digit(v, 3)}) /\ Len(array) = n /\ n \in Nat
    BY <2>1
  <2>3. write_bytes("u32_le", v, array, n, TRUE) /\ IsSeq(array)
    BY <1>5, <2>1, <2>2, ZenonT(30) DEF write_u32_le, IsSeq
  <2> QED BY <2>2, <2>3, WriteStep, ZenonT(30)
<1>6. ASSUME NEW v, write_u64_be(v)
      PROVE  Inv' /\ Abs!Write(call')
  <2>1. PICK array, n : array = [i \in 1 .. 8 |-> digit(v, 7 - (i - 1))] /\ n = 8
    OBVIOUS
  <2>2. array \in [1 .. n -> {digit(v, 7 - (i - 1)) : i \in 1 .. n}] /\ n \in Nat
    BY <2>1
  <2>3. IsSeq(array) /\ Len(array) = n
    BY <2>2, FunIsSeq
  <2>4. write_bytes("u64_be", v, array, n, TRUE)
    BY <1>6, <2>1, ZenonT(30) DEF write_u64_be
  <2> QED BY <2>2, <2>3, <2>4, WriteStep, ZenonT(30)
<1> QED BY <1>1, <1>2, <1>3, <1>4, <1>5, <1>6, ZenonT(30) DEF WriterNext

\* The reader's operations.
LEMMA ReaderStep ==
  ASSUME Inv, ReaderNext
  PROVE  Inv' /\ Abs!Read(call')
<1>1. ASSUME NEW n \in Size, skip(n) \/ read_view(n) \/ peek_view(n)
      PROVE  Inv' /\ Abs!Read(call')
  BY <1>1, SkipStep, ReadViewStep, PeekViewStep
<1>2. ASSUME NEW n \in Size, NEW given \in BOOLEAN, read_bytes(given, n)
      PROVE  Inv' /\ Abs!Read(call')
  BY <1>2, ReadBytesStep, ZenonT(30)
<1>3. ASSUME read_u8 \/ read_u16_be \/ read_u32_be \/ read_u32_le \/ read_u64_be
      PROVE  Inv' /\ Abs!Read(call')
  <2>1. \E kind \in Ints : \E v : Reads(kind, v)
    <3>1. {"u8", "u16_be", "u32_be", "u32_le", "u64_be"} \subseteq Ints
      BY DEF Ints, Width
    <3> QED BY <1>3, <3>1, ZenonT(30) DEF read_u8, read_u16_be, read_u32_be, read_u32_le, read_u64_be
  <2> QED BY <2>1, ReadsStep
<1> QED BY <1>1, <1>2, <1>3, ZenonT(30) DEF ReaderNext

\* Every step.
LEMMA NextStep ==
  ASSUME Inv, [Next]_vars
  PROVE  Inv' /\ [Abs!Next]_<<bytes, SpanNow, RestNow, call, ret>>
<1>1. CASE WriterNext
  BY <1>1, WriterStep DEF Abs!Next
<1>2. CASE SpanNext
  <2>1. Inv' /\ Abs!Slice(call')
    BY <1>2, OpenStep, FirstStep, LastStep, AtStep, SubspanStep, ZenonT(30) DEF SpanNext
  <2> QED BY <2>1 DEF Abs!Next
<1>3. CASE ReaderNext
  BY <1>3, ReaderStep DEF Abs!Next
<1>4. CASE UNCHANGED vars
  <2>1. /\ bytes' = bytes /\ written' = written /\ start' = start /\ fields' = fields
        /\ view' = view /\ pos' = pos /\ call' = call /\ ret' = ret
    BY <1>4 DEF vars
  <2>2. Inv'
    BY <2>1 DEF Inv, Bounds, FieldsInside, WritesWhole
  <2>3. SpanNow' = SpanNow /\ RestNow' = RestNow
    BY <2>1 DEF SpanNow, RestNow
  <2> QED BY <2>1, <2>2, <2>3
<1> QED BY <1>1, <1>2, <1>3, <1>4 DEF Next

-----------------------------------------------------------------------------
(***************************************************************************)
(* What was written is read.                                               *)
(***************************************************************************)

\* The byte at offset j of an integer is this digit of it.
Order(kind, j) == IF kind = "u32_le" THEN j ELSE Width[kind] - 1 - j

\* Every accepted integer is in the buffer, in its byte order.
Encoded ==
  \A f \in fields : f.kind \in Ints =>
    /\ f.len = Width[f.kind]
    /\ f.val \in Values[f.kind]
    /\ \A j \in 0 .. f.len - 1 : bytes[f.at + 1 + j] = digit(f.val, Order(f.kind, j))

Coded == Inv /\ Encoded

\* The widths as numbers.
LEMMA Widths ==
  /\ Ints = {"u8", "u16_be", "u32_be", "u32_le", "u64_be"}
  /\ Width["u8"] = 1 /\ Width["u16_be"] = 2 /\ Width["u32_be"] = 4 /\ Width["u32_le"] = 4
  /\ Width["u64_be"] = 8 /\ "raw" \notin Ints
  /\ \A kind \in Ints : Width[kind] \in 1 .. 8
BY DEF Ints, Width

\* A write that puts down an integer's digits, or none of an integer.
LEMMA WriteCodes ==
  ASSUME Coded, NEW kind, NEW v, NEW array, IsSeq(array), NEW len \in Nat, NEW given,
         len <= MAX_ALLOC_BYTES => Len(array) = len, write_bytes(kind, v, array, len, given),
         kind \in Ints => /\ len = Width[kind] /\ v \in Values[kind] /\ Len(array) = len
                          /\ \A j \in 0 .. len - 1 : array[1 + j] = digit(v, Order(kind, j))
  PROVE  Encoded'
<1>1. IsSeq(bytes) /\ Len(bytes) \in Nat /\ FieldsInside
  BY Sizes DEF Coded, Inv, Bounds
<1>2. CASE bytes' = bytes /\ fields' = fields
  BY <1>2 DEF Coded, Encoded
<1>3. CASE /\ bytes' = bytes \o array
           /\ fields' = fields \cup (IF len = 0 THEN {} ELSE
                 {[at |-> Len(bytes), len |-> len, kind |-> kind, val |-> v]})
  <2>1. PICK e, n, q : /\ e = [at |-> n, len |-> len, kind |-> kind, val |-> v]
                       /\ n = Len(bytes) /\ q = bytes'
    OBVIOUS
  <2>2. e.at = n /\ e.len = len /\ e.kind = kind /\ e.val = v /\ \A f \in fields' : f \in fields \/ f = e
    BY <1>3, <2>1
  <2>3. /\ \A i \in 1 .. n : q[i] = bytes[i]
        /\ \A i \in 1 .. Len(array) : q[n + i] = array[i]
    <3>1. PICK S : bytes \in Seq(S)
      BY <1>1 DEF IsSeq
    <3>2. PICK T : array \in Seq(T)
      BY DEF IsSeq
    <3>3. bytes \in Seq(S \cup T) /\ array \in Seq(S \cup T)
      BY <3>1, <3>2, SeqMonotonic
    <3> QED BY <1>3, <2>1, <3>3, ConcatProperties
  <2>4. ASSUME NEW f \in fields, f.kind \in Ints
        PROVE  /\ f.len = Width[f.kind] /\ f.val \in Values[f.kind]
               /\ \A j \in 0 .. f.len - 1 : q[f.at + 1 + j] = digit(f.val, Order(f.kind, j))
    <3>1. /\ f.len = Width[f.kind] /\ f.val \in Values[f.kind]
          /\ \A j \in 0 .. f.len - 1 : bytes[f.at + 1 + j] = digit(f.val, Order(f.kind, j))
      BY <2>4 DEF Coded, Encoded
    <3>2. f.at \in Nat /\ f.len \in Nat /\ f.at + f.len <= n
      BY <1>1, <2>1 DEF FieldsInside
    <3>3. \A j \in 0 .. f.len - 1 : f.at + 1 + j \in 1 .. n
      BY <1>1, <2>1, <3>2
    <3> QED BY <2>3, <3>1, <3>3
  <2>5. ASSUME kind \in Ints
        PROVE  /\ e.len = Width[e.kind] /\ e.val \in Values[e.kind]
               /\ \A j \in 0 .. e.len - 1 : q[e.at + 1 + j] = digit(e.val, Order(e.kind, j))
    <3>1. /\ len = Width[kind] /\ v \in Values[kind] /\ Len(array) = len
          /\ \A j \in 0 .. len - 1 : array[1 + j] = digit(v, Order(kind, j))
      BY <2>5
    <3>2. ASSUME NEW j \in 0 .. len - 1 PROVE q[n + 1 + j] = digit(v, Order(kind, j))
      <4>1. 1 + j \in 1 .. Len(array) /\ n + (1 + j) = n + 1 + j
        BY <1>1, <2>1, <3>1
      <4> QED BY <2>3, <3>1, <4>1
    <3> QED BY <2>2, <3>1, <3>2
  <2> QED BY <2>1, <2>2, <2>4, <2>5 DEF Encoded
<1> QED BY <1>2, <1>3 DEF write_bytes

\* The writer's operations put down digits in their order.
LEMMA WriterCodes ==
  ASSUME Coded, WriterNext
  PROVE  Encoded'
<1>1. ASSUME NEW len \in Raw, NEW given \in BOOLEAN, write_bytes("raw", 0, Array(len), len, given)
      PROVE  Encoded'
  <2>1. PICK array, v, kind : array = Array(len) /\ v = 0 /\ kind = "raw"
    OBVIOUS
  <2>2. len \in Size /\ len \in Nat
    BY WireAssumption, SizeAssumption
  <2>3. IsSeq(array) /\ (len <= MAX_ALLOC_BYTES => Len(array) = len)
    BY <2>1, <2>2, ArrayIs
  <2>4. write_bytes(kind, v, array, len, given) /\ kind \notin Ints
    BY <1>1, <2>1, Widths, ZenonT(30)
  <2> QED BY <2>2, <2>3, <2>4, WriteCodes, ZenonT(30)
<1>2. ASSUME NEW v \in Values["u8"], write_u8(v)
      PROVE  Encoded'
  <2>1. PICK array, n, kind, given : array = <<digit(v, 0)>> /\ n = 1 /\ kind = "u8" /\ given = TRUE
    OBVIOUS
  <2>2. array \in Seq({digit(v, 0)}) /\ Len(array) = n /\ n \in Nat
    BY <2>1
  <2>3. IsSeq(array) /\ Len(array) = n
    BY <2>2 DEF IsSeq
  <2>6. digit(v, 0) = v
    <3>1. v \in Nat /\ v < Base ^ 1
      BY ValuesAssumption, Widths
    <3> QED BY <3>1, DigitsSum
  <2>4. write_bytes(kind, v, array, n, given)
    BY <1>2, <2>1, <2>6, ZenonT(30) DEF write_u8
  <2>5. n = Width[kind] /\ v \in Values[kind] /\ \A j \in 0 .. n - 1 : array[1 + j] = digit(v, Order(kind, j))
    BY <2>1, Widths DEF Order
  <2> QED BY <2>2, <2>3, <2>4, <2>5, WriteCodes, ZenonT(30)
<1>3. ASSUME NEW v \in Values["u16_be"], write_u16_be(v)
      PROVE  Encoded'
  <2>1. PICK array, n, kind, given : array = <<digit(v, 1), digit(v, 0)>> /\ n = 2
                                     /\ kind = "u16_be" /\ given = TRUE
    OBVIOUS
  <2>2. array \in Seq({digit(v, 1), digit(v, 0)}) /\ Len(array) = n /\ n \in Nat
    BY <2>1
  <2>3. IsSeq(array) /\ Len(array) = n
    BY <2>2 DEF IsSeq
  <2>4. write_bytes(kind, v, array, n, given)
    BY <1>3, <2>1, ZenonT(30) DEF write_u16_be
  <2>5. n = Width[kind] /\ v \in Values[kind] /\ \A j \in 0 .. n - 1 : array[1 + j] = digit(v, Order(kind, j))
    BY <2>1, Widths DEF Order
  <2> QED BY <2>2, <2>3, <2>4, <2>5, WriteCodes, ZenonT(30)
<1>4. ASSUME NEW v \in Values["u32_be"], write_u32_be(v)
      PROVE  Encoded'
  <2>1. PICK array, n, kind, given : array = <<digit(v, 3), digit(v, 2), digit(v, 1), digit(v, 0)>> /\ n = 4
                                     /\ kind = "u32_be" /\ given = TRUE
    OBVIOUS
  <2>2. array \in Seq({digit(v, 3), digit(v, 2), digit(v, 1), digit(v, 0)}) /\ Len(array) = n /\ n \in Nat
    BY <2>1
  <2>3. IsSeq(array) /\ Len(array) = n
    BY <2>2 DEF IsSeq
  <2>4. write_bytes(kind, v, array, n, given)
    BY <1>4, <2>1, ZenonT(30) DEF write_u32_be
  <2>5. n = Width[kind] /\ v \in Values[kind] /\ \A j \in 0 .. n - 1 : array[1 + j] = digit(v, Order(kind, j))
    BY <2>1, Widths DEF Order
  <2> QED BY <2>2, <2>3, <2>4, <2>5, WriteCodes, ZenonT(30)
<1>5. ASSUME NEW v \in Values["u32_le"], write_u32_le(v)
      PROVE  Encoded'
  <2>1. PICK array, n, kind, given : array = <<digit(v, 0), digit(v, 1), digit(v, 2), digit(v, 3)>> /\ n = 4
                                     /\ kind = "u32_le" /\ given = TRUE
    OBVIOUS
  <2>2. array \in Seq({digit(v, 0), digit(v, 1), digit(v, 2), digit(v, 3)}) /\ Len(array) = n /\ n \in Nat
    BY <2>1
  <2>3. IsSeq(array) /\ Len(array) = n
    BY <2>2 DEF IsSeq
  <2>4. write_bytes(kind, v, array, n, given)
    BY <1>5, <2>1, ZenonT(30) DEF write_u32_le
  <2>5. n = Width[kind] /\ v \in Values[kind] /\ \A j \in 0 .. n - 1 : array[1 + j] = digit(v, Order(kind, j))
    BY <2>1, Widths DEF Order
  <2> QED BY <2>2, <2>3, <2>4, <2>5, WriteCodes, ZenonT(30)
<1>6. ASSUME NEW v \in Values["u64_be"], write_u64_be(v)
      PROVE  Encoded'
  <2>1. PICK array, n, kind, given : array = [i \in 1 .. 8 |-> digit(v, 7 - (i - 1))] /\ n = 8
                                     /\ kind = "u64_be" /\ given = TRUE
    OBVIOUS
  <2>2. array \in [1 .. n -> {digit(v, 7 - (i - 1)) : i \in 1 .. n}] /\ n \in Nat
    BY <2>1
  <2>3. IsSeq(array) /\ Len(array) = n
    BY <2>2, FunIsSeq
  <2>4. write_bytes(kind, v, array, n, given)
    BY <1>6, <2>1, ZenonT(30) DEF write_u64_be
  <2>5. n = Width[kind] /\ v \in Values[kind] /\ \A j \in 0 .. n - 1 : array[1 + j] = digit(v, Order(kind, j))
    BY <2>1, Widths DEF Order
  <2> QED BY <2>2, <2>3, <2>4, <2>5, WriteCodes, ZenonT(30)
<1> QED BY <1>1, <1>2, <1>3, <1>4, <1>5, <1>6, ZenonT(30) DEF WriterNext

\* Every step.
LEMMA CodedStep ==
  ASSUME Coded, [Next]_vars
  PROVE  Coded'
<1>1. Inv'
  BY NextStep DEF Coded
<1>2. CASE WriterNext
  BY <1>1, <1>2, WriterCodes DEF Coded
<1>3. ASSUME bytes' = bytes /\ fields' = fields PROVE Coded'
  BY <1>1, <1>3 DEF Coded, Encoded
<1>4. CASE SpanNext
  BY <1>3, <1>4 DEF SpanNext, open, first, last, at, subspan, Spans, Looks
<1>5. CASE ReaderNext
  BY <1>3, <1>5 DEF ReaderNext, read_u8, read_u16_be, read_u32_be, read_u32_le, read_u64_be, Reads,
       skip, read_view, peek_view, read_bytes, Short, Looks, Advances
<1>6. CASE UNCHANGED vars
  BY <1>3, <1>6 DEF vars
<1> QED BY <1>2, <1>4, <1>5, <1>6 DEF Next

\* The reader whose cursor is at an integer has its digits before it.
LEMMA Before ==
  ASSUME Coded, NEW f \in fields, f.kind \in Ints, f.at = view.off + pos,
         f.at + f.len <= view.off + view.len
  PROVE  /\ f.val \in Nat /\ f.val < Base ^ Width[f.kind]
         /\ remaining \in Nat /\ remaining >= Width[f.kind]
         /\ \A j \in 0 .. Width[f.kind] - 1 : data(pos + j) = digit(f.val, Order(f.kind, j))
<1>1. PICK o, n, p, w : o = view.off /\ n = view.len /\ p = pos /\ w = Width[f.kind]
  OBVIOUS
<1>2. /\ o \in Nat /\ n \in Nat /\ p \in Nat /\ p <= n /\ o + n <= Len(bytes) /\ Len(bytes) \in Nat
      /\ remaining = n - p /\ remaining \in Nat
  BY <1>1, Sizes DEF Coded, Inv, Bounds
<1>3. /\ f.len = w /\ f.val \in Values[f.kind] /\ w \in 1 .. 8 /\ f.at = o + p
      /\ \A j \in 0 .. w - 1 : bytes[f.at + 1 + j] = digit(f.val, Order(f.kind, j))
  BY <1>1, Widths DEF Coded, Encoded
<1>4. f.val \in Nat /\ f.val < Base ^ Width[f.kind]
  BY <1>3, ValuesAssumption
<1>5. o + p + w <= o + n
  BY <1>1, <1>3
<1>6. ASSUME NEW j \in 0 .. w - 1 PROVE data(p + j) = digit(f.val, Order(f.kind, j))
  <2>1. o + (p + j) < Len(bytes) /\ o + (p + j) + 1 = f.at + 1 + j
    BY <1>2, <1>3, <1>5
  <2>2. PICK a \in Nat : a = o + (p + j) /\ a < Len(bytes) /\ a + 1 = f.at + 1 + j
    BY <1>2, <2>1
  <2>3. data(p + j) = Load(a)
    BY <1>1, <2>2 DEF data
  <2>4. Load(a) = bytes[a + 1]
    BY <2>2 DEF Load
  <2> QED BY <1>3, <2>2, <2>3, <2>4
<1>7. remaining >= w
  BY <1>2, <1>3, <1>5
<1> QED BY <1>1, <1>2, <1>4, <1>6, <1>7

\* The loop of read_u64_be puts eight digits together.
LEMMA RoundsAre ==
  ASSUME pos \in Nat, NEW v \in Nat, v < Base ^ 8, \A j \in 0 .. 7 : data(pos + j) = digit(v, 7 - j)
  PROVE  rounds[8] = v
<1>1. /\ \A i \in 0 .. 8 : Rest(v, i) \in Nat
      /\ \A i \in 0 .. 7 : Rest(v, i) = Rest(v, i + 1) * Base + digit(v, i)
      /\ Rest(v, 8) = 0 /\ Rest(v, 0) = v
  BY Digits
<1>2. ASSUME NEW i \in 1 .. 8
      PROVE  data(pos + i - 1) = digit(v, 8 - i) /\ Rest(v, 8 - i) = Rest(v, 8 - (i - 1)) * Base + digit(v, 8 - i)
  <2>1. PICK j \in 0 .. 7, k \in 0 .. 7 : /\ j = i - 1 /\ k = 8 - i
                                          /\ k = 7 - j /\ k + 1 = 8 - (i - 1)
    OBVIOUS
  <2>2. pos + i - 1 = pos + j
    BY <2>1
  <2>3. data(pos + j) = digit(v, k)
    BY <2>1
  <2>4. Rest(v, k) = Rest(v, k + 1) * Base + digit(v, k)
    BY <1>1
  <2> QED BY <2>1, <2>2, <2>3, <2>4
<1>3. PICK g : g = [i \in 0 .. 8 |-> Rest(v, 8 - i)]
  OBVIOUS
<1>4. g = [i \in 0 .. 8 |-> IF i = 0 THEN 0 ELSE g[i - 1] * Base + data(pos + i - 1)]
  <2>1. g[0] = 0
    BY <1>1, <1>3
  <2>2. ASSUME NEW i \in 1 .. 8 PROVE g[i] = g[i - 1] * Base + data(pos + i - 1)
    <3>1. g[i] = Rest(v, 8 - i) /\ g[i - 1] = Rest(v, 8 - (i - 1))
      BY <1>3
    <3> QED BY <1>2, <3>1
  <2>3. g = [i \in 0 .. 8 |-> g[i]]
    BY <1>3
  <2>4. \A i \in 0 .. 8 : g[i] = IF i = 0 THEN 0 ELSE g[i - 1] * Base + data(pos + i - 1)
    BY <2>1, <2>2
  <2> QED BY <2>3, <2>4
<1>5. rounds = [i \in 0 .. 8 |-> IF i = 0 THEN 0 ELSE rounds[i - 1] * Base + data(pos + i - 1)]
  BY <1>4, Zenon DEF rounds
<1> HIDE DEF rounds
<1>6. rounds[0] = Rest(v, 8)
  BY <1>1, <1>5
<1>7. ASSUME NEW i \in 1 .. 8, rounds[i - 1] = Rest(v, 8 - (i - 1)) PROVE rounds[i] = Rest(v, 8 - i)
  <2>1. rounds[i] = rounds[i - 1] * Base + data(pos + i - 1)
    BY <1>5
  <2> QED BY <1>2, <1>7, <2>1
<1>8. rounds[1] = Rest(v, 7)
  BY <1>6, <1>7
<1>9. rounds[2] = Rest(v, 6)
  BY <1>7, <1>8
<1>10. rounds[3] = Rest(v, 5)
  BY <1>7, <1>9
<1>11. rounds[4] = Rest(v, 4)
  BY <1>7, <1>10
<1>12. rounds[5] = Rest(v, 3)
  BY <1>7, <1>11
<1>13. rounds[6] = Rest(v, 2)
  BY <1>7, <1>12
<1>14. rounds[7] = Rest(v, 1)
  BY <1>7, <1>13
<1>15. rounds[8] = Rest(v, 0)
  BY <1>7, <1>14
<1> QED BY <1>1, <1>15

\* An integer read from where one was written.
LEMMA ReadsBack ==
  ASSUME Coded, NEW f \in fields, f.at = view.off + pos, f.at + f.len <= view.off + view.len,
         NEW kind \in Ints, NEW v, Reads(kind, v), call' = <<"read", f.kind>>,
         f.kind = kind => v = f.val
  PROVE  ret' = [code |-> "ok", val |-> <<f.val>>]
<1>1. call' = <<"read", kind>>
  BY DEF Reads, Short, Looks, Advances, Returns
<1>2. f.kind = kind
  BY <1>1
<1>3. remaining \in Nat /\ Width[kind] \in Nat /\ remaining >= Width[kind]
  BY <1>2, Before, Widths
<1>4. Advances(<<"read", kind>>, <<v>>, Width[kind])
  BY <1>3 DEF Reads
<1> QED BY <1>2, <1>4 DEF Advances, Returns

\* Only the integer reads are called so.
LEMMA ReadCalls ==
  ASSUME Inv, Next, NEW kind, call' = <<"read", kind>>
  PROVE  read_u8 \/ read_u16_be \/ read_u32_be \/ read_u32_le \/ read_u64_be
<1>1. call'[1] = "read"
  OBVIOUS
<1>2. ~ WriterNext
  BY <1>1, WriterStep DEF Abs!Write
<1>3. ~ SpanNext
  BY <1>1 DEF SpanNext, open, first, last, at, subspan, Spans, Looks, Returns
<1>4. ASSUME NEW n, skip(n) \/ read_view(n) \/ peek_view(n) PROVE FALSE
  BY <1>1, <1>4 DEF skip, read_view, peek_view, Short, Looks, Advances, Returns
<1>5. ASSUME NEW n, NEW given, read_bytes(given, n) PROVE FALSE
  BY <1>1, <1>5 DEF read_bytes, Short, Looks, Advances, Returns
<1> QED BY <1>2, <1>3, <1>4, <1>5 DEF Next, ReaderNext

\* What the reader finds where an integer was written is that integer.
LEMMA ComesBack ==
  ASSUME Coded, Next, NEW f \in fields, call' = <<"read", f.kind>>,
         f.at = view.off + pos, f.at + f.len <= view.off + view.len
  PROVE  ret' = [code |-> "ok", val |-> <<f.val>>]
<1>0. pos \in Nat /\ pos + 0 = pos
  BY DEF Coded, Inv, Bounds
<1>1. CASE read_u8
  <2>1. ASSUME f.kind = "u8" PROVE data(pos) = f.val
    <3>1. f.val \in Nat /\ f.val < Base ^ 1 /\ data(pos + 0) = digit(f.val, 0)
      BY <2>1, Before, Widths DEF Order
    <3> QED BY <1>0, <3>1, DigitsSum
  <2> QED BY <1>1, <2>1, Widths, ReadsBack DEF read_u8
<1>2. CASE read_u16_be
  <2>1. PICK v : v = shifted(0, 1) + shifted(1, 0)
    OBVIOUS
  <2>2. ASSUME f.kind = "u16_be" PROVE v = f.val
    <3>1. /\ f.val \in Nat /\ f.val < Base ^ 2
          /\ data(pos + 0) = digit(f.val, 1) /\ data(pos + 1) = digit(f.val, 0)
      BY <2>2, Before, Widths DEF Order
    <3> QED BY <2>1, <3>1, DigitsSum DEF shifted
  <2>3. Reads("u16_be", v)
    BY <1>2, <2>1 DEF read_u16_be
  <2> QED BY <2>2, <2>3, Widths, ReadsBack
<1>3. CASE read_u32_be
  <2>1. PICK v : v = shifted(0, 3) + shifted(1, 2) + shifted(2, 1) + shifted(3, 0)
    OBVIOUS
  <2>2. ASSUME f.kind = "u32_be" PROVE v = f.val
    <3>1. /\ f.val \in Nat /\ f.val < Base ^ 4
          /\ data(pos + 0) = digit(f.val, 3) /\ data(pos + 1) = digit(f.val, 2)
          /\ data(pos + 2) = digit(f.val, 1) /\ data(pos + 3) = digit(f.val, 0)
      BY <2>2, Before, Widths DEF Order
    <3> QED BY <2>1, <3>1, DigitsSum DEF shifted
  <2>3. Reads("u32_be", v)
    BY <1>3, <2>1 DEF read_u32_be
  <2> QED BY <2>2, <2>3, Widths, ReadsBack
<1>4. CASE read_u32_le
  <2>1. PICK v : v = shifted(0, 0) + shifted(1, 1) + shifted(2, 2) + shifted(3, 3)
    OBVIOUS
  <2>2. ASSUME f.kind = "u32_le" PROVE v = f.val
    <3>1. /\ f.val \in Nat /\ f.val < Base ^ 4
          /\ data(pos + 0) = digit(f.val, 0) /\ data(pos + 1) = digit(f.val, 1)
          /\ data(pos + 2) = digit(f.val, 2) /\ data(pos + 3) = digit(f.val, 3)
      BY <2>2, Before, Widths DEF Order
    <3> QED BY <2>1, <3>1, DigitsSum DEF shifted
  <2>3. Reads("u32_le", v)
    BY <1>4, <2>1 DEF read_u32_le
  <2> QED BY <2>2, <2>3, Widths, ReadsBack
<1>5. CASE read_u64_be
  <2>1. PICK v : v = rounds[8]
    OBVIOUS
  <2>2. ASSUME f.kind = "u64_be" PROVE v = f.val
    <3>1. /\ f.val \in Nat /\ f.val < Base ^ 8
          /\ \A j \in 0 .. 7 : data(pos + j) = digit(f.val, 7 - j)
      BY <2>2, Before, Widths DEF Order
    <3> QED BY <1>0, <2>1, <3>1, RoundsAre
  <2>3. Reads("u64_be", v)
    BY <1>5, <2>1 DEF read_u64_be
  <2> QED BY <2>2, <2>3, Widths, ReadsBack
<1>6. Inv
  BY DEF Coded
<1> QED BY <1>1, <1>2, <1>3, <1>4, <1>5, <1>6, ReadCalls

\* The length the example declares is the integer in front of the frame.
LEMMA FramesRight ==
  Coded => FramesParse
<1> SUFFICES ASSUME Coded, NEW f \in fields, NEW n \in 0 .. Len(bytes), f.at = 0, f.kind = "u32_be"
             PROVE  LET r == parse_framed_message(n)
                    IN  /\ r.code = "ok" <=> n >= 4 + f.val
                        /\ r.code = "ok" => r.payload = [i \in 1 .. f.val |-> bytes[4 + i]]
  BY DEF FramesParse
<1>1. /\ Len(bytes) \in Nat /\ Len(bytes) <= SIZE_MAX /\ SIZE_MAX \in Nat
  BY Sizes DEF Coded, Inv
<1>2. /\ f.len = 4 /\ f.len <= Len(bytes) /\ f.val \in Values["u32_be"]
      /\ \A j \in 0 .. 3 : bytes[1 + j] = digit(f.val, 3 - j)
  <2>1. /\ f.len = 4 /\ f.val \in Values["u32_be"]
        /\ \A j \in 0 .. f.len - 1 : bytes[f.at + 1 + j] = digit(f.val, Order("u32_be", j))
    BY Widths DEF Coded, Encoded
  <2>2. \A j \in 0 .. 3 : bytes[1 + j] = digit(f.val, 3 - j)
    <3>1. \A j \in 0 .. 3 : Order("u32_be", j) = 3 - j /\ f.at + 1 + j = 1 + j
      BY Widths DEF Order
    <3> QED BY <2>1, <3>1
  <2>3. f.len <= Len(bytes)
    BY <2>1 DEF Coded, Inv, FieldsInside
  <2> QED BY <2>1, <2>2, <2>3
<1>3. PICK v \in Nat : v = f.val /\ v < Base ^ 4
  BY <1>2, ValuesAssumption, Widths
<1>4. Load(0) = digit(v, 3) /\ Load(1) = digit(v, 2) /\ Load(2) = digit(v, 1) /\ Load(3) = digit(v, 0)
  <2>1. bytes[1] = digit(v, 3) /\ bytes[2] = digit(v, 2) /\ bytes[3] = digit(v, 1) /\ bytes[4] = digit(v, 0)
    BY <1>2, <1>3
  <2> QED BY <1>1, <1>2, <2>1 DEF Load
<1>5. declared = v
  <2>1. digit(v, 0) \in Nat /\ digit(v, 0) * Base ^ 0 = digit(v, 0) /\ Base ^ 1 = Base
    <3>1. \A i \in 0 .. 7 : digit(v, i) \in Nat
      BY <1>3, Digits, Zenon
    <3>2. digit(v, 0) \in Nat
      BY <3>1
    <3> QED BY <3>2, Places
  <2> QED BY <1>3, <1>4, <2>1, DigitsSum DEF declared
<1>6. CASE n < 4
  <2>1. parse_framed_message(n).code = "parse_error"
    BY <1>6 DEF parse_framed_message, Rejected
  <2> QED BY <1>3, <1>6, <2>1
<1>7. CASE ~ (n < 4)
  <2>1. PICK end : end = checked_add(4, v)
    OBVIOUS
  <2>2. IF 4 + v <= SIZE_MAX THEN end = 4 + v ELSE end = Nullopt
    <3>1. CASE 4 + v <= SIZE_MAX
      <4>1. Wrap(4 + v) = 4 + v
        BY <1>3, <3>1, WrapExact
      <4> QED BY <1>1, <1>3, <2>1, <3>1, <4>1 DEF checked_add
    <3>2. CASE ~ (4 + v <= SIZE_MAX)
      BY <1>1, <1>3, <2>1, <3>2 DEF checked_add
    <3> QED BY <3>1, <3>2
  <2>3. PICK r : r = parse_framed_message(n)
    OBVIOUS
  <2>4. r = IF end = Nullopt THEN Rejected("overflow")
            ELSE IF end > n THEN Rejected("parse_error") ELSE from_bytes(4, v)
    BY <1>5, <1>7, <2>1, <2>3 DEF parse_framed_message
  <2>5. CASE 4 + v <= n
    <3>1. end = 4 + v /\ r = from_bytes(4, v)
      BY <1>1, <1>3, <2>2, <2>4, <2>5
    <3>2. ASSUME NEW i \in 1 .. v PROVE Load(4 + i - 1) = bytes[4 + i]
      <4>1. PICK a \in Nat : a = 4 + i - 1 /\ a < Len(bytes) /\ a + 1 = 4 + i
        BY <1>1, <1>3, <2>5
      <4> QED BY <4>1 DEF Load
    <3>3. r.code = "ok" /\ r.payload = [i \in 1 .. v |-> bytes[4 + i]]
      BY <3>1, <3>2 DEF from_bytes
    <3> QED BY <1>3, <2>3, <2>5, <3>3
  <2>6. CASE ~ (4 + v <= n)
    <3>1. r.code # "ok"
      BY <1>1, <1>3, <2>2, <2>4, <2>6 DEF Rejected
    <3> QED BY <1>3, <2>3, <2>6, <3>1
  <2> QED BY <2>5, <2>6
<1> QED BY <1>6, <1>7

-----------------------------------------------------------------------------

\* The inductive invariant holds: buffer within the cap, span within the
\* buffer, cursor within the span, whatever is written, sliced and read.
THEOREM InvHolds ==
  Spec => []Inv
<1>1. Inv /\ [Next]_vars => Inv'
  BY NextStep
<1> QED BY InitInv, <1>1, PTL DEF Spec

\* A refused write, also in the middle of a message, leaves neither part of a
\* field nor a count behind (writer::write_bytes and all that goes through it).
THEOREM AlwaysWhole ==
  Spec => []WritesWhole
<1>1. Inv => WritesWhole
  BY DEF Inv
<1> QED BY InvHolds, <1>1, PTL

\* Span and reader are the sequences of AbstractReader: slices are parts, reads
\* take bytes off the front or nothing (span.h, reader.h).
THEOREM WireRefines ==
  Spec => Implements
<1>1. Init => Abs!Init
  <2> SUFFICES ASSUME Init PROVE Abs!Init
    OBVIOUS
  <2>1. view.off + 1 = 1 /\ view.off + view.len = 0 /\ view.off + pos + 1 = 1
    BY DEF Init, NoSpan
  <2>2. SubSeq(bytes, 1, 0) = <<>>
    BY SubSeqEmpty
  <2> QED BY <2>1, <2>2 DEF Abs!Init
<1>2. Inv /\ [Next]_vars => [Abs!Next]_<<bytes, SpanNow, RestNow, call, ret>>
  BY NextStep
<1>3. Inv /\ [Next]_vars => [Abs!Next]_<<bytes, SubSeq(bytes, view.off + 1, view.off + view.len),
                                         SubSeq(bytes, view.off + pos + 1, view.off + view.len), call, ret>>
  BY <1>2 DEF SpanNow, RestNow
<1> QED BY InvHolds, <1>1, <1>3, PTL DEF Spec, Implements, Abs!Spec

\* The invariant with the digits of what was written.
LEMMA CodedHolds ==
  Spec => []Coded
<1>1. Init => Coded
  BY InitInv DEF Coded, Encoded, Init
<1>2. Coded /\ [Next]_vars => Coded'
  BY CodedStep
<1> QED BY <1>1, <1>2, PTL DEF Spec

\* An integer the writer was given comes back from the reader whose cursor
\* reaches it, in both byte orders and every width, whatever was sliced,
\* skipped, peeked at and refused in between (writer.h, reader.h).
THEOREM AlwaysRoundTrip ==
  Spec => RoundTrip
<1>1. Coded /\ [Next]_vars =>
        [\A f \in fields :
           /\ call' = <<"read", f.kind>>
           /\ f.at = view.off + pos
           /\ f.at + f.len <= view.off + view.len
           => ret' = [code |-> "ok", val |-> <<f.val>>]]_vars
  BY ComesBack
<1> QED BY <1>1, CodedHolds, PTL DEF Spec, RoundTrip

\* The example's parser takes a frame exactly when all of it is in the input,
\* for every cut of the input and every declared length, those included at
\* which header plus length is no size_t (parse_framed_message.cpp).
THEOREM AlwaysFramesParse ==
  Spec => []FramesParse
BY CodedHolds, FramesRight, PTL
=============================================================================
