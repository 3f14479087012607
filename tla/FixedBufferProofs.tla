-------------------------- MODULE FixedBufferProofs --------------------------
(***************************************************************************)
(* Theorems about FixedBuffer, for every N, every number of objects and    *)
(* every width of size_t: the types with verify(), that nothing survives   *)
(* secure_clear, and that the buffer is the sequence of bytes of           *)
(* AbstractFixedBuffer.                                                    *)
(***************************************************************************)
EXTENDS FixedBuffer, SequenceTheorems, TLAPS

USE DEF Size, Nullopt

\* The slots past the history hold zero in dead objects too, since the next
\* object constructed there, or a copy of it, starts from them; and the bytes
\* in use lie below the history, since what an append adds above them is
\* otherwise not accounted for.
Accounted(x) == size[x] <= high[x] /\ \A i \in Slot : i >= high[x] => storage[x][i] = 0

Inv == TypeOK /\ \A x \in Obj : Accounted(x)

\* N bytes with a size and a history that go together.
Fits(st, n, top) ==
  /\ st \in [Slot -> Byte] /\ n \in 0 .. N /\ top \in 0 .. N /\ n <= top
  /\ \A i \in Slot : i >= top => st[i] = 0

-----------------------------------------------------------------------------
\* The invariant, object by object.
LEMMA InvFits == Inv <=> /\ alive \subseteq Obj
                         /\ storage \in [Obj -> [Slot -> Byte]]
                         /\ size \in [Obj -> 0 .. N] /\ high \in [Obj -> 0 .. N]
                         /\ \A x \in Obj : Fits(storage[x], size[x], high[x])
BY FixedBufferAssumption, SizeAssumption DEF Inv, TypeOK, Accounted, Fits, verify

\* Giving an object parts that go together keeps the invariant.
LEMMA SetsInv ==
  ASSUME Inv, NEW c, NEW x \in Obj, NEW st, NEW n, NEW top,
         Fits(st, n, top), Sets(c, x, st, n, top), alive' \subseteq Obj
  PROVE  Inv'
<1>1. /\ storage' = [storage EXCEPT ![x] = st]
      /\ size' = [size EXCEPT ![x] = n]
      /\ high' = [high EXCEPT ![x] = top]
  BY DEF Sets
<1>2. /\ storage' \in [Obj -> [Slot -> Byte]]
      /\ size' \in [Obj -> 0 .. N] /\ high' \in [Obj -> 0 .. N]
      /\ \A y \in Obj : Fits(storage'[y], size'[y], high'[y])
  BY <1>1, InvFits DEF Fits
<1> QED BY <1>2 DEF Inv, TypeOK, Accounted, Fits, verify

\* A call that leaves the bytes past both the new size and the history alone.
LEMMA EndsInv ==
  ASSUME Inv, NEW c, NEW x \in alive, NEW st \in [Slot -> Byte], NEW n \in 0 .. N,
         \A i \in Slot : i >= size[x] /\ i >= n => st[i] = storage[x][i],
         Ends(c, x, st, n)
  PROVE  Inv'
<1> DEFINE top == IF n > high[x] THEN n ELSE high[x]
<1>1. x \in Obj /\ Fits(storage[x], size[x], high[x]) /\ alive \subseteq Obj
  BY InvFits
<1>2. Fits(st, n, top)
  BY <1>1, FixedBufferAssumption, SizeAssumption DEF Fits, Slot
<1>3. Sets(c, x, st, n, top) /\ alive' = alive
  BY DEF Ends
<1> HIDE DEF top
<1> QED BY <1>1, <1>2, <1>3, SetsInv

\* A call that only looks keeps the invariant.
LEMMA LooksInv == \A c, code, val : Inv /\ Looks(c, code, val) => Inv'
BY DEF Looks, Inv, TypeOK, Accounted, verify

\* What an accepted append reads, inside the object itself or elsewhere, are
\* bytes.
LEMMA DerefByte ==
  ASSUME Inv, NEW s \in Source, NEW i \in Int, 0 <= i, i < s.len, s.of # Null,
         MayPass(s, FALSE)
  PROVE  Deref(s, i) \in Byte
<1>1. s.off \in 0 .. N /\ s.len \in Size
  BY DEF Source
<1>2. CASE s.of = Caller
  <2>1. s.of \notin alive
    BY <1>2, FixedBufferAssumption DEF Inv, TypeOK
  <2>2. s.off + i \in Slot
    BY <1>1, <2>1, FixedBufferAssumption, SizeAssumption DEF MayPass, Slot
  <2> QED BY <1>2, <2>2, FixedBufferAssumption DEF Deref
<1>3. CASE s.of # Caller
  <2>1. s.of \in alive /\ s.off + s.len <= size[s.of]
    BY <1>3 DEF MayPass
  <2>2. s.of \in Obj /\ size[s.of] \in 0 .. N /\ storage[s.of] \in [Slot -> Byte]
    BY <2>1 DEF Inv, TypeOK
  <2>3. s.off + i \in Slot
    BY <1>1, <2>1, <2>2, FixedBufferAssumption, SizeAssumption DEF Slot
  <2> QED BY <1>3, <2>2, <2>3 DEF Deref
<1> QED BY <1>2, <1>3

-----------------------------------------------------------------------------
\* One step per operation.

\* Construction, copies, destruction and the two clears.
LEMMA LifetimeInv ==
  ASSUME Inv, NEW x \in Obj,
         \/ Construct(x) \/ Destroy(x) \/ Clear(x) \/ SecureClear(x)
         \/ \E y \in Obj : CopyConstruct(x, y) \/ CopyAssign(x, y)
  PROVE  Inv'
<1>1. Fits(Zeroed, 0, 0) /\ \A y \in Obj : Fits(storage[y], size[y], high[y])
  BY InvFits, FixedBufferAssumption, SizeAssumption DEF Fits, Zeroed, Slot
<1>2. alive \subseteq Obj
  BY InvFits
<1>3. CASE Construct(x)
  BY <1>1, <1>2, <1>3, SetsInv DEF Construct
<1>4. CASE Destroy(x)
  BY <1>1, <1>2, <1>4, SetsInv DEF Destroy
<1>5. CASE SecureClear(x)
  BY <1>1, <1>2, <1>5, SetsInv DEF SecureClear
<1>6. CASE Clear(x)
  <2>1. storage[x] \in [Slot -> Byte] /\ 0 \in 0 .. N
    BY InvFits, FixedBufferAssumption, SizeAssumption
  <2> QED BY <1>6, <2>1, EndsInv DEF Clear
<1>7. ASSUME NEW y \in Obj, CopyConstruct(x, y) PROVE Inv'
  BY <1>1, <1>2, <1>7, SetsInv DEF CopyConstruct
<1>8. ASSUME NEW y \in Obj, CopyAssign(x, y) PROVE Inv'
  BY <1>1, <1>2, <1>8, SetsInv DEF CopyAssign
<1> QED BY <1>3, <1>4, <1>5, <1>6, <1>7, <1>8

\* The calls on bytes in place, resize and append(byte).
LEMMA InPlaceInv ==
  ASSUME Inv, NEW x \in Obj, NEW n \in Size, NEW v \in Byte,
         At(x, n) \/ Set(x, n, v) \/ Resize(x, n, v) \/ AppendByte(x, v) \/ Fill(x, v)
  PROVE  Inv'
<1>1. storage[x] \in [Slot -> Byte] /\ size[x] \in 0 .. N /\ N \in Nat
  BY InvFits, FixedBufferAssumption, SizeAssumption
<1>2. CASE At(x, n)
  BY <1>2, LooksInv DEF At
<1>3. CASE Set(x, n, v)
  <2>1. CASE n < size[x] /\ Ends(<<"set", x, n, v>>, x, Filled(storage[x], n, v, 1), size[x])
    <3> DEFINE st == Filled(storage[x], n, v, 1)
    <3>1. st \in [Slot -> Byte] /\ \A i \in Slot : i >= size[x] => st[i] = storage[x][i]
      BY <1>1, <2>1, SizeAssumption DEF Slot, Filled
    <3>2. x \in alive /\ Ends(<<"set", x, n, v>>, x, st, size[x])
      BY <1>3, <2>1 DEF Set
    <3> HIDE DEF st
    <3> QED BY <1>1, <3>1, <3>2, EndsInv
  <2> QED BY <1>3, <2>1, LooksInv DEF Set
<1>4. CASE Resize(x, n, v)
  <2>1. CASE n <= N /\ Ends(<<"resize", x, n, v>>, x, Filled(storage[x], size[x], v, n - size[x]), n)
    <3> DEFINE st == Filled(storage[x], size[x], v, n - size[x])
    <3>1. st \in [Slot -> Byte]
          /\ \A i \in Slot : i >= size[x] /\ i >= n => st[i] = storage[x][i]
      BY <1>1, <2>1, SizeAssumption DEF Slot, Filled
    <3>2. x \in alive /\ Ends(<<"resize", x, n, v>>, x, st, n) /\ n \in 0 .. N
      BY <1>1, <1>4, <2>1, SizeAssumption DEF Resize
    <3> HIDE DEF st
    <3> QED BY <3>1, <3>2, EndsInv
  <2> QED BY <1>4, <2>1, LooksInv DEF Resize
<1>5. CASE AppendByte(x, v)
  <2>1. CASE size[x] < N /\ Ends(<<"append_byte", x, v>>, x, Filled(storage[x], size[x], v, 1), size[x] + 1)
    <3> DEFINE st == Filled(storage[x], size[x], v, 1)
               m  == size[x] + 1
    <3>1. st \in [Slot -> Byte] /\ m \in 0 .. N
          /\ \A i \in Slot : i >= size[x] /\ i >= m => st[i] = storage[x][i]
      BY <1>1, <2>1, SizeAssumption DEF Slot, Filled
    <3>2. x \in alive /\ Ends(<<"append_byte", x, v>>, x, st, m)
      BY <1>5, <2>1 DEF AppendByte
    <3> HIDE DEF st, m
    <3> QED BY <3>1, <3>2, EndsInv
  <2> QED BY <1>5, <2>1, LooksInv DEF AppendByte
<1>6. CASE Fill(x, v)
  <2> DEFINE st == Filled(storage[x], 0, v, size[x])
  <2>1. st \in [Slot -> Byte] /\ \A i \in Slot : i >= size[x] => st[i] = storage[x][i]
    BY <1>1, SizeAssumption DEF Slot, Filled
  <2>2. x \in alive /\ Ends(<<"fill", x, v>>, x, st, size[x])
    BY <1>6 DEF Fill
  <2> HIDE DEF st
  <2> QED BY <1>1, <2>1, <2>2, EndsInv
<1> QED BY <1>2, <1>3, <1>4, <1>5, <1>6

\* append of an array, which may be part of the buffer itself.
LEMMA AppendInv ==
  ASSUME Inv, NEW x \in Obj, NEW s \in Source, AppendBytes(x, s)
  PROVE  Inv'
<1> DEFINE m  == checked_add(size[x], s.len)
           st == [i \in Slot |-> IF i \in size[x] .. m - 1 THEN Deref(s, i - size[x])
                                 ELSE storage[x][i]]
           c  == <<"append", x, s>>
<1>1. storage[x] \in [Slot -> Byte] /\ size[x] \in 0 .. N /\ N \in Nat /\ s.len \in Size
  BY InvFits, FixedBufferAssumption, SizeAssumption DEF Source
<1>2. x \in alive /\ MayPass(s, size[x] + s.len > N)
  BY DEF AppendBytes
<1>3. \/ \E code : Looks(c, code, <<>>)
      \/ s.len > 0 /\ s.of # Null /\ m # Nullopt /\ ~(m > N) /\ Ends(c, x, st, m)
  BY DEF AppendBytes
<1>4. CASE s.len > 0 /\ s.of # Null /\ m # Nullopt /\ ~(m > N) /\ Ends(c, x, st, m)
  <2>1. m = size[x] + s.len /\ m \in 0 .. N
    BY <1>1, <1>4, FixedBufferAssumption, SizeAssumption DEF checked_add, Wrap
  <2>2. MayPass(s, FALSE)
    BY <1>1, <1>2, <2>1 DEF MayPass
  <2>3. \A i \in Slot : i \in size[x] .. m - 1 => Deref(s, i - size[x]) \in Byte
    <3> TAKE i \in Slot
    <3> HAVE i \in size[x] .. m - 1
    <3> DEFINE j == i - size[x]
    <3>1. j \in Int /\ 0 <= j /\ j < s.len
      BY <1>1, <2>1 DEF Slot
    <3> HIDE DEF j
    <3>2. Deref(s, j) \in Byte
      BY <1>4, <2>2, <3>1, DerefByte
    <3> QED BY <3>2 DEF j
  <2> HIDE DEF m
  <2>4. st \in [Slot -> Byte]
        /\ \A i \in Slot : i >= size[x] /\ i >= m => st[i] = storage[x][i]
    BY <1>1, <2>1, <2>3 DEF Slot
  <2> HIDE DEF st, c
  <2> QED BY <1>2, <1>4, <2>1, <2>4, EndsInv
<1> QED BY <1>3, <1>4, LooksInv

\* Every step keeps the invariant.
LEMMA NextInv == Inv /\ [Next]_vars => Inv'
<1>1. ASSUME Inv, Next PROVE Inv'
  <2>1. \E n \in Size, v \in Byte : TRUE
    BY FixedBufferAssumption, SizeAssumption
  <2>2. PICK x \in Obj :
          \/ Construct(x) \/ Destroy(x) \/ Clear(x) \/ SecureClear(x)
          \/ \E y \in Obj : CopyConstruct(x, y) \/ CopyAssign(x, y)
          \/ \E n \in Size, v \in Byte :
               At(x, n) \/ Set(x, n, v) \/ Resize(x, n, v) \/ AppendByte(x, v) \/ Fill(x, v)
          \/ \E s \in Source : AppendBytes(x, s)
    BY <1>1, <2>1 DEF Next
  <2> QED BY <1>1, <2>2, LifetimeInv, InPlaceInv, AppendInv
<1>2. Inv /\ UNCHANGED vars => Inv'
  BY DEF vars, Inv, TypeOK, Accounted, verify
<1> QED BY <1>1, <1>2

\* It holds before anything is constructed.
LEMMA InitInv == Init => Inv
BY FixedBufferAssumption, SizeAssumption
   DEF Init, Inv, TypeOK, Accounted, verify, Zeroed, Slot

\* The invariant from which the theorems below follow.
THEOREM InvHolds == Spec => []Inv
BY InitInv, NextInv, PTL DEF Spec

\* Sizes never pass N, storage never holds anything but bytes, and verify()
\* never reports corruption, whatever lengths callers pass.
THEOREM TypeCorrect == Spec => []TypeOK
<1>1. Inv => TypeOK
  BY DEF Inv
<1> QED BY <1>1, InvHolds, PTL

\* secure_clear "Zeros all N bytes (not just used portion)": nothing from
\* before it stays in the object or reaches a copy of it.
THEOREM NoResidueEver == Spec => []NoResidue
<1>1. Inv => NoResidue
  BY DEF Inv, TypeOK, Accounted, NoResidue
<1> QED BY <1>1, InvHolds, PTL

-----------------------------------------------------------------------------
(***************************************************************************)
(* The refinement: a fixed buffer is a buffer of AbstractFixedBuffer.      *)
(***************************************************************************)

\* The abstract state, and the bytes of an object with storage st and size n.
Held == [x \in Obj |-> Contents(x)]
Bytes(st, n) == [i \in 1 .. n |-> st[i - 1]]

\* What a live object holds.
LEMMA HeldBytes ==
  ASSUME Inv, NEW x \in Obj
  PROVE  /\ Held[x] = Bytes(storage[x], size[x])
         /\ Held[x] \in Seq(Byte) /\ Len(Held[x]) = size[x]
         /\ storage[x] \in [Slot -> Byte] /\ size[x] \in 0 .. N /\ N \in Nat
<1>1. storage[x] \in [Slot -> Byte] /\ size[x] \in 0 .. N /\ N \in Nat
  BY InvFits, FixedBufferAssumption, SizeAssumption
<1>2. Held[x] = Bytes(storage[x], size[x])
  BY DEF Held, Bytes, Contents
<1>3. \A i \in 1 .. size[x] : storage[x][i - 1] \in Byte
  BY <1>1 DEF Slot
<1> QED BY <1>1, <1>2, <1>3 DEF Bytes

\* What x holds after its storage and size were set.
LEMMA SetsHeld ==
  ASSUME Inv, NEW c, NEW x \in Obj, NEW st, NEW n, NEW top, Sets(c, x, st, n, top)
  PROVE  Held' = [Held EXCEPT ![x] = Bytes(st, n)]
BY DEF Sets, Held, Bytes, Contents, Inv, TypeOK

\* A call that gives x storage st and size n is one after which x holds those
\* bytes; one that looks is one that is refused or hands out a value.
LEMMA SetsBecomes ==
  ASSUME Inv, NEW c, NEW x \in Obj, NEW st, NEW n, NEW top, Sets(c, x, st, n, top),
         alive' = alive \cup {x}, NEW codes, "ok" \in codes
  PROVE  Abs!Becomes(x, Bytes(st, n), codes) /\ call' = c /\ ret'.code = "ok"
<1>1. ret' = [code |-> "ok", val |-> <<>>] /\ call' = c
  BY DEF Sets, Returns
<1>2. Held' = [Held EXCEPT ![x] = Bytes(st, n)]
  BY SetsHeld
<1> QED BY <1>1, <1>2 DEF Abs!Becomes, Held

\* A call that ends well, on an object that lives.
LEMMA EndsBecomes ==
  ASSUME Inv, NEW c, NEW x \in alive, NEW st, NEW n, Ends(c, x, st, n), NEW codes, "ok" \in codes
  PROVE  Abs!Becomes(x, Bytes(st, n), codes) /\ call' = c /\ ret'.code = "ok"
<1> DEFINE top == IF n > high[x] THEN n ELSE high[x]
<1>1. x \in Obj /\ alive' = alive \cup {x} /\ Sets(c, x, st, n, top)
  BY DEF Ends, Inv, TypeOK
<1> HIDE DEF top
<1> QED BY <1>1, SetsBecomes

\* A call that only looks changes what no object holds.
LEMMA LooksHeld ==
  ASSUME NEW c, NEW code, NEW val, Looks(c, code, val)
  PROVE  Held' = Held /\ alive' = alive /\ call' = c /\ ret' = [code |-> code, val |-> val]
BY DEF Looks, Returns, Held, Contents

\* A refused call is a refused abstract call, whatever it was for.
LEMMA LooksRefuses ==
  ASSUME NEW c, NEW code, Looks(c, code, <<>>), NEW codes, code \in codes, code # "ok"
  PROVE  /\ \A x, q : Abs!Becomes(x, q, codes)
         /\ \A v : Abs!Yields(v, codes)
         /\ call' = c /\ ret'.code = code
<1>1. Held' = Held /\ alive' = alive /\ call' = c /\ ret' = [code |-> code, val |-> <<>>]
  BY LooksHeld
<1> QED BY <1>1 DEF Abs!Becomes, Abs!Yields, Abs!Refuses, Held

-----------------------------------------------------------------------------
\* What the abstract operations on sequences come to in the storage.

\* set replaces one byte of the contents.
LEMMA OverwriteBytes ==
  ASSUME NEW st \in [Slot -> Byte], NEW n \in 0 .. N, NEW i \in Size, NEW v \in Byte,
         N \in Nat, i < n
  PROVE  Abs!Overwrite(Bytes(st, n), i, <<v>>) = Bytes(Filled(st, i, v, 1), n)
<1>1. Len(Bytes(st, n)) = n
  BY DEF Bytes
<1> DEFINE w == <<v>>
<1>2. Len(w) = 1 /\ w[1] = v
  OBVIOUS
<1> HIDE DEF w
<1>3. ASSUME NEW j \in 1 .. n
      PROVE  (IF j \in i + 1 .. i + Len(w) THEN w[j - i] ELSE Bytes(st, n)[j])
                = Filled(st, i, v, 1)[j - 1]
  <2>1. j - 1 \in Slot /\ Bytes(st, n)[j] = st[j - 1]
    BY DEF Bytes, Slot
  <2>2. CASE j = i + 1
    BY <1>2, <2>1, <2>2, SizeAssumption DEF Filled
  <2>3. CASE j # i + 1
    BY <1>2, <2>1, <2>3, SizeAssumption DEF Filled
  <2> QED BY <2>2, <2>3
<1> QED BY <1>1, <1>3 DEF Abs!Overwrite, Bytes, w

\* A byte stored at the size is appended to the contents.
LEMMA AppendBytesByte ==
  ASSUME NEW st \in [Slot -> Byte], NEW n \in 0 .. N, NEW v \in Byte, N \in Nat, n < N
  PROVE  Append(Bytes(st, n), v) = Bytes(Filled(st, n, v, 1), n + 1)
<1>1. Bytes(st, n) \in Seq(Byte) /\ Len(Bytes(st, n)) = n
  BY DEF Bytes, Slot
<1> QED BY <1>1 DEF Bytes, Slot, Filled

\* fill makes the contents one byte repeated.
LEMMA FillBytes ==
  ASSUME NEW st \in [Slot -> Byte], NEW n \in 0 .. N, NEW v \in Byte, N \in Nat
  PROVE  Abs!Repeat(v, n) = Bytes(Filled(st, 0, v, n), n)
BY DEF Bytes, Slot, Filled, Abs!Repeat

\* p \o r is the sequence that starts with p and goes on with r.
LEMMA ConcatIs ==
  ASSUME NEW S, NEW p \in Seq(S), NEW r \in Seq(S), NEW w \in Seq(S),
         Len(w) = Len(p) + Len(r),
         \A i \in 1 .. Len(p) : w[i] = p[i],
         \A i \in 1 .. Len(r) : w[Len(p) + i] = r[i]
  PROVE  p \o r = w
<1> DEFINE z == p \o r
<1>1. z \in Seq(S) /\ Len(z) = Len(p) + Len(r)
      /\ \A i \in 1 .. Len(p) + Len(r) : z[i] = IF i <= Len(p) THEN p[i] ELSE r[i - Len(p)]
  BY ConcatProperties
<1> HIDE DEF z
<1>2. ASSUME NEW i \in 1 .. Len(w) PROVE w[i] = z[i]
  <2>0. Len(p) \in Nat /\ Len(r) \in Nat
    OBVIOUS
  <2>1. CASE i <= Len(p)
    BY <1>1, <2>0, <2>1
  <2>2. CASE i > Len(p)
    <3>1. i - Len(p) \in 1 .. Len(r) /\ Len(p) + (i - Len(p)) = i
      BY <2>0, <2>2
    <3>2. w[i] = r[i - Len(p)]
      BY <3>1
    <3> QED BY <1>1, <2>0, <2>2, <3>2
  <2> QED BY <2>0, <2>1, <2>2
<1>3. z = w
  BY <1>1, <1>2, SeqEqual
<1> QED BY <1>3 DEF z

\* A storage that continues n bytes of a with k bytes of b holds both.
LEMMA ConcatBytes ==
  ASSUME NEW n \in Nat, NEW k \in Nat, NEW st, NEW a, NEW b,
         \A i \in 0 .. n - 1 : st[i] = a[i] /\ a[i] \in Byte,
         \A i \in 0 .. k - 1 : st[n + i] = b[i] /\ b[i] \in Byte
  PROVE  Bytes(a, n) \o Bytes(b, k) = Bytes(st, n + k)
<1>1. PICK p : p = Bytes(a, n)
  OBVIOUS
<1>2. PICK r : r = Bytes(b, k)
  OBVIOUS
<1>3. PICK w : w = Bytes(st, n + k)
  OBVIOUS
<1>4. p \in Seq(Byte) /\ Len(p) = n /\ \A i \in 1 .. n : p[i] = a[i - 1]
  BY <1>1 DEF Bytes
<1>5. r \in Seq(Byte) /\ Len(r) = k /\ \A i \in 1 .. k : r[i] = b[i - 1]
  BY <1>2 DEF Bytes
<1>6. \A i \in 0 .. n + k - 1 : st[i] \in Byte
  <2> TAKE i \in 0 .. n + k - 1
  <2>1. CASE i < n
    BY <2>1
  <2>2. CASE i >= n
    <3>1. i - n \in 0 .. k - 1 /\ i = n + (i - n)
      BY <2>2
    <3> QED BY <3>1
  <2> QED BY <2>1, <2>2
<1>7. w \in Seq(Byte) /\ Len(w) = n + k /\ \A i \in 1 .. n + k : w[i] = st[i - 1]
  BY <1>3, <1>6 DEF Bytes
<1>8. \A i \in 1 .. n : w[i] = p[i]
  BY <1>4, <1>7
<1>9. ASSUME NEW i \in 1 .. k PROVE w[n + i] = r[i]
  <2>1. n + i \in 1 .. n + k /\ i - 1 \in 0 .. k - 1 /\ (n + i) - 1 = n + (i - 1)
    OBVIOUS
  <2> QED BY <1>5, <1>7, <2>1
<1>10. p \o r = w
  BY <1>4, <1>5, <1>7, <1>8, <1>9, ConcatIs
<1> QED BY <1>1, <1>2, <1>3, <1>10

\* resize cuts the contents or extends them with the filler.
LEMMA ResizeBytes ==
  ASSUME NEW st \in [Slot -> Byte], NEW n \in 0 .. N, NEW m \in 0 .. N, NEW v \in Byte, N \in Nat
  PROVE  Abs!Part(Bytes(st, n), 0, Abs!Smaller(m, n)) \o Abs!Repeat(v, m - n)
           = Bytes(Filled(st, n, v, m - n), m)
<1> DEFINE u == Abs!Smaller(m, n)
           k == IF m > n THEN m - n ELSE 0
           b == [i \in Slot |-> v]
           f == Filled(st, n, v, m - n)
<1>1. u \in Nat /\ k \in Nat /\ u + k = m /\ u <= n /\ k <= N
  BY DEF Abs!Smaller
<1>2. Abs!Part(Bytes(st, n), 0, u) = Bytes(st, u)
  BY <1>1 DEF Abs!Part, Bytes
<1>3. Abs!Repeat(v, m - n) = Bytes(b, k)
  BY DEF Abs!Repeat, Bytes, Slot
<1>4. \A i \in 0 .. u - 1 : f[i] = st[i] /\ st[i] \in Byte
  BY <1>1 DEF Filled, Slot
<1>5. \A i \in 0 .. k - 1 : f[u + i] = b[i] /\ b[i] \in Byte
  BY DEF Filled, Slot, Abs!Smaller
<1> HIDE DEF u, k, b, f
<1>6. Bytes(st, u) \o Bytes(b, k) = Bytes(f, u + k)
  BY <1>1, <1>4, <1>5, ConcatBytes
<1> QED BY <1>1, <1>2, <1>3, <1>6 DEF u, f

-----------------------------------------------------------------------------
\* Construction, copies, destruction and the two clears.
LEMMA LifetimeStep ==
  ASSUME Inv, NEW x \in Obj,
         \/ Construct(x) \/ Destroy(x) \/ Clear(x) \/ SecureClear(x)
         \/ \E y \in Obj : CopyConstruct(x, y) \/ CopyAssign(x, y)
  PROVE  Abs!FixedNext
<1>0. \A st : Bytes(st, 0) = <<>>
  BY DEF Bytes
<1>1. CASE Construct(x)
  <2>1. Abs!Becomes(x, <<>>, {"ok"}) /\ call' = <<"construct", x>> /\ ret'.code = "ok"
    BY <1>0, <1>1, SetsBecomes DEF Construct
  <2>2. Abs!Lifetime(call')
    BY <1>1, <2>1 DEF Abs!Lifetime, Construct
  <2> QED BY <2>1, <2>2 DEF Abs!FixedNext, Abs!Next
<1>2. CASE Destroy(x)
  <2>1. Held' = [Held EXCEPT ![x] = <<>>]
    BY <1>0, <1>2, SetsHeld DEF Destroy
  <2>2. call' = <<"destroy", x>> /\ ret'.code = "ok" /\ x \in alive /\ alive' = alive \ {x}
    BY <1>2 DEF Destroy, Sets, Returns
  <2>3. Abs!Lifetime(call')
    BY <2>1, <2>2 DEF Abs!Lifetime, Held
  <2> QED BY <2>2, <2>3 DEF Abs!FixedNext, Abs!Next
<1>3. CASE Clear(x) \/ SecureClear(x)
  <2>1. /\ Abs!Becomes(x, <<>>, {"ok"}) /\ ret'.code = "ok" /\ x \in alive
        /\ call' = <<"clear", x>> \/ call' = <<"secure_clear", x>>
    <3>1. CASE Clear(x)
      <4>1. x \in alive /\ Ends(<<"clear", x>>, x, storage[x], 0)
        BY <3>1 DEF Clear
      <4> QED BY <1>0, <4>1, EndsBecomes
    <3>2. CASE SecureClear(x)
      <4>1. x \in alive /\ Sets(<<"secure_clear", x>>, x, Zeroed, 0, 0) /\ alive' = alive \cup {x}
        BY <3>2 DEF SecureClear
      <4> QED BY <1>0, <4>1, SetsBecomes
    <3> QED BY <1>3, <3>1, <3>2
  <2>2. Abs!Use(call')
    BY <2>1 DEF Abs!Use
  <2> QED BY <2>1, <2>2 DEF Abs!FixedNext, Abs!Next
<1>4. ASSUME NEW y \in Obj, CopyConstruct(x, y) \/ CopyAssign(x, y) PROVE Abs!FixedNext
  <2>1. Held[y] = Bytes(storage[y], size[y])
    BY HeldBytes
  <2>2. CASE CopyConstruct(x, y)
    <3>1. Abs!Becomes(x, Held[y], {"ok"}) /\ call' = <<"copy_construct", x, y>> /\ ret'.code = "ok"
      BY <2>1, <2>2, SetsBecomes DEF CopyConstruct
    <3>2. Abs!Copy(call')
      BY <2>2, <3>1 DEF Abs!Copy, CopyConstruct, Held
    <3> QED BY <3>1, <3>2 DEF Abs!FixedNext
  <2>3. CASE CopyAssign(x, y)
    <3>1. Abs!Becomes(x, Held[y], {"ok"}) /\ call' = <<"copy_assign", x, y>> /\ ret'.code = "ok"
      BY <2>1, <2>3, SetsBecomes DEF CopyAssign
    <3>2. Abs!Copy(call')
      BY <2>3, <3>1 DEF Abs!Copy, CopyAssign, Held
    <3> QED BY <3>1, <3>2 DEF Abs!FixedNext
  <2> QED BY <1>4, <2>2, <2>3
<1> QED BY <1>1, <1>2, <1>3, <1>4

\* at.
LEMMA AtStep ==
  ASSUME Inv, NEW x \in Obj, NEW n \in Size, At(x, n)
  PROVE  Abs!FixedNext
<1> DEFINE q == Held[x]
           codes == Abs!Index(n < Len(q))
           c == <<"at", x, n>>
<1>1. x \in alive
  BY DEF At
<1>2. Abs!Yields(<<q[n + 1]>>, codes) /\ call' = c /\ ret'.code # "out_of_memory"
  <2>1. Len(q) = size[x] /\ size[x] \in 0 .. N /\ N \in Nat
        /\ Held[x] = Bytes(storage[x], size[x])
    BY HeldBytes
  <2>2. CASE n >= size[x] /\ Looks(c, "out_of_range", <<>>)
    <3>1. "out_of_range" \in codes
      BY <2>1, <2>2, SizeAssumption DEF Abs!Index
    <3> HIDE DEF codes, c
    <3> QED BY <2>2, <3>1, LooksRefuses
  <2>3. CASE n < size[x] /\ Looks(c, "ok", <<storage[x][n]>>)
    <3>1. "ok" \in codes /\ q[n + 1] = storage[x][n]
      BY <2>1, <2>3, SizeAssumption DEF Abs!Index, Bytes
    <3> HIDE DEF codes, c, q
    <3>2. Held' = Held /\ alive' = alive /\ call' = c /\ ret' = [code |-> "ok", val |-> <<storage[x][n]>>]
      BY <2>3, LooksHeld
    <3> QED BY <3>1, <3>2 DEF Abs!Yields, Held
  <2> QED BY <2>2, <2>3 DEF At
<1>3. Abs!Use(call')
  BY <1>1, <1>2 DEF Abs!Use, Held
<1> QED BY <1>2, <1>3 DEF Abs!FixedNext, Abs!Next

\* set.
LEMMA SetStep ==
  ASSUME Inv, NEW x \in Obj, NEW n \in Size, NEW v \in Byte, Set(x, n, v)
  PROVE  Abs!FixedNext
<1> DEFINE codes == Abs!Index(n < Len(Held[x]))
           c == <<"set", x, n, v>>
           st == Filled(storage[x], n, v, 1)
<1>1. x \in alive
  BY DEF Set
<1>2. /\ Len(Held[x]) = size[x] /\ size[x] \in 0 .. N /\ N \in Nat
      /\ Held[x] = Bytes(storage[x], size[x]) /\ storage[x] \in [Slot -> Byte]
  BY HeldBytes
<1>3. /\ Abs!Becomes(x, Abs!Overwrite(Held[x], n, <<v>>), codes)
      /\ call' = c /\ ret'.code # "out_of_memory"
  <2>1. CASE n >= size[x] /\ Looks(c, "out_of_range", <<>>)
    <3>1. "out_of_range" \in codes
      BY <1>2, <2>1, SizeAssumption DEF Abs!Index
    <3> HIDE DEF codes, c
    <3> QED BY <2>1, <3>1, LooksRefuses
  <2>2. CASE n < size[x] /\ Ends(c, x, st, size[x])
    <3>1. "ok" \in codes
      BY <1>2, <2>2, SizeAssumption DEF Abs!Index
    <3>2. Abs!Overwrite(Held[x], n, <<v>>) = Bytes(st, size[x])
      BY <1>2, <2>2, OverwriteBytes
    <3> HIDE DEF codes, c, st
    <3> QED BY <1>1, <2>2, <3>1, <3>2, EndsBecomes
  <2> QED BY <2>1, <2>2 DEF Set
<1>4. Abs!Use(call')
  BY <1>1, <1>3 DEF Abs!Use, Held
<1> QED BY <1>3, <1>4 DEF Abs!FixedNext, Abs!Next

\* append(byte).
LEMMA AppendByteStep ==
  ASSUME Inv, NEW x \in Obj, NEW v \in Byte, AppendByte(x, v)
  PROVE  Abs!FixedNext
<1> DEFINE codes == Abs!Room(Len(Held[x]) + 1)
           c == <<"append_byte", x, v>>
           st == Filled(storage[x], size[x], v, 1)
           m == size[x] + 1
<1>1. x \in alive
  BY DEF AppendByte
<1>2. /\ Len(Held[x]) = size[x] /\ size[x] \in 0 .. N /\ N \in Nat
      /\ Held[x] = Bytes(storage[x], size[x]) /\ storage[x] \in [Slot -> Byte]
  BY HeldBytes
<1>3. Abs!Becomes(x, Append(Held[x], v), codes) /\ call' = c /\ ret'.code # "out_of_memory"
  <2>1. CASE size[x] >= N /\ Looks(c, "capacity_exceeded", <<>>)
    <3>1. "capacity_exceeded" \in codes
      BY <1>2, <2>1, FixedBufferAssumption, SizeAssumption DEF Abs!Room
    <3> HIDE DEF codes, c
    <3> QED BY <2>1, <3>1, LooksRefuses
  <2>2. CASE size[x] < N /\ Ends(c, x, st, m)
    <3>1. "ok" \in codes
      BY <1>2, <2>2, FixedBufferAssumption, SizeAssumption DEF Abs!Room
    <3>2. Append(Held[x], v) = Bytes(st, m)
      BY <1>2, <2>2, AppendBytesByte
    <3> HIDE DEF codes, c, st, m
    <3> QED BY <1>1, <2>2, <3>1, <3>2, EndsBecomes
  <2> QED BY <2>1, <2>2 DEF AppendByte
<1>4. Abs!Use(call')
  BY <1>1, <1>3 DEF Abs!Use, Held
<1> QED BY <1>3, <1>4 DEF Abs!FixedNext, Abs!Next

\* fill.
LEMMA FillStep ==
  ASSUME Inv, NEW x \in Obj, NEW v \in Byte, Fill(x, v)
  PROVE  Abs!FixedNext
<1> DEFINE c == <<"fill", x, v>>
           st == Filled(storage[x], 0, v, size[x])
<1>1. x \in alive /\ Ends(c, x, st, size[x])
  BY DEF Fill
<1>2. Abs!Repeat(v, Len(Held[x])) = Bytes(st, size[x])
  BY HeldBytes, FillBytes
<1>3. Abs!Becomes(x, Bytes(st, size[x]), {"ok"}) /\ call' = c /\ ret'.code = "ok"
  <2> HIDE DEF c, st
  <2> QED BY <1>1, EndsBecomes
<1>4. Abs!Use(call')
  BY <1>1, <1>2, <1>3 DEF Abs!Use, Held
<1> QED BY <1>3, <1>4 DEF Abs!FixedNext, Abs!Next

\* resize.
LEMMA ResizeStep ==
  ASSUME Inv, NEW x \in Obj, NEW n \in Size, NEW v \in Byte, Resize(x, n, v)
  PROVE  Abs!FixedNext
<1> DEFINE codes == IF n <= Len(Held[x]) THEN {"ok"} ELSE Abs!Room(n)
           c == <<"resize", x, n, v>>
           st == Filled(storage[x], size[x], v, n - size[x])
           q == Abs!Part(Held[x], 0, Abs!Smaller(n, Len(Held[x]))) \o Abs!Repeat(v, n - Len(Held[x]))
<1>1. x \in alive
  BY DEF Resize
<1>2. /\ Len(Held[x]) = size[x] /\ size[x] \in 0 .. N /\ N \in Nat
      /\ Held[x] = Bytes(storage[x], size[x]) /\ storage[x] \in [Slot -> Byte]
  BY HeldBytes
<1>3. Abs!Becomes(x, q, codes) /\ call' = c /\ ret'.code # "out_of_memory"
  <2>1. CASE n > N /\ Looks(c, "capacity_exceeded", <<>>)
    <3>1. "capacity_exceeded" \in codes
      BY <1>2, <2>1, FixedBufferAssumption, SizeAssumption DEF Abs!Room
    <3> HIDE DEF codes, c, q
    <3> QED BY <2>1, <3>1, LooksRefuses
  <2>2. CASE n <= N /\ Ends(c, x, st, n)
    <3>1. "ok" \in codes /\ n \in 0 .. N
      BY <1>2, <2>2, FixedBufferAssumption, SizeAssumption DEF Abs!Room
    <3>2. q = Bytes(st, n)
      BY <1>2, <3>1, ResizeBytes
    <3> HIDE DEF codes, c, st, q
    <3> QED BY <1>1, <2>2, <3>1, <3>2, EndsBecomes
  <2> QED BY <2>1, <2>2 DEF Resize
<1>4. Abs!Use(call')
  BY <1>1, <1>3 DEF Abs!Use, Held
<1> QED BY <1>3, <1>4 DEF Abs!FixedNext, Abs!Next

\* What a source stands for is what memmove reads, from the object that is
\* being appended to as well: the bytes it overwrites lie above those it reads.
LEMMA ValueBytes ==
  ASSUME Inv, NEW s \in Source, s.len > 0, s.of # Null, MayPass(s, FALSE), NEW b,
         \A i \in 0 .. s.len - 1 : b[i] = Deref(s, i)
  PROVE  Abs!Value(s) = Bytes(b, s.len)
<1>1. s.off \in 0 .. N /\ s.len \in Nat /\ N \in Nat
  BY FixedBufferAssumption, SizeAssumption DEF Source
<1>2. \A i \in 1 .. s.len : b[i - 1] = Deref(s, i - 1)
  BY <1>1
<1>3. CASE s.of = Caller
  <2>1. \A i \in 1 .. s.len : CallerBytes[s.off + i - 1] = b[i - 1]
    BY <1>1, <1>2, <1>3 DEF Deref
  <2> QED BY <1>1, <1>3, <2>1 DEF Abs!Value, Bytes
<1>4. CASE s.of # Caller
  <2>1. s.of \in Obj /\ s.off + s.len <= size[s.of]
    BY <1>4 DEF MayPass, Inv, TypeOK
  <2>2. size[s.of] \in Nat /\ Held[s.of] = Bytes(storage[s.of], size[s.of])
    BY <2>1, HeldBytes
  <2>3. ASSUME NEW i \in 1 .. s.len PROVE Held[s.of][s.off + i] = b[i - 1]
    <3>1. s.off + i \in 1 .. size[s.of] /\ s.off + i - 1 = s.off + (i - 1)
      BY <1>1, <2>1, <2>2
    <3>2. \A j \in 1 .. size[s.of] : Held[s.of][j] = storage[s.of][j - 1]
      BY <2>2 DEF Bytes
    <3>3. Held[s.of][s.off + i] = storage[s.of][s.off + (i - 1)]
      <4>1. PICK j \in 1 .. size[s.of] : j = s.off + i
        BY <3>1
      <4>2. Held[s.of][j] = storage[s.of][j - 1]
        BY <3>2
      <4>3. j - 1 = s.off + (i - 1)
        BY <1>1, <4>1
      <4> QED BY <4>1, <4>2, <4>3
    <3> QED BY <1>2, <1>4, <3>3 DEF Deref
  <2>4. Abs!Value(s) = [i \in 1 .. s.len |-> Held[s.of][s.off + i]]
    BY <1>1, <1>4 DEF Abs!Value, Abs!Part, Held
  <2> QED BY <2>3, <2>4 DEF Bytes
<1> QED BY <1>3, <1>4

\* checked_add tells an overflow from a sum.
LEMMA AddExact ==
  ASSUME NEW a \in Size, NEW b \in Size
  PROVE  checked_add(a, b) = IF a + b > SIZE_MAX THEN Nullopt ELSE a + b
BY SizeAssumption DEF checked_add, Wrap

\* append of an array: accepted exactly when all of it fits, and then the bytes
\* are those the source had before the call.
LEMMA AppendStep ==
  ASSUME Inv, NEW x \in Obj, NEW s \in Source, AppendBytes(x, s)
  PROVE  Abs!FixedNext
<1> DEFINE m  == checked_add(size[x], s.len)
           st == [i \in Slot |-> IF i \in size[x] .. m - 1 THEN Deref(s, i - size[x])
                                 ELSE storage[x][i]]
           c  == <<"append", x, s>>
           codes == Abs!Take(s, Len(Held[x]) + s.len)
           q  == Held[x] \o Abs!Value(s)
           code == IF s.len = 0 THEN "ok"
                   ELSE IF s.of = Null THEN "null_pointer"
                   ELSE IF m = Nullopt THEN "overflow"
                   ELSE IF m > N THEN "capacity_exceeded" ELSE "ok"
<1>1. x \in alive /\ MayPass(s, size[x] + s.len > N)
  BY DEF AppendBytes
<1>2. /\ Len(Held[x]) = size[x] /\ size[x] \in 0 .. N /\ N \in Nat /\ Held[x] \in Seq(Byte)
      /\ Held[x] = Bytes(storage[x], size[x]) /\ storage[x] \in [Slot -> Byte]
      /\ s.len \in Size
  BY HeldBytes DEF Source
<1>3. \/ (s.len = 0 \/ code # "ok") /\ Looks(c, code, <<>>)
      \/ s.len > 0 /\ code = "ok" /\ Ends(c, x, st, m)
  BY DEF AppendBytes
<1>m. m = IF size[x] + s.len > SIZE_MAX THEN Nullopt ELSE size[x] + s.len
  <2>1. size[x] \in Size
    BY <1>2, FixedBufferAssumption, SizeAssumption
  <2> QED BY <1>2, <2>1, AddExact
<1>n. N <= SIZE_MAX
  BY FixedBufferAssumption, SizeAssumption
<1> HIDE DEF m
<1>4. Abs!Becomes(x, q, codes) /\ call' = c /\ ret'.code # "out_of_memory"
  <2>1. CASE s.len = 0 /\ Looks(c, code, <<>>)
    <3>1. q = Held[x] /\ "ok" \in codes /\ code = "ok"
      BY <1>2, <2>1, ConcatEmptySeq DEF Abs!Value, Abs!Take
    <3> HIDE DEF q, codes, c, code
    <3>2. Held' = Held /\ alive' = alive /\ call' = c /\ ret' = [code |-> "ok", val |-> <<>>]
      BY <2>1, <3>1, LooksHeld
    <3>3. Held' = [Held EXCEPT ![x] = Held[x]] /\ alive' = alive \cup {x}
      BY <1>1, <3>2 DEF Held
    <3> QED BY <3>1, <3>2, <3>3 DEF Abs!Becomes, Held
  <2>2. CASE s.len # 0 /\ code # "ok" /\ Looks(c, code, <<>>)
    <3>1. code \in codes /\ code # "out_of_memory"
      BY <1>2, <1>m, <1>n, <2>2, SizeAssumption DEF Abs!Take, Abs!Room
    <3> HIDE DEF q, codes, c, code
    <3> QED BY <2>2, <3>1, LooksRefuses
  <2>3. CASE s.len > 0 /\ code = "ok" /\ Ends(c, x, st, m)
    <3>1. m = size[x] + s.len /\ m \in 0 .. N /\ s.of # Null /\ "ok" \in codes
      BY <1>2, <1>m, <1>n, <2>3, SizeAssumption DEF Abs!Take, Abs!Room
    <3>2. MayPass(s, FALSE)
      BY <1>1, <1>2, <3>1 DEF MayPass
    <3> DEFINE b == [i \in 0 .. s.len - 1 |-> Deref(s, i)]
    <3>3. Abs!Value(s) = Bytes(b, s.len)
      <4>1. \A i \in 0 .. s.len - 1 : b[i] = Deref(s, i)
        OBVIOUS
      <4> HIDE DEF b
      <4> QED BY <2>3, <3>1, <3>2, <4>1, ValueBytes
    <3>4. \A i \in 0 .. size[x] - 1 : st[i] = storage[x][i] /\ storage[x][i] \in Byte
      BY <1>2 DEF Slot
    <3>5. ASSUME NEW i \in 0 .. s.len - 1 PROVE st[size[x] + i] = b[i] /\ b[i] \in Byte
      <4>1. Deref(s, i) \in Byte
        <5>1. i \in Int /\ 0 <= i /\ i < s.len
          BY <1>2, SizeAssumption
        <5> QED BY <3>1, <3>2, <5>1, DerefByte
      <4>2. size[x] + i \in Slot /\ size[x] + i \in size[x] .. m - 1 /\ (size[x] + i) - size[x] = i
        BY <1>2, <3>1, SizeAssumption DEF Slot
      <4>3. st[size[x] + i] = Deref(s, i)
        BY <4>2
      <4> QED BY <4>1, <4>3
    <3>6. Bytes(storage[x], size[x]) \o Bytes(b, s.len) = Bytes(st, m)
      <4>1. PICK n \in Nat : n = size[x]
        BY <1>2
      <4>2. PICK k \in Nat : k = s.len
        BY <1>2, SizeAssumption
      <4> HIDE DEF b, st
      <4>3. PICK a : a = storage[x]
        OBVIOUS
      <4>4. /\ \A i \in 0 .. n - 1 : st[i] = a[i] /\ a[i] \in Byte
            /\ \A i \in 0 .. k - 1 : st[n + i] = b[i] /\ b[i] \in Byte
        BY <3>4, <3>5, <4>1, <4>2, <4>3
      <4>5. Bytes(a, n) \o Bytes(b, k) = Bytes(st, n + k)
        BY <4>4, ConcatBytes
      <4> QED BY <3>1, <4>1, <4>2, <4>3, <4>5
    <3>7. q = Bytes(st, m)
      BY <1>2, <3>3, <3>6
    <3> HIDE DEF q, codes, c, st, m, code
    <3> QED BY <1>1, <2>3, <3>1, <3>7, EndsBecomes
  <2> QED
    <3>1. s.len \in Nat
      BY <1>2, SizeAssumption
    <3> HIDE DEF q, codes, c, st, m, code
    <3> QED BY <1>3, <2>1, <2>2, <2>3, <3>1
<1>5. Abs!Use(call')
  BY <1>1, <1>4 DEF Abs!Use, Held
<1> QED BY <1>4, <1>5 DEF Abs!FixedNext, Abs!Next

-----------------------------------------------------------------------------
\* "Same checks as oe::buffer, no heap, fixed N.": every call on fixed
\* buffers of any N is one the abstract buffer with N for its allocation cap
\* may answer in the same way, and none reports a lack of memory.
THEOREM FixedRefines == Spec => Implements
<1>1. Init => Abs!Init
  BY DEF Init, Abs!Init, Contents
<1>2. Inv /\ [Next]_vars => [Abs!FixedNext]_(Abs!avars)
  <2>1. ASSUME Inv, Next PROVE Abs!FixedNext
    <3>1. PICK x \in Obj :
            \/ Construct(x) \/ Destroy(x) \/ Clear(x) \/ SecureClear(x)
            \/ \E y \in Obj : CopyConstruct(x, y) \/ CopyAssign(x, y)
            \/ \E n \in Size : At(x, n)
            \/ \E v \in Byte : AppendByte(x, v) \/ Fill(x, v)
            \/ \E n \in Size, v \in Byte : Set(x, n, v) \/ Resize(x, n, v)
            \/ \E s \in Source : AppendBytes(x, s)
      BY <2>1 DEF Next
    <3> QED BY <2>1, <3>1, LifetimeStep, AtStep, SetStep, AppendByteStep, FillStep,
               ResizeStep, AppendStep
  <2>2. UNCHANGED vars => UNCHANGED Abs!avars
    BY DEF vars, Abs!avars, Contents
  <2> QED BY <2>1, <2>2
<1> QED BY <1>1, <1>2, InvHolds, PTL DEF Spec, Implements, Abs!FixedSpec
=============================================================================
