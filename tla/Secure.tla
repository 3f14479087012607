------------------------------- MODULE Secure -------------------------------
(***************************************************************************)
(* oe::secure_buffer and oe::secure_string (secure_buffer.h,               *)
(* secure_string.h): a buffer or string inner_ that is zeroed before it is *)
(* dropped.  Each wrapper is the object it owns; inner(), which lets a     *)
(* caller go around the wrapper, is not used here.                         *)
(*                                                                         *)
(* Every byte other than zero counts as secret.                            *)
(***************************************************************************)
EXTENDS Mixed

CONSTANT
  Habits  \* what callers do: "grow" past the capacity, "shrink" the contents

VARIABLE residue  \* history: the secret bytes in blocks when they were freed

SecureVars == <<heap, obj, alive, fault, call, ret, residue>>

SecureInit == B!Init /\ residue = {}

\* The secret bytes among the cells of block p from offset n on.
Secrets(h, p, n) == {h[p].cell[a] : a \in n .. MAX_ALLOC_BYTES - 1} \ {0, Undef}

\* The heap was h when this step freed what it frees.
Releases(h) ==
  residue' = residue \cup
    UNION {Secrets(h, p, 0) : p \in {q \in Block : B!Live(h, q) /\ ~ B!Live(heap', q)}}

\* The heap after inner_.secure_clear().
wiped(x) ==
  LET h == B!secure_zero(heap, obj[x].data, obj[x].size)
  IN  IF x \in Strs THEN S!clear(h, obj[x]).heap ELSE h

Audit(x) == IF x \in Strs THEN S!Audit(x) ELSE B!Audit(x)

-----------------------------------------------------------------------------
\* Lifetime, the same in both wrappers.

Construct(x) == B!Construct(x) /\ UNCHANGED residue

\* The wrapper's destructor, then that of inner_.
Destroy(x) ==
  /\ x \in alive /\ Audit(x)
  /\ B!Answer(<<"destroy", x>>, x, B!Outcome("ok", B!free(wiped(x), obj[x].data), B!Empty, FALSE))
  /\ alive' = alive \ {x}
  /\ Releases(wiped(x))

MoveConstruct(x, y) == B!MoveConstruct(x, y) /\ UNCHANGED residue

\* Mutant: leaves the zeroing of what is dropped to the inner move.
MoveAssign_bare(x, y) == Audit(x) /\ B!MoveAssign(x, y) /\ Releases(heap)

MoveAssign(x, y) ==
  /\ x \in alive /\ y \in alive
  /\ IF x = y THEN B!MoveAssign(x, y) /\ UNCHANGED residue
     ELSE /\ Audit(x)
          /\ heap' = B!free(wiped(x), obj[x].data)
          /\ obj' = [obj EXCEPT ![x] = obj[y], ![y] = B!Empty]
          /\ B!Returns(<<"move_assign", x, y>>, "ok", <<>>)
          /\ UNCHANGED <<alive, fault>>
          /\ Releases(wiped(x))

LifetimeNext ==
  \E kind \in {Bufs, Strs} : \E x \in kind :
    \/ Construct(x) \/ Destroy(x)
    \/ \E y \in kind : MoveConstruct(x, y) \/ MoveAssign(x, y)

\* Mutant: forwards to the plain clear().
Clear_plain(x) == IF x \in Strs THEN S!Clear(x) ELSE B!Clear(x)

\* clear() and secure_clear().
Clear(x) == IF x \in Strs THEN S!SecureClear(x) ELSE B!SecureClear(x)

-----------------------------------------------------------------------------
\* What the wrappers forward to inner_.

Shrinks(x, n) == n < obj[x].size

\* Callers that do not grow have reserved enough: a wrapper keeps its block
\* for as long as there is anything in it.
Fits(x) == "grow" \notin Habits => obj[x].size = 0 \/ obj'[x].cap = obj[x].cap

BufferOps(x) ==
  \/ Clear(x)
  \/ \E v \in Byte : B!AppendByte(x, v)
  \/ \E s \in B!Source : B!AppendBytes(x, s) \/ \E n \in B!Size : B!Write(x, n, s)
  \/ \E n, len \in B!Size, out \in BOOLEAN : B!Read(x, n, out, len)
  \/ \E n \in B!Size :
       \/ B!Reserve(x, n)
       \/ \E v \in Byte : (Shrinks(x, n) => "shrink" \in Habits) /\ B!Resize(x, n, v)

StringOps(x) ==
  \/ Clear(x)
  \/ \E v \in Byte : S!AppendChar(x, v)
  \/ \E s \in S!Source :
       /\ Bounded(s)
       /\ \/ S!AppendBytes(x, s)
          \/ S!View(s) /\ (Shrinks(x, s.len) => "shrink" \in Habits) /\ S!Assign(x, s)
  \/ \E n \in S!Size : S!Reserve(x, n) \/ \E out \in BOOLEAN : S!CopyToCstr(x, out, n)

\* The factories move what inner_'s factory made into the wrapper.
BufferFactories(x) ==
  \/ \E n \in B!Size : B!WithCapacity(x, n)
  \/ \E s \in B!Source : B!FromBytes(x, s)

StringFactories(x) == \E s \in S!Source : Bounded(s) /\ (S!FromCstr(x, s) \/ S!FromBytes(x, s))

SecureNext ==
  \/ LifetimeNext
  \/ \E x \in Bufs : (BufferFactories(x) \/ BufferOps(x)) /\ Fits(x) /\ Releases(heap)
  \/ \E x \in Strs : (StringFactories(x) \/ StringOps(x)) /\ Fits(x) /\ Releases(heap)

SecureSpec == SecureInit /\ [][SecureNext]_SecureVars

-----------------------------------------------------------------------------
(***************************************************************************)
(* Properties.                                                             *)
(***************************************************************************)

\* "Secrets in freed heap blocks": no block goes back to the allocator with a
\* byte of a secret in it, by destruction, move assignment, failed factories
\* or growth, in whatever order the wrappers are moved and reused.
NoSecretFreed == residue = {}

\* clear() zeroes: past size() a wrapper's block holds nothing that was ever
\* stored in it, so what is dropped or handed over later is clean.
NoSecretKept == \A x \in alive : obj[x].data # Null => Secrets(heap, obj[x].data, obj[x].size) = {}
=============================================================================
