--------------------------- MODULE MixedProofs --------------------------
(***************************************************************************)
(* What holds of every program that goes through the C functions, for      *)
(* every number of handles, heap blocks, byte values and every setting of  *)
(* the limits: the audit of either kind never fires, no access leaves a    *)
(* live block, no block is leaked or shared, counts are right, and the     *)
(* handles behave as AbstractCApi describes them.                          *)
(*                                                                         *)
(* Buffers and strings share one heap.  What their own modules prove of an *)
(* operation on objects of one kind, others untouched, is used here with   *)
(* the kind Bufs and the kind Strs.                                        *)
(***************************************************************************)
EXTENDS CApi, Secure, TLAPS

BP == INSTANCE BufferProofs WITH Slack <- 0
SP == INSTANCE StringProofs WITH Slack <- 1

\* The inductive invariant: every container is sound for its kind and owns
\* its own block, and every string with a block has its terminator.
Inv == SP!StrInv(Strs)

\* A call keeps the invariant and does what AbstractCApi says of it, given
\* settings in which growth refuses a string only for its length.
Good == Inv' /\ (SP!SensibleLimits => Abs!Next)

\* The constants of both kinds are as the modules about them assume.
LEMMA Kinds ==
  /\ SIZE_MAX \in Nat /\ MAX_ALLOC_BYTES \in 1 .. SIZE_MAX /\ kMinGrowth \in 1 .. MAX_ALLOC_BYTES
  /\ Caller \in Block /\ Null \notin Block /\ 0 \in Byte /\ Undef \notin Byte
  /\ Obj \cap (Block \cup {Null}) = {} /\ Bufs \cap Strs = {} /\ Null \notin Obj
  /\ CallerBytes \in [BP!Addr -> Byte] /\ CallerBytes \in [SP!Addr -> Byte]
  /\ 0 \in {0, 1} /\ 1 \in {0, 1} /\ 0 = 0 /\ 1 = 1
  /\ Excluded \subseteq {"bare_replace", "view_at_capacity", "shifted_terminator", "inner_view"}
BY SizeAssumption, MemoryAssumption, MixedAssumption DEF Obj, Addr, BP!Addr, SP!Addr

-----------------------------------------------------------------------------
(***************************************************************************)
(* The modules about one kind speak of the same operations.                *)
(***************************************************************************)

LEMMA SameBufferActions ==
  ASSUME NEW x, NEW n, NEW v, NEW s, NEW out, NEW len
  PROVE  /\ B!Destroy(x) <=> BP!Destroy(x)
         /\ B!Reserve(x, n) <=> BP!Reserve(x, n)
         /\ B!Resize(x, n, v) <=> BP!Resize(x, n, v)
         /\ B!Clear(x) <=> BP!Clear(x)
         /\ B!SecureClear(x) <=> BP!SecureClear(x)
         /\ B!AppendBytes(x, s) <=> BP!AppendBytes(x, s)
         /\ B!Read(x, n, out, len) <=> BP!Read(x, n, out, len)
         /\ B!Write(x, n, s) <=> BP!Write(x, n, s)
<1>1. B!Destroy(x) <=> BP!Destroy(x)
  BY DEF B!Destroy, BP!Destroy, B!Answer, BP!Answer, B!Outcome, BP!Outcome, B!free, BP!free,
         B!Empty, BP!Empty, B!Returns, BP!Returns, B!Freed, BP!Freed, B!Addr, BP!Addr
<1>2. B!Reserve(x, n) <=> BP!Reserve(x, n)
  BY DEF B!Reserve, BP!Reserve, B!Audit, BP!Audit, B!reserve, BP!reserve, B!Ends, BP!Ends,
         B!Outcome, BP!Outcome, B!realloc, BP!realloc, B!Room, BP!Room, B!Answer, BP!Answer,
         B!free, BP!free, B!Addr, BP!Addr, B!Load, BP!Load, B!Live, BP!Live, B!Returns,
         BP!Returns, B!Freed, BP!Freed
<1>3. B!Resize(x, n, v) <=> BP!Resize(x, n, v)
  BY DEF B!Resize, BP!Resize, B!Outcome, BP!Outcome, B!memset, BP!memset, B!Inside, BP!Inside,
         B!Audit, BP!Audit, B!grow_to_at_least, BP!grow_to_at_least, B!Ends, BP!Ends, B!Store,
         BP!Store, B!Addr, BP!Addr, B!Load, BP!Load, B!next_capacity, BP!next_capacity, B!reserve,
         BP!reserve, B!Answer, BP!Answer, B!checked_mul, BP!checked_mul, B!Nullopt, BP!Nullopt,
         B!realloc, BP!realloc, B!Room, BP!Room, B!Returns, BP!Returns, B!Wrap, BP!Wrap, B!free,
         BP!free, B!Live, BP!Live, B!Freed, BP!Freed
<1>4. B!Clear(x) <=> BP!Clear(x)
  BY DEF B!Clear, BP!Clear, B!Audit, BP!Audit, B!Ends, BP!Ends, B!Outcome, BP!Outcome, B!Answer,
         BP!Answer, B!Returns, BP!Returns
<1>5. B!SecureClear(x) <=> BP!SecureClear(x)
  BY DEF B!SecureClear, BP!SecureClear, B!Audit, BP!Audit, B!Ends, BP!Ends, B!Outcome, BP!Outcome,
         B!secure_zero, BP!secure_zero, B!Inside, BP!Inside, B!Answer, BP!Answer, B!memset,
         BP!memset, B!Returns, BP!Returns, B!Store, BP!Store, B!Addr, BP!Addr, B!Load, BP!Load
<1>6. B!AppendBytes(x, s) <=> BP!AppendBytes(x, s)
  BY DEF B!AppendBytes, BP!AppendBytes, B!checked_add, BP!checked_add, B!Outcome, BP!Outcome,
         B!target, BP!target, B!Nullopt, BP!Nullopt, B!copy_in_possibly_aliased,
         BP!copy_in_possibly_aliased, B!Audit, BP!Audit, B!MayPass, BP!MayPass, B!Ends, BP!Ends,
         B!Wrap, BP!Wrap, B!pointer_in_range, BP!pointer_in_range, B!memmove, BP!memmove,
         B!Inside, BP!Inside, B!grow_to_at_least, BP!grow_to_at_least, B!Readable, BP!Readable,
         B!Answer, BP!Answer, B!Store, BP!Store, B!Addr, BP!Addr, B!Load, BP!Load,
         B!next_capacity, BP!next_capacity, B!reserve, BP!reserve, B!Returns, BP!Returns,
         B!checked_mul, BP!checked_mul, B!realloc, BP!realloc, B!Room, BP!Room, B!free, BP!free,
         B!Live, BP!Live, B!Freed, BP!Freed
<1>7. B!Read(x, n, out, len) <=> BP!Read(x, n, out, len)
  BY DEF B!Read, BP!Read, B!Audit, BP!Audit, B!Looks, BP!Looks, B!Load, BP!Load, B!Inside,
         BP!Inside, B!Returns, BP!Returns
<1>8. B!Write(x, n, s) <=> BP!Write(x, n, s)
  BY DEF B!Write, BP!Write, B!range_in_bounds, BP!range_in_bounds, B!target, BP!target,
         B!checked_add, BP!checked_add, B!Nullopt, BP!Nullopt, B!Audit, BP!Audit, B!MayPass,
         BP!MayPass, B!Ends, BP!Ends, B!Outcome, BP!Outcome, B!memmove, BP!memmove, B!Inside,
         BP!Inside, B!Wrap, BP!Wrap, B!Readable, BP!Readable, B!Answer, BP!Answer, B!Store,
         BP!Store, B!Addr, BP!Addr, B!Load, BP!Load, B!Returns, BP!Returns
<1> QED BY <1>1, <1>2, <1>3, <1>4, <1>5, <1>6, <1>7, <1>8

LEMMA SameBufferParts ==
  /\ \A h, n : B!with_capacity(h, n) = BP!with_capacity(h, n)
  /\ \A x : B!Contents(x) = BP!Contents(x)
  /\ \A b : B!verify(b) <=> BP!verify(b)
  /\ \A c, x, o : B!Creates(c, x, o) <=> BP!Creates(c, x, o)
  /\ \A code, h, b, bad : B!Outcome(code, h, b, bad) = BP!Outcome(code, h, b, bad)
  /\ \A h, p : B!free(h, p) = BP!free(h, p)
  /\ \A c, code, v, bad : B!Looks(c, code, v, bad) <=> BP!Looks(c, code, v, bad)
  /\ \A x : B!Audit(x) <=> BP!Audit(x)
  /\ B!Empty = BP!Empty
  /\ B!Source = BP!Source
  /\ B!Size = BP!Size
  /\ B!Nullopt = BP!Nullopt
  /\ B!Init <=> BP!Init
<1>1. \A h, n : B!with_capacity(h, n) = BP!with_capacity(h, n)
  BY DEF B!with_capacity, BP!with_capacity, B!Outcome, BP!Outcome, B!Empty, BP!Empty, B!malloc,
         BP!malloc, B!Room, BP!Room, B!Freed, BP!Freed, B!Live, BP!Live, B!Addr, BP!Addr
<1>2. \A x : B!Contents(x) = BP!Contents(x)
  BY DEF B!Contents, BP!Contents, B!Load, BP!Load
<1>3. \A b : B!verify(b) <=> BP!verify(b)
  BY DEF B!verify, BP!verify
<1>4. \A c, x, o : B!Creates(c, x, o) <=> BP!Creates(c, x, o)
  BY DEF B!Creates, BP!Creates, B!Answer, BP!Answer, B!Returns, BP!Returns
<1>5. \A code, h, b, bad : B!Outcome(code, h, b, bad) = BP!Outcome(code, h, b, bad)
  BY DEF B!Outcome, BP!Outcome
<1>6. \A h, p : B!free(h, p) = BP!free(h, p)
  BY DEF B!free, BP!free, B!Freed, BP!Freed, B!Addr, BP!Addr
<1>7. \A c, code, v, bad : B!Looks(c, code, v, bad) <=> BP!Looks(c, code, v, bad)
  BY DEF B!Looks, BP!Looks, B!Returns, BP!Returns
<1>8. \A x : B!Audit(x) <=> BP!Audit(x)
  BY DEF B!Audit, BP!Audit
<1>9. B!Empty = BP!Empty
  BY DEF B!Empty, BP!Empty
<1>10. B!Source = BP!Source
  BY DEF B!Source, BP!Source, B!Size, BP!Size
<1>11. B!Size = BP!Size
  BY DEF B!Size, BP!Size
<1>12. B!Nullopt = BP!Nullopt
  BY DEF B!Nullopt, BP!Nullopt
<1>13. B!Init <=> BP!Init
  BY DEF B!Init, BP!Init, B!Freed, BP!Freed, B!Empty, BP!Empty, B!Addr, BP!Addr
<1> QED BY <1>1, <1>2, <1>3, <1>4, <1>5, <1>6, <1>7, <1>8, <1>9, <1>10, <1>11, <1>12, <1>13

\* The growth of a string, and what the operations that grow it do with it.
LEMMA SameGrowth ==
  /\ \A h, b, p, off, len : S!append(h, b, p, off, len) = SP!append(h, b, p, off, len)
  /\ \A h, q, off, n : S!from_bytes(h, q, off, n) = SP!from_bytes(h, q, off, n)
  /\ \A h, b, n : S!grow_to_at_least(h, b, n) = SP!grow_to_at_least(h, b, n)
  /\ \A o, n : S!Sized(o, n) = SP!Sized(o, n)
  /\ \A h, b, to, p, off, len, n :
       S!copy_in_possibly_aliased(h, b, to, p, off, len, n) = SP!copy_in_possibly_aliased(h, b, to, p, off, len, n)
<1>1. \A h, b, n : S!reserve_exact(h, b, n) = SP!reserve_exact(h, b, n)
  BY DEF S!reserve_exact, SP!reserve_exact, S!checked_add, SP!checked_add, S!Outcome, SP!Outcome,
         S!Nullopt, SP!Nullopt, S!Terminated, SP!Terminated, S!realloc, SP!realloc, S!Room,
         SP!Room, S!Wrap, SP!Wrap, S!memset, SP!memset, S!Inside, SP!Inside, S!free, SP!free,
         S!Addr, SP!Addr, S!Load, SP!Load, S!Live, SP!Live, S!Store, SP!Store, S!Freed, SP!Freed
<1>2. \A m, n : S!next_capacity(m, n) = SP!next_capacity(m, n)
  BY DEF S!next_capacity, SP!next_capacity, S!checked_mul, SP!checked_mul, S!Nullopt, SP!Nullopt,
         S!Wrap, SP!Wrap
<1>3. \A h, b, n : S!grow_to_at_least(h, b, n) = SP!grow_to_at_least(h, b, n)
  BY <1>1, <1>2 DEF S!grow_to_at_least, SP!grow_to_at_least, S!Outcome, SP!Outcome
<1>4. \A o, n : S!Sized(o, n) = SP!Sized(o, n)
  BY DEF S!Sized, SP!Sized, S!Terminated, SP!Terminated, S!Outcome, SP!Outcome, S!memset,
         SP!memset, S!Inside, SP!Inside, S!Store, SP!Store, S!Addr, SP!Addr, S!Load, SP!Load
<1>5. \A o, to, p, from, n : S!Moved(o, to, p, from, n) = SP!Moved(o, to, p, from, n)
  BY DEF S!Moved, SP!Moved, S!Outcome, SP!Outcome, S!memmove, SP!memmove, S!Inside, SP!Inside,
         S!Store, SP!Store, S!Addr, SP!Addr, S!Load, SP!Load
<1>6. \A p, off, base, len : S!pointer_in_range(p, off, base, len) <=> SP!pointer_in_range(p, off, base, len)
  BY DEF S!pointer_in_range, SP!pointer_in_range
<1>7. ASSUME NEW h, NEW b, NEW to, NEW p, NEW off, NEW len, NEW n
      PROVE  S!copy_in_possibly_aliased(h, b, to, p, off, len, n) = SP!copy_in_possibly_aliased(h, b, to, p, off, len, n)
  <2>1. PICK grown, aliased : /\ grown = SP!grow_to_at_least(h, b, n)
                              /\ aliased = SP!pointer_in_range(p, off, b.data, b.cap)
    OBVIOUS
  <2>2. ASSUME NEW o PROVE S!Moved(o, to, IF aliased THEN o.buf.data ELSE p, off, len)
                             = SP!Moved(o, to, IF aliased THEN o.buf.data ELSE p, off, len)
    BY <1>5
  <2>3. {IF o.code = "ok" THEN S!Moved(o, to, IF aliased THEN o.buf.data ELSE p, off, len) ELSE o : o \in grown}
          = {IF o.code = "ok" THEN SP!Moved(o, to, IF aliased THEN o.buf.data ELSE p, off, len) ELSE o : o \in grown}
    BY <2>2
  <2>4. grown = S!grow_to_at_least(h, b, n) /\ aliased = S!pointer_in_range(p, off, b.data, b.cap)
    BY <1>3, <1>6, <2>1 DEF S!pointer_in_range, SP!pointer_in_range
  <2> QED BY <2>1, <2>3, <2>4 DEF S!copy_in_possibly_aliased, SP!copy_in_possibly_aliased
<1>8. ASSUME NEW h, NEW b, NEW p, NEW off, NEW len
      PROVE  S!append(h, b, p, off, len) = SP!append(h, b, p, off, len)
  <2>1. PICK n, put : n = SP!checked_add(b.size, len) /\ put = SP!copy_in_possibly_aliased(h, b, b.size, p, off, len, n)
    OBVIOUS
  <2>2. n = S!checked_add(b.size, len) /\ put = S!copy_in_possibly_aliased(h, b, b.size, p, off, len, n)
    BY <1>7, <2>1 DEF S!checked_add, SP!checked_add, S!Wrap, SP!Wrap, S!Nullopt, SP!Nullopt
  <2>3. {IF o.code = "ok" THEN S!Sized(o, n) ELSE o : o \in put}
          = {IF o.code = "ok" THEN SP!Sized(o, n) ELSE o : o \in put}
    BY <1>4
  <2> QED BY <2>1, <2>2, <2>3 DEF S!append, SP!append, S!Outcome, SP!Outcome, S!Nullopt, SP!Nullopt
<1>9. ASSUME NEW h, NEW q, NEW off, NEW n
      PROVE  S!from_bytes(h, q, off, n) = SP!from_bytes(h, q, off, n)
  <2>1. PICK made : made = SP!with_capacity(h, n)
    OBVIOUS
  <2>2. made = S!with_capacity(h, n)
    BY <1>1, <2>1 DEF S!with_capacity, SP!with_capacity, S!Outcome, SP!Outcome, S!Empty, SP!Empty
  <2>3. ASSUME NEW o PROVE S!Sized(S!Moved(o, 0, q, off, n), n) = SP!Sized(SP!Moved(o, 0, q, off, n), n)
    BY <1>4, <1>5
  <2>4. {IF o.code = "ok" THEN S!Sized(S!Moved(o, 0, q, off, n), n) ELSE o : o \in made}
          = {IF o.code = "ok" THEN SP!Sized(SP!Moved(o, 0, q, off, n), n) ELSE o : o \in made}
    BY <2>3
  <2> QED BY <2>1, <2>2, <2>4 DEF S!from_bytes, SP!from_bytes, S!Outcome, SP!Outcome, S!Empty, SP!Empty
<1> QED BY <1>3, <1>4, <1>7, <1>8, <1>9

LEMMA SameStringParts ==
  /\ \A h, q, off, n : S!from_bytes(h, q, off, n) = SP!from_bytes(h, q, off, n)
  /\ \A h, q, off : S!from_cstr(h, q, off) = SP!from_cstr(h, q, off)
  /\ \A h, b, p, off, len : S!append(h, b, p, off, len) = SP!append(h, b, p, off, len)
  /\ \A h, q, off, cap : S!bounded_strlen(h, q, off, cap) = SP!bounded_strlen(h, q, off, cap)
  /\ \A s : S!Cstr(s) <=> SP!Cstr(s)
  /\ \A s : S!StaticEmpty(s) <=> SP!StaticEmpty(s)
  /\ \A s, beyond, too_long : S!MayPass(s, beyond, too_long) <=> SP!MayPass(s, beyond, too_long)
  /\ \A s : S!target(s) = SP!target(s)
  /\ \A h, p, off, n : S!Inside(h, p, off, n) <=> SP!Inside(h, p, off, n)
  /\ \A h, p, off : S!Load(h, p, off) = SP!Load(h, p, off)
  /\ \A x : S!Audit(x) <=> SP!Audit(x)
  /\ \A c, x, o : S!Ends(c, x, o) <=> SP!Ends(c, x, o)
  /\ \A h, b : S!verify(h, b) <=> SP!verify(h, b)
  /\ \A x : S!Contents(x) = SP!Contents(x)
  /\ S!Source = SP!Source
  /\ S!Size = SP!Size
<1>1. \A h, q, off, n : S!from_bytes(h, q, off, n) = SP!from_bytes(h, q, off, n)
  BY SameGrowth
<1>3. \A h, b, p, off, len : S!append(h, b, p, off, len) = SP!append(h, b, p, off, len)
  BY SameGrowth
<1>4. \A h, q, off, cap : S!bounded_strlen(h, q, off, cap) = SP!bounded_strlen(h, q, off, cap)
  BY DEF S!bounded_strlen, SP!bounded_strlen, S!Load, SP!Load, S!Nullopt, SP!Nullopt
<1>2. \A h, q, off : S!from_cstr(h, q, off) = SP!from_cstr(h, q, off)
  BY <1>1, <1>4 DEF S!from_cstr, SP!from_cstr, S!Outcome, SP!Outcome, S!Empty, SP!Empty,
         S!Nullopt, SP!Nullopt, S!Inside, SP!Inside
<1>5. \A s : S!Cstr(s) <=> SP!Cstr(s)
  BY DEF S!Cstr, SP!Cstr
<1>6. \A s : S!StaticEmpty(s) <=> SP!StaticEmpty(s)
  BY DEF S!StaticEmpty, SP!StaticEmpty, S!target, SP!target
<1>7. \A s, beyond, too_long : S!MayPass(s, beyond, too_long) <=> SP!MayPass(s, beyond, too_long)
  BY DEF S!MayPass, SP!MayPass, S!Readable, SP!Readable
<1>8. \A s : S!target(s) = SP!target(s)
  BY DEF S!target, SP!target
<1>9. \A h, p, off, n : S!Inside(h, p, off, n) <=> SP!Inside(h, p, off, n)
  BY DEF S!Inside, SP!Inside
<1>10. \A h, p, off : S!Load(h, p, off) = SP!Load(h, p, off)
  BY DEF S!Load, SP!Load
<1>11. \A x : S!Audit(x) <=> SP!Audit(x)
  BY DEF S!Audit, SP!Audit, S!Load, SP!Load
<1>12. \A c, x, o : S!Ends(c, x, o) <=> SP!Ends(c, x, o)
  BY DEF S!Ends, SP!Ends, S!Answer, SP!Answer, S!Returns, SP!Returns
<1>13. \A h, b : S!verify(h, b) <=> SP!verify(h, b)
  BY DEF S!verify, SP!verify, S!Load, SP!Load
<1>14. \A x : S!Contents(x) = SP!Contents(x)
  BY DEF S!Contents, SP!Contents, S!Load, SP!Load
<1>15. S!Source = SP!Source
  BY DEF S!Source, SP!Source, S!Size, SP!Size
<1>16. S!Size = SP!Size
  BY DEF S!Size, SP!Size
<1> QED BY <1>1, <1>2, <1>3, <1>4, <1>5, <1>6, <1>7, <1>8, <1>9, <1>10, <1>11, <1>12, <1>13,
           <1>14, <1>15, <1>16

LEMMA SameStringActions ==
  ASSUME NEW x, NEW n, NEW s, NEW out
  PROVE  /\ S!Destroy(x) <=> SP!Destroy(x)
         /\ S!Reserve(x, n) <=> SP!Reserve(x, n)
         /\ S!Clear(x) <=> SP!Clear(x)
         /\ S!SecureClear(x) <=> SP!SecureClear(x)
         /\ S!AppendBytes(x, s) <=> SP!AppendBytes(x, s)
         /\ S!CopyToCstr(x, out, n) <=> SP!CopyToCstr(x, out, n)
<1>1. S!Destroy(x) <=> SP!Destroy(x)
  BY DEF S!Destroy, SP!Destroy, S!Answer, SP!Answer, S!Outcome, SP!Outcome, S!free, SP!free,
         S!Empty, SP!Empty, S!Returns, SP!Returns, S!Freed, SP!Freed, S!Addr, SP!Addr
<1>2. S!Reserve(x, n) <=> SP!Reserve(x, n)
  BY DEF S!Reserve, SP!Reserve, S!Audit, SP!Audit, S!reserve_exact, SP!reserve_exact, S!Ends,
         SP!Ends, S!Load, SP!Load, S!checked_add, SP!checked_add, S!Outcome, SP!Outcome,
         S!Nullopt, SP!Nullopt, S!Terminated, SP!Terminated, S!realloc, SP!realloc, S!Room,
         SP!Room, S!Answer, SP!Answer, S!Wrap, SP!Wrap, S!memset, SP!memset, S!Inside, SP!Inside,
         S!free, SP!free, S!Addr, SP!Addr, S!Live, SP!Live, S!Returns, SP!Returns, S!Store,
         SP!Store, S!Freed, SP!Freed
<1>3. S!Clear(x) <=> SP!Clear(x)
  BY DEF S!Clear, SP!Clear, S!Audit, SP!Audit, S!Ends, SP!Ends, S!clear, SP!clear, S!Load,
         SP!Load, S!Answer, SP!Answer, S!Outcome, SP!Outcome, S!Terminated, SP!Terminated,
         S!Returns, SP!Returns, S!memset, SP!memset, S!Inside, SP!Inside, S!Store, SP!Store,
         S!Addr, SP!Addr
<1>4. S!SecureClear(x) <=> SP!SecureClear(x)
  BY DEF S!SecureClear, SP!SecureClear, S!Audit, SP!Audit, S!Ends, SP!Ends, S!clear, SP!clear,
         S!secure_zero, SP!secure_zero, S!Load, SP!Load, S!Answer, SP!Answer, S!Outcome,
         SP!Outcome, S!Terminated, SP!Terminated, S!memset, SP!memset, S!Returns, SP!Returns,
         S!Inside, SP!Inside, S!Store, SP!Store, S!Addr, SP!Addr
<1>5. S!AppendBytes(x, s) <=> SP!AppendBytes(x, s)
  BY SameGrowth DEF S!AppendBytes, SP!AppendBytes, S!Audit, SP!Audit, S!MayPass, SP!MayPass,
         S!Avoid, SP!Avoid, S!AtCapacity, SP!AtCapacity, S!target, SP!target, S!Ends, SP!Ends,
         S!Load, SP!Load, S!Readable, SP!Readable, S!Answer, SP!Answer, S!Returns, SP!Returns
<1>6. S!CopyToCstr(x, out, n) <=> SP!CopyToCstr(x, out, n)
  BY DEF S!CopyToCstr, SP!CopyToCstr, S!Audit, SP!Audit, S!Looks, SP!Looks, S!Load, SP!Load,
         S!Inside, SP!Inside, S!Returns, SP!Returns
<1> QED BY <1>1, <1>2, <1>3, <1>4, <1>5, <1>6

LEMMA SameContainer ==
  /\ \A c, x, o : B!Creates(c, x, o) <=> SP!Creates(c, x, o)
  /\ \A c, code, v, bad : B!Looks(c, code, v, bad) <=> SP!Looks(c, code, v, bad)
  /\ \A x : B!Contents(x) = SP!Contents(x)
  /\ \A code, h, b, bad : B!Outcome(code, h, b, bad) = SP!Outcome(code, h, b, bad)
  /\ \A h, p : B!free(h, p) = SP!free(h, p)
  /\ B!Empty = SP!Empty
  /\ B!Nullopt = SP!Nullopt
  /\ B!Size = SP!Size
  /\ B!Source = SP!Source
  /\ B!Init <=> SP!Init
<1>1. \A c, x, o : B!Creates(c, x, o) <=> SP!Creates(c, x, o)
  BY DEF B!Creates, SP!Creates, B!Answer, SP!Answer, B!Returns, SP!Returns
<1>2. \A c, code, v, bad : B!Looks(c, code, v, bad) <=> SP!Looks(c, code, v, bad)
  BY DEF B!Looks, SP!Looks, B!Returns, SP!Returns
<1>3. \A x : B!Contents(x) = SP!Contents(x)
  BY DEF B!Contents, SP!Contents, B!Load, SP!Load
<1>4. \A code, h, b, bad : B!Outcome(code, h, b, bad) = SP!Outcome(code, h, b, bad)
  BY DEF B!Outcome, SP!Outcome
<1>5. \A h, p : B!free(h, p) = SP!free(h, p)
  BY DEF B!free, SP!free, B!Freed, SP!Freed, B!Addr, SP!Addr
<1>6. B!Empty = SP!Empty
  BY DEF B!Empty, SP!Empty
<1>7. B!Nullopt = SP!Nullopt
  BY DEF B!Nullopt, SP!Nullopt
<1>8. B!Size = SP!Size
  BY DEF B!Size, SP!Size
<1>9. B!Source = SP!Source
  BY DEF B!Source, SP!Source, B!Size, SP!Size
<1>10. B!Init <=> SP!Init
  BY DEF B!Init, SP!Init, B!Freed, SP!Freed, B!Empty, SP!Empty, B!Addr, SP!Addr
<1> QED BY <1>1, <1>2, <1>3, <1>4, <1>5, <1>6, <1>7, <1>8, <1>9, <1>10

\* The abstract components mean what the proofs about one kind proved.
LEMMA SameAbstractBuffer ==
  ASSUME NEW c
  PROVE  /\ BP!Abs!Use(c) <=> Abs!B!Use(c)
         /\ BP!Abs!Create(c) <=> Abs!B!Create(c)
         /\ BP!Abs!Lifetime(c) <=> Abs!B!Lifetime(c)
<1>1. BP!Abs!Use(c) <=> Abs!B!Use(c)
  BY DEF Abs!B!Use, BP!Abs!Use, Abs!B!Yields, BP!Abs!Yields, Abs!B!Index, BP!Abs!Index,
         Abs!B!Part, BP!Abs!Part, Abs!B!Smaller, BP!Abs!Smaller, Abs!B!Becomes, BP!Abs!Becomes,
         Abs!B!Overwrite, BP!Abs!Overwrite, Abs!B!Room, BP!Abs!Room, Abs!B!Repeat, BP!Abs!Repeat,
         Abs!B!Value, BP!Abs!Value, Abs!B!Take, BP!Abs!Take, Abs!B!Range, BP!Abs!Range,
         Abs!B!Refuses, BP!Abs!Refuses, B!Contents, BP!Contents, B!Load, BP!Load
<1>2. BP!Abs!Create(c) <=> Abs!B!Create(c)
  BY DEF Abs!B!Create, BP!Abs!Create, Abs!B!Becomes, BP!Abs!Becomes, Abs!B!Room, BP!Abs!Room,
         Abs!B!Value, BP!Abs!Value, Abs!B!Take, BP!Abs!Take, Abs!B!Refuses, BP!Abs!Refuses,
         Abs!B!Part, BP!Abs!Part, B!Contents, BP!Contents, B!Load, BP!Load
<1>3. BP!Abs!Lifetime(c) <=> Abs!B!Lifetime(c)
  BY DEF Abs!B!Lifetime, BP!Abs!Lifetime, Abs!B!Becomes, BP!Abs!Becomes, Abs!B!Takes,
         BP!Abs!Takes, Abs!B!Refuses, BP!Abs!Refuses, B!Contents, BP!Contents, B!Load, BP!Load
<1> QED BY <1>1, <1>2, <1>3

LEMMA SameAbstractString ==
  ASSUME NEW c, NEW x, NEW s
  PROVE  /\ SP!Abs!Use(c) <=> Abs!S!Use(c)
         /\ SP!Abs!Create(c) <=> Abs!S!Create(c)
         /\ SP!Abs!Lifetime(c) <=> Abs!S!Lifetime(c)
         /\ SP!Abs!FromCstr(x, s) <=> Abs!S!FromCstr(x, s)
         /\ SP!Abs!Text(s) = Abs!S!Text(s)
<1>1. SP!Abs!Use(c) <=> Abs!S!Use(c)
  BY DEF Abs!S!Use, SP!Abs!Use, Abs!S!Yields, SP!Abs!Yields, Abs!S!Index, SP!Abs!Index,
         Abs!S!Becomes, SP!Abs!Becomes, Abs!S!Room, SP!Abs!Room, Abs!S!Grow, SP!Abs!Grow,
         Abs!S!Text, SP!Abs!Text, Abs!S!Given, SP!Abs!Given, Abs!S!Splice, SP!Abs!Splice,
         Abs!S!Range, SP!Abs!Range, Abs!S!Refuses, SP!Abs!Refuses, Abs!S!CopyOut, SP!Abs!CopyOut,
         Abs!S!Value, SP!Abs!Value, Abs!S!Part, SP!Abs!Part, Abs!S!Smaller, SP!Abs!Smaller,
         B!Contents, SP!Contents, B!Load, SP!Load
<1>2. SP!Abs!Create(c) <=> Abs!S!Create(c)
  BY DEF Abs!S!Create, SP!Abs!Create, Abs!S!Becomes, SP!Abs!Becomes, Abs!S!Room, SP!Abs!Room,
         Abs!S!Text, SP!Abs!Text, Abs!S!Given, SP!Abs!Given, Abs!S!Range, SP!Abs!Range,
         Abs!S!Part, SP!Abs!Part, Abs!S!Refuses, SP!Abs!Refuses, Abs!S!Value, SP!Abs!Value,
         Abs!S!Index, SP!Abs!Index, B!Contents, SP!Contents, B!Load, SP!Load
<1>3. SP!Abs!Lifetime(c) <=> Abs!S!Lifetime(c)
  BY DEF Abs!S!Lifetime, SP!Abs!Lifetime, Abs!S!Becomes, SP!Abs!Becomes, Abs!S!Takes,
         SP!Abs!Takes, Abs!S!Refuses, SP!Abs!Refuses, B!Contents, SP!Contents, B!Load, SP!Load
<1>4. SP!Abs!FromCstr(x, s) <=> Abs!S!FromCstr(x, s)
  BY DEF Abs!S!FromCstr, SP!Abs!FromCstr, Abs!S!Refuses, SP!Abs!Refuses, Abs!S!Nuls, SP!Abs!Nuls,
         Abs!S!Text, SP!Abs!Text, Abs!S!UpToNul, SP!Abs!UpToNul, Abs!S!Becomes, SP!Abs!Becomes,
         Abs!S!Room, SP!Abs!Room, Abs!S!Value, SP!Abs!Value, Abs!S!Part, SP!Abs!Part, B!Contents,
         SP!Contents, B!Load, SP!Load
<1>5. SP!Abs!Text(s) = Abs!S!Text(s)
  BY DEF Abs!S!Text, SP!Abs!Text, Abs!S!Value, SP!Abs!Value, Abs!S!Part, SP!Abs!Part, B!Contents,
         SP!Contents, B!Load, SP!Load
<1> QED BY <1>1, <1>2, <1>3, <1>4, <1>5

LEMMA SameAbstractParts ==
  /\ \A codes : SP!Abs!Refuses(codes) <=> Abs!S!Refuses(codes)
  /\ \A q : SP!Abs!Nuls(q) = Abs!S!Nuls(q)
  /\ \A q : SP!Abs!UpToNul(q) = Abs!S!UpToNul(q)
  /\ \A x, q, codes : SP!Abs!Becomes(x, q, codes) <=> Abs!S!Becomes(x, q, codes)
  /\ \A m, n : SP!Abs!Grow(m, n) = Abs!S!Grow(m, n)
  /\ SP!Abs!Init <=> Abs!S!Init
<1>1. \A codes : SP!Abs!Refuses(codes) <=> Abs!S!Refuses(codes)
  BY DEF Abs!S!Refuses, SP!Abs!Refuses, B!Contents, SP!Contents, B!Load, SP!Load
<1>2. \A q : SP!Abs!Nuls(q) = Abs!S!Nuls(q)
  BY DEF Abs!S!Nuls, SP!Abs!Nuls
<1>3. \A q : SP!Abs!UpToNul(q) = Abs!S!UpToNul(q)
  BY DEF Abs!S!UpToNul, SP!Abs!UpToNul, Abs!S!Part, SP!Abs!Part, Abs!S!Nuls, SP!Abs!Nuls
<1>4. \A x, q, codes : SP!Abs!Becomes(x, q, codes) <=> Abs!S!Becomes(x, q, codes)
  BY DEF Abs!S!Becomes, SP!Abs!Becomes, Abs!S!Refuses, SP!Abs!Refuses, B!Contents, SP!Contents,
         B!Load, SP!Load
<1>5. \A m, n : SP!Abs!Grow(m, n) = Abs!S!Grow(m, n)
  BY DEF Abs!S!Grow, SP!Abs!Grow, Abs!S!Room, SP!Abs!Room
<1>6. SP!Abs!Init <=> Abs!S!Init
  BY DEF Obj, Abs!Obj, Abs!S!Init, SP!Abs!Init, B!Contents, SP!Contents, B!Load, SP!Load
<1> QED BY <1>1, <1>2, <1>3, <1>4, <1>5, <1>6

-----------------------------------------------------------------------------
(***************************************************************************)
(* The state of both kinds.                                                *)
(***************************************************************************)

Held == [x \in Obj |-> B!Contents(x)]

\* What every call comes to, as the proofs about either kind speak of it.
LEMMA SameHeld ==
  /\ Held = BP!Held /\ Held' = BP!Held'
  /\ Held = SP!Held /\ Held' = SP!Held'
BY DEF Held, BP!Held, SP!Held, B!Contents, BP!Contents, SP!Contents, B!Load, BP!Load, SP!Load

\* The two modules mean the same by a container that is sound.
LEMMA InvBoth ==
  /\ BP!Inv(Bufs) <=> SP!Inv(Strs)
  /\ BP!Inv(Bufs)' <=> SP!Inv(Strs)'
<1>1. Obj \cap Bufs = Obj \ Strs /\ Obj \ Bufs = Obj \cap Strs
  BY Kinds DEF Obj
<1>2. \A h, b, n : BP!SoundAs(n, h, b) <=> SP!SoundAs(n, h, b)
  BY DEF BP!SoundAs, SP!SoundAs, BP!Header, SP!Header, BP!Size, SP!Size, BP!Addr, SP!Addr
<1>3. /\ \A h, b : BP!Sound(h, b) <=> SP!SoundAs(1 - 1, h, b)
      /\ \A h, b : BP!SoundAs(1 - 0, h, b) <=> SP!Sound(h, b)
  BY <1>2, 1 - 1 = 0, 1 - 0 = 1 DEF BP!Sound, SP!Sound
<1>4. \A h : BP!GoodHeap(h) <=> SP!GoodHeap(h)
  BY DEF BP!GoodHeap, SP!GoodHeap, BP!Chunk, SP!Chunk, BP!Cell, SP!Cell, BP!Addr, SP!Addr
<1>5. BP!Header = SP!Header /\ BP!Empty = SP!Empty /\ \A h, p : BP!Live(h, p) <=> SP!Live(h, p)
  BY DEF BP!Header, SP!Header, BP!Size, SP!Size, BP!Empty, SP!Empty, BP!Live, SP!Live
<1>6. BP!Inv(Bufs) <=> SP!Inv(Strs)
  BY <1>1, <1>3, <1>4, <1>5 DEF BP!Inv, SP!Inv
<1>7. BP!Inv(Bufs)' <=> SP!Inv(Strs)'
  BY <1>1, <1>3, <1>4, <1>5 DEF BP!Inv, SP!Inv
<1> QED BY <1>6, <1>7

\* The invariant, for those who speak of buffers.
LEMMA InvParts ==
  ASSUME Inv
  PROVE  BP!Inv(Bufs) /\ SP!Inv(Strs) /\ SP!StrInv(Strs)
BY InvBoth DEF Inv, SP!StrInv

\* A call on a buffer does not touch the bytes of any string.
LEMMA StringsKept ==
  ASSUME Inv, SP!Inv(Strs)',
         \A y \in Obj \ Bufs : /\ obj'[y] = obj[y]
                               /\ \A a : BP!Load(heap', obj[y].data, a) = BP!Load(heap, obj[y].data, a)
  PROVE  Inv'
<1>1. ASSUME NEW y \in Obj \cap Strs PROVE SP!Ended(heap', obj'[y])
  <2>1. y \in Obj \ Bufs
    BY Kinds DEF Obj
  <2>2. obj'[y] = obj[y] /\ \A a : BP!Load(heap', obj[y].data, a) = BP!Load(heap, obj[y].data, a)
    BY <2>1
  <2>3. SP!Ended(heap, obj[y])
    BY DEF Inv, SP!StrInv
  <2>4. \A h, p, a : SP!Load(h, p, a) = BP!Load(h, p, a)
    BY DEF SP!Load, BP!Load
  <2> QED BY <2>2, <2>3, <2>4 DEF SP!Ended
<1> QED BY <1>1 DEF Inv, SP!StrInv

\* A buffer call that its own module describes leaves every string as it was.
LEMMA BufferGood ==
  ASSUME Inv, BP!Step(Bufs), NEW c, call' = c, c[2] \in Bufs,
         c[1] \notin {"construct", "move_construct", "move_assign"}
  PROVE  Good
<1>1. BP!Inv(Bufs)' /\ BP!Frame(Bufs) /\ BP!Abs!Next
  BY DEF BP!Step
<1>2. Inv'
  BY <1>1, InvBoth, StringsKept DEF BP!Frame
<1>3. Abs!Next
  <2>1. BP!Abs!Lifetime(c) \/ BP!Abs!Create(c) \/ BP!Abs!Use(c)
    BY <1>1 DEF BP!Abs!Next
  <2>2. BP!Abs!Lifetime(c) => c[1] = "destroy"
    BY DEF BP!Abs!Lifetime
  <2>3. Abs!B!Create(c) \/ Abs!B!Use(c) \/ (c[1] = "destroy" /\ Abs!B!Lifetime(c))
    BY <2>1, <2>2, SameAbstractBuffer
  <2> QED BY <2>3 DEF Abs!Next
<1> QED BY <1>2, <1>3 DEF Good

\* A string call that its own module describes.
LEMMA StringGood ==
  ASSUME Inv', SP!SensibleLimits => SP!Abs!Next, NEW c, call' = c, c[2] \in Strs,
         c[1] \notin {"move_construct", "move_assign"}
  PROVE  Good
<1>1. SUFFICES ASSUME SP!Abs!Next PROVE Abs!Next
  BY DEF Good
<1>2. \/ SP!Abs!Lifetime(c) \/ SP!Abs!Create(c) \/ SP!Abs!Use(c)
      \/ c[1] = "from_cstr" /\ SP!Abs!FromCstr(c[2], c[3])
  BY <1>1 DEF SP!Abs!Next
<1>3. SP!Abs!Lifetime(c) => c[1] \in {"construct", "destroy"}
  BY DEF SP!Abs!Lifetime
<1>4. \/ Abs!S!Create(c) \/ Abs!S!Use(c) \/ (c[1] \in {"construct", "destroy"} /\ Abs!S!Lifetime(c))
      \/ c[1] = "from_cstr" /\ Abs!S!FromCstr(c[2], c[3])
  BY <1>2, <1>3, SameAbstractString
<1> QED BY <1>4 DEF Abs!Next

\* A call that only looks keeps the invariant and every container.
LEMMA LooksQuiet ==
  ASSUME Inv, NEW c, NEW code, NEW v, B!Looks(c, code, v, FALSE)
  PROVE  Inv' /\ Held' = Held /\ alive' = alive /\ call' = c /\ ret' = [code |-> code, val |-> v]
<1>1. /\ heap' = heap /\ obj' = obj /\ alive' = alive
      /\ call' = c /\ ret' = [code |-> code, val |-> v]
  BY DEF B!Looks, B!Returns
<1>2. SP!Looks(c, code, v, FALSE) /\ SP!StrInv(Strs) /\ SP!Inv(Strs)
  BY SameContainer, InvParts
<1>3. SP!Inv(Strs)'
  BY <1>2, Kinds, SP!LooksInv
<1>4. SP!StrInv(Strs)'
  BY <1>1, <1>2, <1>3, Kinds, SP!SameStr DEF SP!StrInv
<1>5. Held' = Held
  BY <1>1 DEF Held, B!Contents, B!Load
<1> QED BY <1>1, <1>4, <1>5 DEF Inv

-----------------------------------------------------------------------------
(***************************************************************************)
(* Null handles and getters.                                               *)
(***************************************************************************)

\* A null handle: the call says so, or does nothing, and changes nothing.
LEMMA NullGood ==
  ASSUME Inv, NEW c, c[2] = Null, c[1] \notin Abs!Reporting,
         NEW code, code = (IF c[1] \in {"destroy", "clear", "secure_clear"} THEN "ok" ELSE "null_pointer"),
         B!Looks(c, code, <<>>, FALSE)
  PROVE  Good
<1>1. PICK v : v = <<>>
  OBVIOUS
<1>2. Inv' /\ Held' = Held /\ alive' = alive /\ call' = c /\ ret' = [code |-> code, val |-> v]
  BY <1>1, LooksQuiet
<1>3. Abs!NoHandle(c)
  BY <1>1, <1>2 DEF Abs!NoHandle, Held
<1> QED BY <1>2, <1>3 DEF Good, Abs!Next

\* The calls on buffers and on strings that say "null_pointer".
LEMMA NoHandleGood ==
  ASSUME Inv, NEW c, NoHandle(c), c[1] \notin Abs!Reporting, c[1] \notin {"destroy", "clear", "secure_clear"}
  PROVE  Good
BY NullGood DEF NoHandle, Reports

\* ... and those that return nothing.
LEMMA NoOpGood ==
  ASSUME Inv, NEW c, NoOp(c), c[1] \in {"destroy", "clear", "secure_clear"}
  PROVE  Good
<1>1. c[1] \notin Abs!Reporting
  BY DEF Abs!Reporting
<1> QED BY <1>1, NullGood DEF NoOp, Reports

\* What a getter of each name says of the bytes q.
Says(name, there, q, v) ==
  \/ name = "size" /\ v = <<Len(q)>>
  \/ name = "capacity" /\ v[1] >= Len(q)
  \/ name = "data" /\ v = q
  \/ name = "cstr" /\ v = Append(q, 0)
  \/ name = "verify" /\ v = <<there>>

LEMMA ReportGood ==
  ASSUME Inv, NEW c, NEW v, NEW x \in alive \cup {Null}, c[2] = x, B!Looks(c, "ok", v, FALSE),
         Says(c[1], x # Null, IF x = Null THEN <<>> ELSE Held[x], v)
  PROVE  Good
<1>1. PICK code : code = "ok"
  OBVIOUS
<1>2. Inv' /\ Held' = Held /\ alive' = alive /\ call' = c /\ ret' = [code |-> code, val |-> v]
  BY <1>1, LooksQuiet
<1>3. ret'.code = "ok" /\ ret'.val = v
  BY <1>1, <1>2
<1>4. Abs!Report(c)
  BY <1>2, <1>3 DEF Abs!Report, Held, Says
<1> QED BY <1>2, <1>4 DEF Good, Abs!Next

\* A live container of either kind: its bytes, and what its audit says.
LEMMA AnyHandle ==
  ASSUME Inv, NEW x \in Obj
  PROVE  /\ Held[x] \in Seq(SP!Cell) /\ Len(Held[x]) = obj[x].size /\ Held[x] = B!Contents(x)
         /\ Held[x] = S!Contents(x)
         /\ obj[x].size \in Nat /\ obj[x].cap \in Nat /\ obj[x].size <= obj[x].cap
<1>1. SP!Inv(Strs)
  BY InvParts
<1>2. Held[x] = SP!Contents(x) /\ SP!Held[x] = Held[x]
  BY SameHeld, SameContainer DEF Held
<1>3. SP!Held[x] \in Seq(SP!Cell) /\ Len(SP!Held[x]) = obj[x].size
  BY <1>1, Kinds, SP!HeldBytes
<1>4. obj[x].size \in Nat /\ obj[x].cap \in Nat /\ obj[x].size <= obj[x].cap
  BY <1>1, Kinds, SP!AnyObject
<1> QED BY <1>2, <1>3, <1>4, SameContainer, SameStringParts

LEMMA BufferSound ==
  ASSUME Inv, NEW b \in Bufs
  PROVE  B!Audit(b) /\ B!verify(obj[b])
<1>1. b \in Obj \cap Bufs /\ BP!Inv(Bufs)
  BY InvParts DEF Obj
<1>2. BP!Sound(heap, obj[b]) /\ BP!GoodHeap(heap)
  BY <1>1 DEF BP!Inv
<1>3. /\ obj[b].size <= obj[b].cap /\ obj[b].size \in Nat /\ (obj[b].data = Null <=> obj[b].cap = 0)
      /\ (obj[b].data = Null => obj[b].size = 0)
  BY <1>2, Kinds, BP!SoundBounds DEF BP!Sound, BP!SoundAs
<1> QED BY <1>3 DEF B!Audit, B!verify

LEMMA StringSound ==
  ASSUME Inv, NEW s \in Strs
  PROVE  S!Audit(s) /\ S!verify(heap, obj[s])
<1>1. s \in Obj /\ SP!StrInv(Strs)
  BY DEF Obj, Inv
<1>2. SP!Audit(s) /\ SP!verify(heap, obj[s])
  BY <1>1, Kinds, SP!StrInvAudit DEF SP!StrInv
<1> QED BY <1>2, SameStringParts

\* Getters and verify, which passes for every container that exists.
LEMMA BufferGetters ==
  ASSUME Inv, NEW b \in Handle(Bufs),
         oe_buffer_size(b) \/ oe_buffer_capacity(b) \/ oe_buffer_data(b) \/ oe_buffer_verify(b)
  PROVE  Good
<1> DEFINE q == IF b = Null THEN <<>> ELSE Held[b]
<1>0. b \in alive \cup {Null} /\ (b # Null => b \in Obj /\ b \in Bufs) /\ Len(<<>>) = 0
  BY DEF Handle, Obj
<1>1. /\ b # Null => Len(q) = obj[b].size /\ obj[b].size <= obj[b].cap /\ q = B!Contents(b)
      /\ b = Null => q = <<>> /\ Len(q) = 0
  BY <1>0, AnyHandle
<1>2. CASE oe_buffer_size(b)
  <2>1. PICK c, v : c = <<"size", b>> /\ v = <<IF b = Null THEN 0 ELSE obj[b].size>>
    OBVIOUS
  <2>2. c[1] = "size" /\ c[2] = b /\ v = <<Len(q)>>
    BY <1>1, <2>1
  <2>3. B!Looks(c, "ok", v, FALSE)
    BY <1>2, <2>1 DEF oe_buffer_size, Reports
  <2>4. Says(c[1], b # Null, q, v)
    BY <2>2 DEF Says
  <2> QED BY <1>0, <2>2, <2>3, <2>4, ReportGood
<1>3. CASE oe_buffer_capacity(b)
  <2>1. PICK c, v : c = <<"capacity", b>> /\ v = <<IF b = Null THEN 0 ELSE obj[b].cap>>
    OBVIOUS
  <2>2. c[1] = "capacity" /\ c[2] = b /\ v[1] >= Len(q)
    BY <1>1, <2>1
  <2>3. B!Looks(c, "ok", v, FALSE)
    BY <1>3, <2>1 DEF oe_buffer_capacity, Reports
  <2>4. Says(c[1], b # Null, q, v)
    BY <2>2 DEF Says
  <2> QED BY <1>0, <2>2, <2>3, <2>4, ReportGood
<1>4. CASE oe_buffer_data(b)
  <2>1. PICK c, v : c = <<"data", b>> /\ v = IF b = Null THEN <<>> ELSE B!Contents(b)
    OBVIOUS
  <2>2. c[1] = "data" /\ c[2] = b /\ v = q
    BY <1>1, <2>1
  <2>3. B!Looks(c, "ok", v, FALSE)
    BY <1>4, <2>1 DEF oe_buffer_data, Reports
  <2>4. Says(c[1], b # Null, q, v)
    BY <2>2 DEF Says
  <2> QED BY <1>0, <2>2, <2>3, <2>4, ReportGood
<1>5. CASE oe_buffer_verify(b)
  <2>1. PICK c, v : c = <<"verify", b>> /\ v = <<b # Null /\ B!verify(obj[b])>>
    OBVIOUS
  <2>2. (b # Null /\ B!verify(obj[b])) = (b # Null)
    BY <1>0, BufferSound
  <2>3. c[1] = "verify" /\ c[2] = b /\ v = <<b # Null>>
    BY <2>1, <2>2
  <2>4. B!Looks(c, "ok", v, FALSE)
    BY <1>5, <2>1 DEF oe_buffer_verify, Reports
  <2>5. Says(c[1], b # Null, q, v)
    BY <2>3 DEF Says
  <2> QED BY <1>0, <2>3, <2>4, <2>5, ReportGood
<1> QED BY <1>2, <1>3, <1>4, <1>5

LEMMA StringGetters ==
  ASSUME Inv, NEW s \in Handle(Strs),
         oe_string_size(s) \/ oe_string_capacity(s) \/ oe_string_cstr(s) \/ oe_string_verify(s)
  PROVE  Good
<1> DEFINE q == IF s = Null THEN <<>> ELSE Held[s]
<1>0. s \in alive \cup {Null} /\ (s # Null => s \in Obj /\ s \in Strs) /\ Len(<<>>) = 0
  BY DEF Handle, Obj
<1>1. /\ s # Null => /\ Len(q) = obj[s].size /\ obj[s].size <= obj[s].cap /\ q = S!Contents(s)
                     /\ q \in Seq(SP!Cell)
      /\ s = Null => q = <<>> /\ Len(q) = 0
  BY <1>0, AnyHandle
<1>2. CASE oe_string_size(s)
  <2>1. PICK c, v : c = <<"size", s>> /\ v = <<IF s = Null THEN 0 ELSE obj[s].size>>
    OBVIOUS
  <2>2. c[1] = "size" /\ c[2] = s /\ v = <<Len(q)>>
    BY <1>1, <2>1
  <2>3. B!Looks(c, "ok", v, FALSE)
    BY <1>2, <2>1 DEF oe_string_size, Reports
  <2>4. Says(c[1], s # Null, q, v)
    BY <2>2 DEF Says
  <2> QED BY <1>0, <2>2, <2>3, <2>4, ReportGood
<1>3. CASE oe_string_capacity(s)
  <2>1. PICK c, v : c = <<"capacity", s>> /\ v = <<IF s = Null THEN 0 ELSE obj[s].cap>>
    OBVIOUS
  <2>2. c[1] = "capacity" /\ c[2] = s /\ v[1] >= Len(q)
    BY <1>1, <2>1
  <2>3. B!Looks(c, "ok", v, FALSE)
    BY <1>3, <2>1 DEF oe_string_capacity, Reports
  <2>4. Says(c[1], s # Null, q, v)
    BY <2>2 DEF Says
  <2> QED BY <1>0, <2>2, <2>3, <2>4, ReportGood
<1>4. CASE oe_string_cstr(s)
  <2>1. PICK c, v : /\ c = <<"cstr", s>>
                    /\ v = IF s = Null \/ obj[s].data = Null THEN <<0>>
                           ELSE Append(S!Contents(s), S!Load(heap, obj[s].data, obj[s].size))
    OBVIOUS
  <2>2. s # Null /\ obj[s].data = Null => q = <<>>
    <3> SUFFICES ASSUME s # Null, obj[s].data = Null PROVE q = <<>>
      OBVIOUS
    <3>1. obj[s].size = 0
      BY <1>0, Kinds, InvParts, SP!AnyObject
    <3> QED BY <1>1, <3>1
  <2>3. s # Null /\ obj[s].data # Null => S!Load(heap, obj[s].data, obj[s].size) = 0
    BY <1>0, StringSound DEF S!Audit
  <2>4. Append(<<>>, 0) = <<0>>
    OBVIOUS
  <2>5. c[1] = "cstr" /\ c[2] = s /\ v = Append(q, 0)
    BY <1>1, <2>1, <2>2, <2>3, <2>4
  <2>6. B!Looks(c, "ok", v, FALSE)
    BY <1>4, <2>1 DEF oe_string_cstr, Reports
  <2>7. Says(c[1], s # Null, q, v)
    BY <2>5 DEF Says
  <2> QED BY <1>0, <2>5, <2>6, <2>7, ReportGood
<1>5. CASE oe_string_verify(s)
  <2>1. PICK c, v : c = <<"verify", s>> /\ v = <<s # Null /\ S!verify(heap, obj[s])>>
    OBVIOUS
  <2>2. (s # Null /\ S!verify(heap, obj[s])) = (s # Null)
    BY <1>0, StringSound
  <2>3. c[1] = "verify" /\ c[2] = s /\ v = <<s # Null>>
    BY <2>1, <2>2
  <2>4. B!Looks(c, "ok", v, FALSE)
    BY <1>5, <2>1 DEF oe_string_verify, Reports
  <2>5. Says(c[1], s # Null, q, v)
    BY <2>3 DEF Says
  <2> QED BY <1>0, <2>3, <2>4, <2>5, ReportGood
<1> QED BY <1>2, <1>3, <1>4, <1>5

-----------------------------------------------------------------------------
(***************************************************************************)
(* Calls on buffers.                                                       *)
(***************************************************************************)

\* The handle could not be allocated: what was made is gone without a trace.
LEMMA NoMemoryGood ==
  ASSUME Inv', Held' = Held, alive' = alive, NEW c, call' = c,
         ret' = [code |-> "out_of_memory", val |-> <<>>], c[1] \in Abs!Creating, c[2] \notin alive
  PROVE  Good
<1>1. ret'.code = "out_of_memory" /\ ret'.val = <<>>
  OBVIOUS
<1>2. Abs!S!Refuses({"out_of_memory"})
  BY <1>1 DEF Abs!S!Refuses, Held
<1>3. Abs!NoMemory(c)
  BY <1>2 DEF Abs!NoMemory
<1> QED BY <1>3 DEF Good, Abs!Next

LEMMA BufferDropped ==
  ASSUME Inv, NEW b \in Bufs, NEW c, c[1] \in Abs!Creating, c[2] = b,
         NEW u, BP!Local(heap, BP!Empty, u),
         B!Creates(c, b, B!Outcome("out_of_memory", B!free(u.heap, u.buf.data), B!Empty, u.bad))
  PROVE  Good
<1>1. BP!Creates(c, b, BP!Outcome("out_of_memory", BP!free(u.heap, u.buf.data), BP!Empty, u.bad))
  BY SameBufferParts
<1>2. b \in Obj /\ b \in Bufs /\ BP!Inv(Bufs)
  BY InvParts DEF Obj
<1>3. /\ BP!Inv(Bufs)' /\ BP!Held' = BP!Held /\ alive' = alive /\ b \notin alive
      /\ call' = c /\ ret' = [code |-> "out_of_memory", val |-> <<>>]
      /\ \A y \in Obj : /\ obj'[y] = obj[y]
                        /\ \A a : BP!Load(heap', obj[y].data, a) = BP!Load(heap, obj[y].data, a)
  BY <1>1, <1>2, Kinds, BP!DroppedStep
<1>4. Inv'
  BY <1>3, InvBoth, StringsKept
<1> QED BY <1>3, <1>4, SameHeld, NoMemoryGood

LEMMA BufferCreates ==
  ASSUME Inv, NEW b \in Bufs \cup {Null}, NEW n \in B!Size, oe_buffer_create(b, n)
  PROVE  Good
<1>1. PICK c : c = <<"with_capacity", b, n>>
  OBVIOUS
<1>2. c[1] = "with_capacity" /\ c[2] = b /\ c[1] \in Abs!Creating
  BY <1>1 DEF Abs!Creating
<1>3. CASE NoHandle(c)
  BY <1>2, <1>3, NoHandleGood DEF Abs!Reporting
<1>4. CASE Makes(c, B!with_capacity(heap, n))
  <2>1. b \in Bufs /\ b \in Obj /\ BP!Inv(Bufs) /\ n \in BP!Size
    BY <1>2, <1>4, InvParts, SameBufferParts DEF Makes, Obj
  <2>2. PICK o \in handle(B!with_capacity(heap, n)) : B!Creates(c, b, o)
    BY <1>2, <1>4 DEF Makes
  <2>3. CASE o \in B!with_capacity(heap, n)
    <3>1. BP!WithCapacity(b, n)
      BY <1>1, <2>2, <2>3, SameBufferParts DEF BP!WithCapacity
    <3>2. BP!Step(Bufs)
      BY <2>1, <3>1, Kinds, BP!FactoryStep
    <3>3. call' = c
      BY <2>2 DEF B!Creates, B!Answer, B!Returns
    <3> QED BY <1>2, <2>1, <3>2, <3>3, BufferGood
  <2>4. CASE o \notin B!with_capacity(heap, n)
    <3>1. PICK u \in B!with_capacity(heap, n) :
            o = B!Outcome("out_of_memory", B!free(u.heap, u.buf.data), B!Empty, u.bad)
      BY <2>2, <2>4 DEF handle
    <3>2. BP!GoodHeap(heap) /\ u \in BP!with_capacity(heap, n)
      BY <2>1, <3>1, SameBufferParts DEF BP!Inv
    <3>3. BP!Local(heap, BP!Empty, u)
      BY <2>1, <3>2, Kinds, BP!WithCapacityMade
    <3> QED BY <1>2, <2>1, <2>2, <3>1, <3>3, BufferDropped
  <2> QED BY <2>3, <2>4
<1> QED BY <1>1, <1>3, <1>4 DEF oe_buffer_create

\* The calls that change a buffer, and the one that copies from it.
LEMMA BufferCalls ==
  ASSUME Inv, NEW b \in Handle(Bufs)
  PROVE  /\ oe_buffer_destroy(b) => Good
         /\ \A n \in BP!Size : oe_buffer_reserve(b, n) => Good
         /\ \A n \in BP!Size, v \in Byte : oe_buffer_resize(b, n, v) => Good
         /\ oe_buffer_clear(b) => Good
         /\ oe_buffer_secure_clear(b) => Good
         /\ \A s \in BP!Source : oe_buffer_append(b, s) => Good
         /\ \A n \in BP!Size, s \in BP!Source : oe_buffer_write(b, n, s) => Good
         /\ \A n, len \in BP!Size, out, counted \in BOOLEAN : oe_buffer_read(b, n, out, len, counted) => Good
<1>0. BP!Inv(Bufs) /\ (b \in alive => b \in Obj /\ b \in Bufs)
  BY InvParts, Kinds DEF Handle, Obj, BP!Inv
<1>1. ASSUME oe_buffer_destroy(b) PROVE Good
  <2>1. PICK c : c = <<"destroy", b>>
    OBVIOUS
  <2>2. c[1] = "destroy" /\ c[2] = b
    BY <2>1
  <2>3. CASE NoOp(c)
    BY <2>2, <2>3, NoOpGood DEF Abs!Reporting
  <2>4. CASE B!Destroy(b)
    <3>1. BP!Destroy(b)
      BY <2>4, SameBufferActions
    <3>2. b \in alive /\ call' = c
      BY <2>1, <2>4 DEF B!Destroy, B!Answer, B!Returns
    <3>3. BP!Step(Bufs)
      BY <1>0, <3>1, <3>2, Kinds, BP!LifetimeStep DEF BP!Step, BP!Abs!Next
    <3> QED BY <1>0, <2>2, <3>2, <3>3, BufferGood
  <2> QED BY <1>1, <2>1, <2>3, <2>4 DEF oe_buffer_destroy
<1>2. ASSUME NEW n \in BP!Size, oe_buffer_reserve(b, n) PROVE Good
  <2>1. PICK c : c = <<"reserve", b, n>>
    OBVIOUS
  <2>2. c[1] = "reserve" /\ c[2] = b
    BY <2>1
  <2>3. CASE NoHandle(c)
    BY <2>2, <2>3, NoHandleGood DEF Abs!Reporting
  <2>4. CASE B!Reserve(b, n)
    <3>1. BP!Reserve(b, n)
      BY <2>4, SameBufferActions
    <3>2. b \in alive /\ call' = c
      BY <2>1, <2>4 DEF B!Reserve, B!Ends, B!Answer, B!Returns
    <3>3. BP!Step(Bufs)
      BY <1>0, <3>1, <3>2, Kinds, BP!GrowingStep
    <3> QED BY <1>0, <2>2, <3>2, <3>3, BufferGood
  <2> QED BY <1>2, <2>1, <2>3, <2>4 DEF oe_buffer_reserve
<1>3. ASSUME NEW n \in BP!Size, NEW v \in Byte, oe_buffer_resize(b, n, v) PROVE Good
  <2>1. PICK c : c = <<"resize", b, n, v>>
    OBVIOUS
  <2>2. c[1] = "resize" /\ c[2] = b
    BY <2>1
  <2>3. CASE NoHandle(c)
    BY <2>2, <2>3, NoHandleGood DEF Abs!Reporting
  <2>4. CASE B!Resize(b, n, v)
    <3>1. BP!Resize(b, n, v)
      BY <2>4, SameBufferActions
    <3>2. b \in alive /\ call' = c
      BY <2>1, <2>4 DEF B!Resize, B!Ends, B!Answer, B!Returns
    <3>3. BP!Step(Bufs)
      BY <1>0, <3>1, <3>2, Kinds, BP!GrowingStep
    <3> QED BY <1>0, <2>2, <3>2, <3>3, BufferGood
  <2> QED BY <1>3, <2>1, <2>3, <2>4 DEF oe_buffer_resize
<1>4. ASSUME oe_buffer_clear(b) PROVE Good
  <2>1. PICK c : c = <<"clear", b>>
    OBVIOUS
  <2>2. c[1] = "clear" /\ c[2] = b
    BY <2>1
  <2>3. CASE NoOp(c)
    BY <2>2, <2>3, NoOpGood DEF Abs!Reporting
  <2>4. CASE B!Clear(b)
    <3>1. BP!Clear(b)
      BY <2>4, SameBufferActions
    <3>2. b \in alive /\ call' = c
      BY <2>1, <2>4 DEF B!Clear, B!Ends, B!Answer, B!Returns
    <3>3. BP!Step(Bufs)
      BY <1>0, <3>1, <3>2, Kinds, BP!InPlaceStep
    <3> QED BY <1>0, <2>2, <3>2, <3>3, BufferGood
  <2> QED BY <1>4, <2>1, <2>3, <2>4 DEF oe_buffer_clear
<1>5. ASSUME oe_buffer_secure_clear(b) PROVE Good
  <2>1. PICK c : c = <<"secure_clear", b>>
    OBVIOUS
  <2>2. c[1] = "secure_clear" /\ c[2] = b
    BY <2>1
  <2>3. CASE NoOp(c)
    BY <2>2, <2>3, NoOpGood DEF Abs!Reporting
  <2>4. CASE B!SecureClear(b)
    <3>1. BP!SecureClear(b)
      BY <2>4, SameBufferActions
    <3>2. b \in alive /\ call' = c
      BY <2>1, <2>4 DEF B!SecureClear, B!Ends, B!Answer, B!Returns
    <3>3. BP!Step(Bufs)
      BY <1>0, <3>1, <3>2, Kinds, BP!InPlaceStep
    <3> QED BY <1>0, <2>2, <3>2, <3>3, BufferGood
  <2> QED BY <1>5, <2>1, <2>3, <2>4 DEF oe_buffer_secure_clear
<1>6. ASSUME NEW s \in BP!Source, oe_buffer_append(b, s) PROVE Good
  <2>1. PICK c : c = <<"append", b, s>>
    OBVIOUS
  <2>2. c[1] = "append" /\ c[2] = b
    BY <2>1
  <2>3. CASE NoHandle(c)
    BY <2>2, <2>3, NoHandleGood DEF Abs!Reporting
  <2>4. CASE B!AppendBytes(b, s)
    <3>1. BP!AppendBytes(b, s)
      BY <2>4, SameBufferActions
    <3>2. b \in alive /\ call' = c
      BY <2>1, <2>4 DEF B!AppendBytes, B!Ends, B!Answer, B!Returns
    <3>3. BP!Step(Bufs)
      BY <1>0, <3>1, <3>2, Kinds, BP!GrowingStep
    <3> QED BY <1>0, <2>2, <3>2, <3>3, BufferGood
  <2> QED BY <1>6, <2>1, <2>3, <2>4 DEF oe_buffer_append
<1>7. ASSUME NEW n \in BP!Size, NEW s \in BP!Source, oe_buffer_write(b, n, s) PROVE Good
  <2>1. PICK c : c = <<"write", b, n, s>>
    OBVIOUS
  <2>2. c[1] = "write" /\ c[2] = b
    BY <2>1
  <2>3. CASE NoHandle(c)
    BY <2>2, <2>3, NoHandleGood DEF Abs!Reporting
  <2>4. CASE B!Write(b, n, s)
    <3>1. BP!Write(b, n, s)
      BY <2>4, SameBufferActions
    <3>2. b \in alive /\ call' = c
      BY <2>1, <2>4 DEF B!Write, B!Ends, B!Answer, B!Returns
    <3>3. BP!Step(Bufs)
      BY <1>0, <3>1, <3>2, Kinds, BP!InPlaceStep
    <3> QED BY <1>0, <2>2, <3>2, <3>3, BufferGood
  <2> QED BY <1>7, <2>1, <2>3, <2>4 DEF oe_buffer_write
<1>8. ASSUME NEW n \in BP!Size, NEW len \in BP!Size, NEW out \in BOOLEAN, NEW counted \in BOOLEAN,
             oe_buffer_read(b, n, out, len, counted)
      PROVE  Good
  <2>1. PICK c : c = <<"read", b, n, out, len>>
    OBVIOUS
  <2>2. c[1] = "read" /\ c[2] = b
    BY <2>1
  <2>3. CASE NoHandle(c)
    BY <2>2, <2>3, NoHandleGood DEF Abs!Reporting
  <2>4. CASE B!Read(b, n, out, len)
    <3>1. BP!Read(b, n, out, len)
      BY <2>4, SameBufferActions
    <3>2. b \in alive /\ call' = c
      BY <2>1, <2>4 DEF B!Read, B!Looks, B!Returns
    <3>3. BP!Step(Bufs)
      BY <1>0, <3>1, <3>2, Kinds, BP!ReadersStep
    <3> QED BY <1>0, <2>2, <3>2, <3>3, BufferGood
  <2> QED BY <1>8, <2>1, <2>3, <2>4 DEF oe_buffer_read
<1> QED BY <1>1, <1>2, <1>3, <1>4, <1>5, <1>6, <1>7, <1>8

-----------------------------------------------------------------------------
(***************************************************************************)
(* Calls on strings.                                                       *)
(***************************************************************************)

\* A source in a buffer ends with the buffer, as the proofs about strings ask.
LEMMA BoundedWithin ==
  ASSUME NEW s, Bounded(s)
  PROVE  SP!Within(Strs, s)
BY DEF Bounded, SP!Within, Obj

LEMMA StringDropped ==
  ASSUME Inv, NEW s \in Strs, NEW c, c[1] \in Abs!Creating, c[2] = s,
         NEW u, SP!Local(heap, SP!Empty, u),
         B!Creates(c, s, B!Outcome("out_of_memory", B!free(u.heap, u.buf.data), B!Empty, u.bad))
  PROVE  Good
<1>1. SP!Creates(c, s, SP!Outcome("out_of_memory", SP!free(u.heap, u.buf.data), SP!Empty, u.bad))
  BY SameContainer
<1>2. s \in Obj /\ s \in Strs /\ SP!Inv(Strs)
  BY InvParts DEF Obj
<1>3. /\ SP!Inv(Strs)' /\ SP!Held' = SP!Held /\ alive' = alive /\ s \notin alive
      /\ call' = c /\ ret' = [code |-> "out_of_memory", val |-> <<>>]
      /\ \A y \in Obj : /\ obj'[y] = obj[y]
                        /\ \A a : SP!Load(heap', obj[y].data, a) = SP!Load(heap, obj[y].data, a)
  BY <1>1, <1>2, Kinds, SP!DroppedStep
<1>4. \A h, p, a : SP!Load(h, p, a) = BP!Load(h, p, a)
  BY DEF SP!Load, BP!Load
<1>5. Inv'
  BY <1>3, <1>4, StringsKept
<1> QED BY <1>3, <1>5, SameHeld, NoMemoryGood

\* A function that creates a string: made is what it does when it succeeds in
\* making the handle too.
LEMMA StringMade ==
  ASSUME Inv, NEW s \in Strs \cup {Null}, NEW c, c[2] = s, c[1] \in Abs!Creating, NEW outcomes, Makes(c, outcomes),
         \A u \in outcomes : SP!Local(heap, SP!Empty, u),
         (\E o \in outcomes : B!Creates(c, s, o)) /\ s \in Strs => Inv' /\ (SP!SensibleLimits => SP!Abs!Next)
  PROVE  Good
<1>1. s \in Strs
  BY DEF Makes
<1>2. PICK o \in handle(outcomes) : B!Creates(c, s, o)
  BY DEF Makes
<1>3. CASE o \in outcomes
  <2>1. call' = c
    BY <1>2 DEF B!Creates, B!Answer, B!Returns
  <2>2. c[1] \notin {"move_construct", "move_assign"}
    BY DEF Abs!Creating
  <2>3. Inv' /\ (SP!SensibleLimits => SP!Abs!Next)
    BY <1>1, <1>2, <1>3
  <2> QED BY <1>1, <2>1, <2>2, <2>3, StringGood
<1>4. CASE o \notin outcomes
  <2>1. PICK u \in outcomes : o = B!Outcome("out_of_memory", B!free(u.heap, u.buf.data), B!Empty, u.bad)
    BY <1>2, <1>4 DEF handle
  <2>2. SP!Local(heap, SP!Empty, u)
    BY <2>1
  <2> QED BY <1>1, <1>2, <2>1, <2>2, StringDropped
<1> QED BY <1>3, <1>4

LEMMA StringCreates ==
  ASSUME Inv, NEW s \in Strs \cup {Null}, oe_string_create(s)
  PROVE  Good
<1>1. PICK c : c = <<"construct", s>>
  OBVIOUS
<1>2. c[1] = "construct" /\ c[2] = s /\ c[1] \in Abs!Creating
  BY <1>1 DEF Abs!Creating
<1>3. CASE NoHandle(c)
  BY <1>2, <1>3, NoHandleGood DEF Abs!Reporting
<1>4. CASE Makes(c, {B!Outcome("ok", heap, B!Empty, FALSE)})
  <2>1. PICK u : u = B!Outcome("ok", heap, B!Empty, FALSE)
    OBVIOUS
  <2>2. SP!Inv(Strs) /\ SP!GoodHeap(heap)
    BY InvParts DEF SP!Inv
  <2>3. SP!Local(heap, SP!Empty, u)
    <3>1. SP!Local(heap, SP!Empty, SP!Outcome("ok", heap, SP!Empty, FALSE))
      BY <2>2, Kinds, SP!EmptySound, SP!SameLocal
    <3> QED BY <2>1, <3>1, SameContainer
  <2>4. ASSUME s \in Strs, B!Creates(c, s, u) PROVE Inv' /\ SP!Abs!Next
    <3>1. s \in Obj /\ s \notin alive /\ obj[s] = B!Empty /\ obj \in [Obj -> SP!Header] /\ fault = FALSE
      BY <2>2, <2>4, SameContainer DEF SP!Inv, Obj, B!Creates
    <3>2. /\ heap' = heap /\ obj' = [obj EXCEPT ![s] = B!Empty] /\ fault' = fault
          /\ alive' = alive \cup {s} /\ call' = <<"construct", s>> /\ ret' = [code |-> "ok", val |-> <<>>]
      BY <1>1, <2>1, <2>4, <3>1 DEF B!Creates, B!Answer, B!Returns, B!Outcome
    <3>3. obj' = obj
      BY <3>1, <3>2
    <3>4. SP!Construct(s)
      BY <3>1, <3>2, <3>3 DEF SP!Construct, SP!Returns
    <3>5. SP!StrInv(Strs)'
      BY <2>4, <3>1, <3>4, Kinds, SP!LifetimeStr DEF Inv
    <3>6. SP!Abs!Lifetime(call')
      BY <2>2, <2>4, <3>1, <3>4, Kinds, SP!LifetimeStep
    <3> QED BY <3>5, <3>6 DEF Inv, SP!Abs!Next
  <2> QED BY <1>2, <1>4, <2>1, <2>3, <2>4, StringMade
<1> QED BY <1>1, <1>3, <1>4 DEF oe_string_create

LEMMA StringFromBytes ==
  ASSUME Inv, NEW s \in Strs \cup {Null}, NEW d \in SP!Source, oe_string_from_bytes(s, d)
  PROVE  Good
<1>1. PICK c : c = <<"from_bytes", s, d>>
  OBVIOUS
<1>2. c[1] = "from_bytes" /\ c[2] = s /\ c[1] \in Abs!Creating
  BY <1>1 DEF Abs!Creating
<1>3. CASE NoHandle(c)
  BY <1>2, <1>3, NoHandleGood DEF Abs!Reporting
<1>4. CASE Makes(c, S!from_bytes(heap, S!target(d), d.off, d.len))
  <2>1. SP!StrInv(Strs) /\ SP!Within(Strs, d) /\ SP!MayPass(d, 1, d.len >= MAX_ALLOC_BYTES)
    BY BoundedWithin, SameStringParts DEF oe_string_from_bytes, Inv
  <2>2. PICK outcomes : outcomes = S!from_bytes(heap, S!target(d), d.off, d.len)
    OBVIOUS
  <2>3. outcomes = SP!from_bytes(heap, SP!target(d), d.off, d.len)
    BY <2>2, SameStringParts
  <2>4. ASSUME NEW u \in outcomes PROVE SP!Local(heap, SP!Empty, u)
    <3>1. SP!Done(heap, SP!Empty, u)
      BY <2>1, <2>3, Kinds, SP!FromBytesPassed DEF SP!StrInv
    <3> QED BY <3>1 DEF SP!Done
  <2>5. ASSUME NEW o \in outcomes, s \in Strs, B!Creates(c, s, o) PROVE Inv' /\ SP!Abs!Next
    <3>1. s \in Obj /\ SP!FromBytes(s, d)
      BY <1>1, <2>1, <2>3, <2>5, SameContainer DEF SP!FromBytes, Obj
    <3>2. SP!StrInv(Strs)'
      BY <2>1, <2>5, <3>1, Kinds, SP!FactoryStr DEF SP!StrInv
    <3>3. SP!Abs!Next
      BY <2>1, <2>5, <3>1, Kinds, SP!FactoryStep DEF SP!StrInv
    <3> QED BY <3>2, <3>3 DEF Inv
  <2> QED BY <1>2, <1>4, <2>2, <2>4, <2>5, StringMade
<1> QED BY <1>1, <1>3, <1>4 DEF oe_string_from_bytes

LEMMA StringFromCstr ==
  ASSUME Inv, NEW s \in Strs \cup {Null}, NEW d \in SP!Source, oe_string_from_cstr(s, d)
  PROVE  Good
<1>1. PICK c : c = <<"from_cstr", s, d>>
  OBVIOUS
<1>2. c[1] = "from_cstr" /\ c[2] = s /\ c[1] \in Abs!Creating
  BY <1>1 DEF Abs!Creating
<1>3. CASE NoHandle(c)
  BY <1>2, <1>3, NoHandleGood DEF Abs!Reporting
<1>4. PICK outcomes : outcomes = IF S!StaticEmpty(d) THEN S!from_bytes(heap, Null, 0, 0)
                                 ELSE S!from_cstr(heap, S!target(d), d.off)
  OBVIOUS
<1>5. CASE Makes(c, outcomes)
  <2>1. SP!StrInv(Strs) /\ SP!Within(Strs, d) /\ SP!Cstr(d)
    BY BoundedWithin, SameStringParts DEF oe_string_from_cstr, Inv
  <2>2. outcomes = IF SP!StaticEmpty(d) THEN SP!from_bytes(heap, Null, 0, 0)
                   ELSE SP!from_cstr(heap, SP!target(d), d.off)
    BY <1>4, SameStringParts
  <2>3. ASSUME NEW u \in outcomes PROVE SP!Local(heap, SP!Empty, u)
    <3>1. SP!Done(heap, SP!Empty, u)
      BY <2>1, <2>2, Kinds, SP!FromCstrDone DEF SP!StrInv
    <3> QED BY <3>1 DEF SP!Done
  <2>4. ASSUME NEW o \in outcomes, s \in Strs, B!Creates(c, s, o) PROVE Inv' /\ SP!Abs!Next
    <3>1. s \in Obj /\ SP!FromCstr(s, d)
      BY <1>1, <2>1, <2>2, <2>4, SameContainer DEF SP!FromCstr, Obj
    <3>2. SP!StrInv(Strs)'
      BY <2>1, <2>4, <3>1, Kinds, SP!FactoryStr DEF SP!StrInv
    <3>3. SP!Abs!Next
      BY <2>1, <2>4, <3>1, Kinds, SP!FactoryStep DEF SP!StrInv
    <3> QED BY <3>2, <3>3 DEF Inv
  <2> QED BY <1>2, <1>5, <2>3, <2>4, StringMade
<1> QED BY <1>1, <1>3, <1>4, <1>5 DEF oe_string_from_cstr

\* The calls on a string that take no bytes in.
LEMMA StringCalls ==
  ASSUME Inv, NEW s \in Handle(Strs)
  PROVE  /\ oe_string_destroy(s) => Good
         /\ \A n \in SP!Size : oe_string_reserve(s, n) => Good
         /\ oe_string_clear(s) => Good
         /\ oe_string_secure_clear(s) => Good
         /\ \A n \in SP!Size, out, counted \in BOOLEAN : oe_string_copy_to_cstr(s, out, n, counted) => Good
<1>0. SP!Inv(Strs) /\ SP!StrInv(Strs) /\ (s \in alive => s \in Obj /\ s \in Strs)
  BY InvParts, Kinds DEF Handle, Obj, SP!Inv
<1>1. ASSUME oe_string_destroy(s) PROVE Good
  <2>1. PICK c : c = <<"destroy", s>>
    OBVIOUS
  <2>2. c[1] = "destroy" /\ c[2] = s
    BY <2>1
  <2>3. CASE NoOp(c)
    BY <2>2, <2>3, NoOpGood DEF Abs!Reporting
  <2>4. CASE S!Destroy(s)
    <3>1. SP!Destroy(s)
      BY <2>4, SameStringActions
    <3>2. s \in alive /\ call' = c
      BY <2>1, <2>4 DEF S!Destroy, S!Answer, S!Returns
    <3>3. SP!StrInv(Strs)'
      BY <1>0, <3>1, <3>2, Kinds, SP!LifetimeStr DEF SP!StrInv
    <3>4. SP!Abs!Next
      BY <1>0, <3>1, <3>2, Kinds, SP!LifetimeStep DEF SP!Abs!Next
    <3> QED BY <1>0, <2>2, <3>2, <3>3, <3>4, StringGood DEF Inv
  <2> QED BY <1>1, <2>1, <2>3, <2>4 DEF oe_string_destroy
<1>2. ASSUME NEW n \in SP!Size, oe_string_reserve(s, n) PROVE Good
  <2>1. PICK c : c = <<"reserve", s, n>>
    OBVIOUS
  <2>2. c[1] = "reserve" /\ c[2] = s
    BY <2>1
  <2>3. CASE NoHandle(c)
    BY <2>2, <2>3, NoHandleGood DEF Abs!Reporting
  <2>4. CASE S!Reserve(s, n)
    <3>1. SP!Reserve(s, n)
      BY <2>4, SameStringActions
    <3>2. s \in alive /\ call' = c
      BY <2>1, <2>4 DEF S!Reserve, S!Ends, S!Answer, S!Returns
    <3>3. SP!StrInv(Strs)'
      BY <1>0, <3>1, <3>2, Kinds, SP!InPlaceStr DEF SP!StrInv
    <3>4. SP!Abs!Next
      BY <1>0, <3>1, <3>2, Kinds, SP!PlainStep DEF SP!StrInv
    <3> QED BY <1>0, <2>2, <3>2, <3>3, <3>4, StringGood DEF Inv
  <2> QED BY <1>2, <2>1, <2>3, <2>4 DEF oe_string_reserve
<1>3. ASSUME oe_string_clear(s) PROVE Good
  <2>1. PICK c : c = <<"clear", s>>
    OBVIOUS
  <2>2. c[1] = "clear" /\ c[2] = s
    BY <2>1
  <2>3. CASE NoOp(c)
    BY <2>2, <2>3, NoOpGood DEF Abs!Reporting
  <2>4. CASE S!Clear(s)
    <3>1. SP!Clear(s)
      BY <2>4, SameStringActions
    <3>2. s \in alive /\ call' = c
      BY <2>1, <2>4 DEF S!Clear, S!Ends, S!Answer, S!Returns
    <3>3. SP!StrInv(Strs)'
      BY <1>0, <3>1, <3>2, Kinds, SP!InPlaceStr DEF SP!StrInv
    <3>4. SP!Abs!Next
      BY <1>0, <3>1, <3>2, Kinds, SP!PlainStep DEF SP!StrInv
    <3> QED BY <1>0, <2>2, <3>2, <3>3, <3>4, StringGood DEF Inv
  <2> QED BY <1>3, <2>1, <2>3, <2>4 DEF oe_string_clear
<1>4. ASSUME oe_string_secure_clear(s) PROVE Good
  <2>1. PICK c : c = <<"secure_clear", s>>
    OBVIOUS
  <2>2. c[1] = "secure_clear" /\ c[2] = s
    BY <2>1
  <2>3. CASE NoOp(c)
    BY <2>2, <2>3, NoOpGood DEF Abs!Reporting
  <2>4. CASE S!SecureClear(s)
    <3>1. SP!SecureClear(s)
      BY <2>4, SameStringActions
    <3>2. s \in alive /\ call' = c
      BY <2>1, <2>4 DEF S!SecureClear, S!Ends, S!Answer, S!Returns
    <3>3. SP!StrInv(Strs)'
      BY <1>0, <3>1, <3>2, Kinds, SP!InPlaceStr DEF SP!StrInv
    <3>4. SP!Abs!Next
      BY <1>0, <3>1, <3>2, Kinds, SP!PlainStep DEF SP!StrInv
    <3> QED BY <1>0, <2>2, <3>2, <3>3, <3>4, StringGood DEF Inv
  <2> QED BY <1>4, <2>1, <2>3, <2>4 DEF oe_string_secure_clear
<1>5. ASSUME NEW n \in SP!Size, NEW out \in BOOLEAN, NEW counted \in BOOLEAN,
             oe_string_copy_to_cstr(s, out, n, counted)
      PROVE  Good
  <2>1. PICK c : c = <<"copy_to_cstr", s, out, n>>
    OBVIOUS
  <2>2. c[1] = "copy_to_cstr" /\ c[2] = s
    BY <2>1
  <2>3. CASE NoHandle(c)
    BY <2>2, <2>3, NoHandleGood DEF Abs!Reporting
  <2>4. CASE S!CopyToCstr(s, out, n)
    <3>1. SP!CopyToCstr(s, out, n)
      BY <2>4, SameStringActions
    <3>2. s \in alive /\ call' = c
      BY <2>1, <2>4 DEF S!CopyToCstr, S!Looks, S!Returns
    <3>3. SP!StrInv(Strs)'
      BY <1>0, <3>1, <3>2, Kinds, SP!ReadersStr DEF SP!StrInv
    <3>4. SP!Abs!Next
      BY <1>0, <3>1, <3>2, Kinds, SP!PlainStep DEF SP!StrInv
    <3> QED BY <1>0, <2>2, <3>2, <3>3, <3>4, StringGood DEF Inv
  <2> QED BY <1>5, <2>1, <2>3, <2>4 DEF oe_string_copy_to_cstr
<1> QED BY <1>1, <1>2, <1>3, <1>4, <1>5

\* Appending bytes of any container, the string itself included.
LEMMA StringAppends ==
  ASSUME "view_at_capacity" \in Excluded, Inv, NEW s \in Handle(Strs), NEW d \in SP!Source,
         oe_string_append_bytes(s, d)
  PROVE  Good
<1>0. SP!Inv(Strs) /\ SP!StrInv(Strs) /\ (s \in alive => s \in Obj /\ s \in Strs) /\ SP!Within(Strs, d)
  BY InvParts, BoundedWithin, Kinds DEF Handle, Obj, SP!Inv, oe_string_append_bytes
<1>1. PICK c : c = <<"append", s, d>>
  OBVIOUS
<1>2. c[1] = "append" /\ c[2] = s
  BY <1>1
<1>3. CASE NoHandle(c)
  BY <1>2, <1>3, NoHandleGood DEF Abs!Reporting
<1>4. CASE S!AppendBytes(s, d)
  <2>1. SP!AppendBytes(s, d)
    BY <1>4, SameStringActions
  <2>2. s \in alive /\ call' = c
    BY <1>1, <1>4 DEF S!AppendBytes, S!Ends, S!Answer, S!Returns
  <2>3. SP!StrInv(Strs)'
    BY <1>0, <2>1, <2>2, Kinds, SP!AppendBytesStr DEF SP!StrInv
  <2>4. SP!SensibleLimits => SP!Abs!Next
    BY <1>0, <2>1, <2>2, Kinds, SP!TakingStep DEF SP!StrInv
  <2> QED BY <1>0, <1>2, <2>2, <2>3, <2>4, StringGood DEF Inv
<1> QED BY <1>1, <1>3, <1>4 DEF oe_string_append_bytes

-----------------------------------------------------------------------------
(***************************************************************************)
(* oe_string_append_cstr.                                                  *)
(***************************************************************************)

\* What the scan finds in the C string d.
Found(d) ==
  IF S!StaticEmpty(d) THEN [len |-> 0, code |-> "ok", bad |-> FALSE] ELSE scan(S!target(d), d.off)

\* What it finds, n being the length of the string, or Nullopt.
Finds(d, n, f) ==
  /\ f.bad = FALSE
  /\ n = SP!Nullopt => f.code = "not_null_terminated" /\ SP!Abs!Nuls(SP!Abs!Text(d)) = {}
  /\ n # SP!Nullopt => f.code = "ok" /\ f.len = n

\* It reads no byte that is not there, and finds the first NUL, if one comes
\* soon enough.
LEMMA ScanFinds ==
  ASSUME Inv, NEW d \in SP!Source, Bounded(d), S!Cstr(d), d.of # Null, NEW n, n = SP!Scanned(d)
  PROVE  Finds(d, n, Found(d))
<1> USE DEF Finds
<1>0. SP!StrInv(Strs) /\ SP!Inv(Strs) /\ SP!Within(Strs, d) /\ SP!Cstr(d) /\ SP!Nullopt = -1 /\ B!Nullopt = -1
  BY InvParts, BoundedWithin, SameStringParts DEF SP!Nullopt, B!Nullopt
<1>1. CASE S!StaticEmpty(d)
  <2>1. n = 0
    BY <1>1, SameStringParts DEF SP!Scanned
  <2> QED BY <1>0, <1>1, <2>1 DEF Found
<1>2. CASE ~ S!StaticEmpty(d)
  <2>1. PICK p, off, w : p = SP!target(d) /\ off = d.off /\ w = SP!Abs!Text(d)
    OBVIOUS
  <2>2. off \in Nat
    BY <1>0, <2>1, Kinds, SP!SourceType
  <2>3. ~ SP!StaticEmpty(d) /\ n = SP!bounded_strlen(heap, p, off, MAX_ALLOC_BYTES)
    BY <1>2, <2>1, SameStringParts DEF SP!Scanned
  <2>4. /\ n = SP!Nullopt => SP!Abs!Nuls(w) = {} /\ SP!Inside(heap, p, off, MAX_ALLOC_BYTES)
        /\ n # SP!Nullopt => n \in Nat /\ n < MAX_ALLOC_BYTES /\ SP!Inside(heap, p, off, n + 1)
    BY <1>0, <2>1, <2>3, Kinds, SP!CstrText DEF SP!StrInv
  <2>5. n = SP!Nullopt => \A i \in 0 .. MAX_ALLOC_BYTES - 1 : SP!Load(heap, p, off + i) # 0
    <3>1. \/ n = SP!Nullopt /\ \A i \in 0 .. MAX_ALLOC_BYTES - 1 : SP!Load(heap, p, off + i) # 0
          \/ n \in 0 .. MAX_ALLOC_BYTES - 1
      BY <2>2, <2>3, Kinds, SP!StrlenFinds
    <3>2. n = -1 => n \notin 0 .. MAX_ALLOC_BYTES - 1
      OBVIOUS
    <3> QED BY <1>0, <3>1, <3>2
  <2>6. n = SP!Nullopt => SP!Load(heap, p, off + MAX_ALLOC_BYTES - 1) # 0
    <3>1. MAX_ALLOC_BYTES - 1 \in 0 .. MAX_ALLOC_BYTES - 1 /\ off + (MAX_ALLOC_BYTES - 1) = off + MAX_ALLOC_BYTES - 1
      BY <2>2, SizeAssumption
    <3> QED BY <2>5, <3>1
  <2>7. PICK m : m = S!bounded_strlen(heap, S!target(d), d.off, MAX_ALLOC_BYTES)
    OBVIOUS
  <2>8. m = n /\ S!target(d) = p
    BY <2>1, <2>3, <2>7, SameStringParts
  <2>9. PICK i, read, bad : /\ i = IF n = -1 THEN MAX_ALLOC_BYTES ELSE n
                            /\ read = IF i = MAX_ALLOC_BYTES THEN i ELSE i + 1
                            /\ bad = ~ SP!Inside(heap, p, off, read)
    OBVIOUS
  <2>10. Found(d) = [len  |-> i,
                     code |-> IF i = MAX_ALLOC_BYTES /\ SP!Load(heap, p, off + i - 1) # 0
                              THEN "not_null_terminated" ELSE "ok",
                     bad  |-> bad]
    BY <1>0, <1>2, <2>1, <2>7, <2>8, <2>9, SameStringParts DEF Found, scan
  <2>11. CASE n = -1
    <3>1. i = MAX_ALLOC_BYTES /\ SP!Inside(heap, p, off, read) /\ SP!Abs!Nuls(w) = {}
          /\ SP!Load(heap, p, off + i - 1) # 0
      BY <1>0, <2>4, <2>6, <2>9, <2>11
    <3>2. bad = FALSE
      BY <2>9, <3>1
    <3>3. Found(d).bad = FALSE /\ Found(d).code = "not_null_terminated"
      BY <2>10, <3>1, <3>2
    <3> QED BY <1>0, <2>1, <2>11, <3>1, <3>3
  <2>12. CASE n # -1
    <3>1. i = n /\ n \in Nat /\ i # MAX_ALLOC_BYTES /\ SP!Inside(heap, p, off, read)
      BY <1>0, <2>4, <2>9, <2>12, SizeAssumption
    <3>2. bad = FALSE
      BY <2>9, <3>1
    <3>3. Found(d).bad = FALSE /\ Found(d).code = "ok" /\ Found(d).len = n
      BY <2>10, <3>1, <3>2
    <3> QED BY <1>0, <2>12, <3>3
  <2> QED BY <2>11, <2>12
<1> QED BY <1>1, <1>2

\* No NUL within the cap: the call is refused and changes nothing.
LEMMA CstrRefused ==
  ASSUME Inv, NEW s \in Strs, s \in alive, NEW d, d.of # Null,
         NEW c, c[1] = "append_cstr", c[2] = s, c[3] = d, SP!Abs!Nuls(SP!Abs!Text(d)) = {},
         S!Ends(c, s, S!Outcome("not_null_terminated", heap, obj[s], FALSE))
  PROVE  Good
<1>1. obj \in [Obj -> SP!Header] /\ s \in Obj
  BY InvParts DEF SP!Inv, Obj
<1>2. PICK code, v : code = "not_null_terminated" /\ v = <<>>
  OBVIOUS
<1>3. B!Looks(c, code, v, FALSE)
  BY <1>1, <1>2 DEF S!Ends, S!Answer, S!Returns, S!Outcome, B!Looks, B!Returns
<1>4. Inv' /\ Held' = Held /\ alive' = alive /\ call' = c /\ ret' = [code |-> code, val |-> v]
  BY <1>3, LooksQuiet
<1>5. ret'.code = "not_null_terminated" /\ ret'.val = <<>>
  BY <1>2, <1>4
<1>6. Abs!S!Refuses({"not_null_terminated"})
  BY <1>4, <1>5 DEF Abs!S!Refuses, Held
<1>7. Abs!S!Nuls(Abs!S!Text(d)) = {}
  BY SameAbstractParts, SameAbstractString
<1>8. Abs!AppendCstr(s, d)
  BY <1>6, <1>7 DEF Abs!AppendCstr
<1> QED BY <1>4, <1>8 DEF Good, Abs!Next

\* The bytes before the first NUL are appended.
LEMMA CstrAppended ==
  ASSUME Inv, NEW s \in Strs, s \in alive, NEW d \in SP!Source, Bounded(d), S!Cstr(d), d.of # Null,
         NEW c, c[1] = "append_cstr", c[2] = s, c[3] = d,
         NEW n, n = SP!Scanned(d), n # SP!Nullopt,
         NEW o \in SP!append(heap, obj[s], SP!target(d), d.off, n), SP!Ends(c, s, o)
  PROVE  Good
<1>0. /\ SP!StrInv(Strs) /\ SP!Inv(Strs) /\ SP!Within(Strs, d) /\ SP!Cstr(d) /\ s \in Obj
      /\ call' = c
  BY InvParts, BoundedWithin, SameStringParts DEF Obj, SP!Ends, SP!Answer, SP!Returns
<1>1. SP!Done(heap, obj[s], o)
  BY <1>0, Kinds, SP!AppendCstrDone DEF SP!StrInv
<1>2. Inv'
  BY <1>0, <1>1, Kinds, SP!EndsStr DEF Inv, SP!StrInv
<1>3. ASSUME SP!SensibleLimits PROVE Abs!Next
  <2>1. PICK line : line = SP!Abs!UpToNul(SP!Abs!Text(d))
    OBVIOUS
  <2>2. PICK q, codes : /\ q = SP!Held[s] \o line
                        /\ codes = SP!Abs!Grow(Len(SP!Held[s]), Len(SP!Held[s]) + Len(line))
    OBVIOUS
  <2>3. SP!Leaves(obj[s], q, codes, o)
    BY <1>0, <1>3, <2>1, <2>2, Kinds, SP!AppendCstrLeaves DEF SP!StrInv
  <2>4. SP!Acts(c, s, q, codes)
    BY <2>3 DEF SP!Acts
  <2>5. SP!Abs!Becomes(s, q, codes)
    BY <1>0, <2>4, Kinds, SP!ActsStep
  <2>6. SP!Abs!Nuls(SP!Abs!Text(d)) # {}
    BY <1>0, Kinds, SP!CstrReady DEF SP!StrInv
  <2>7. /\ Abs!S!Becomes(s, q, codes) /\ Abs!S!Nuls(Abs!S!Text(d)) # {}
        /\ line = Abs!S!UpToNul(Abs!S!Text(d))
        /\ codes = Abs!S!Grow(Len(SP!Held[s]), Len(SP!Held[s]) + Len(line))
    BY <2>1, <2>2, <2>5, <2>6, SameAbstractParts, SameAbstractString
  <2>8. SP!Held = [x \in Obj |-> B!Contents(x)]
    BY SameHeld DEF Held
  <2>9. Abs!AppendCstr(s, d)
    BY <2>2, <2>7, <2>8 DEF Abs!AppendCstr
  <2> QED BY <1>0, <2>9 DEF Abs!Next
<1> QED BY <1>2, <1>3 DEF Good

LEMMA StringAppendsCstr ==
  ASSUME Inv, NEW s \in Handle(Strs), NEW d \in SP!Source, oe_string_append_cstr(s, d)
  PROVE  Good
<1>0. /\ s # Null => s \in alive /\ s \in Strs /\ s \in Obj
      /\ Bounded(d) /\ S!Cstr(d)
  BY DEF Handle, Obj, oe_string_append_cstr
<1>1. PICK c : c = <<"append_cstr", s, d>>
  OBVIOUS
<1>2. c[1] = "append_cstr" /\ c[2] = s /\ c[3] = d
  BY <1>1
<1>3. CASE NoHandle(c)
  BY <1>2, <1>3, NoHandleGood DEF Abs!Reporting
<1>4. CASE s # Null /\ d.of = Null /\ Reports(c, "null_pointer", <<>>)
  <2>1. PICK code, v : code = "null_pointer" /\ v = <<>>
    OBVIOUS
  <2>2. B!Looks(c, code, v, FALSE)
    BY <1>4, <2>1 DEF Reports
  <2>3. Inv' /\ Held' = Held /\ alive' = alive /\ call' = c /\ ret' = [code |-> code, val |-> v]
    BY <2>2, LooksQuiet
  <2>4. ret'.code = "null_pointer" /\ ret'.val = <<>>
    BY <2>1, <2>3
  <2>5. Abs!S!Refuses({"null_pointer"})
    BY <2>3, <2>4 DEF Abs!S!Refuses, Held
  <2>6. Abs!AppendCstr(s, d)
    BY <1>0, <1>4, <2>5 DEF Abs!AppendCstr
  <2> QED BY <1>0, <1>2, <1>4, <2>3, <2>6 DEF Good, Abs!Next
<1>5. PICK f, outcomes :
        /\ f = Found(d)
        /\ outcomes = IF f.code # "ok" THEN {B!Outcome(f.code, heap, obj[s], FALSE)}
                      ELSE S!append(heap, obj[s], S!target(d), d.off, f.len)
  OBVIOUS
<1>6. CASE s # Null /\ d.of # Null /\ \E o \in outcomes : S!Ends(c, s, [o EXCEPT !.bad = @ \/ f.bad])
  <2>1. PICK o \in outcomes : S!Ends(c, s, [o EXCEPT !.bad = @ \/ f.bad])
    BY <1>6
  <2>2. PICK n : n = SP!Scanned(d)
    OBVIOUS
  <2>3. /\ f.bad = FALSE
        /\ n = SP!Nullopt => f.code = "not_null_terminated" /\ SP!Abs!Nuls(SP!Abs!Text(d)) = {}
        /\ n # SP!Nullopt => f.code = "ok" /\ f.len = n
    <3>1. Bounded(d) /\ S!Cstr(d) /\ d.of # Null
      BY <1>0, <1>6
    <3>2. Finds(d, n, Found(d))
      BY <2>2, <3>1, ScanFinds
    <3> QED BY <1>5, <3>2 DEF Finds
  <2>4. CASE n = SP!Nullopt
    <3>1. o = S!Outcome("not_null_terminated", heap, obj[s], FALSE)
      BY <1>5, <2>1, <2>3, <2>4 DEF B!Outcome, S!Outcome
    <3>2. S!Ends(c, s, S!Outcome("not_null_terminated", heap, obj[s], FALSE))
      <4>1. o.bad = FALSE /\ DOMAIN o = {"code", "heap", "buf", "bad"}
        BY <3>1 DEF S!Outcome
      <4>2. PICK u : u = [o EXCEPT !.bad = @ \/ f.bad]
        OBVIOUS
      <4>3. u.code = o.code /\ u.heap = o.heap /\ u.buf = o.buf /\ u.bad = FALSE
        BY <2>3, <4>1, <4>2
      <4>4. S!Ends(c, s, o)
        BY <2>1, <4>1, <4>2, <4>3 DEF S!Ends, S!Answer, S!Returns
      <4> QED BY <3>1, <4>4
    <3>3. s \in Strs /\ s \in alive /\ d.of # Null /\ SP!Abs!Nuls(SP!Abs!Text(d)) = {}
      BY <1>0, <1>6, <2>3, <2>4
    <3> QED BY <1>2, <3>2, <3>3, CstrRefused
  <2>5. CASE n # SP!Nullopt
    <3>1. o \in SP!append(heap, obj[s], SP!target(d), d.off, n)
      BY <1>5, <2>1, <2>3, <2>5, SameStringParts
    <3>2. SP!StrInv(Strs) /\ SP!Within(Strs, d) /\ SP!Cstr(d)
      BY <1>0, InvParts, BoundedWithin, SameStringParts
    <3>3. SP!Done(heap, obj[s], o) /\ SP!Recorded(o)
      BY <1>0, <1>6, <2>2, <2>5, <3>1, <3>2, Kinds, SP!AppendCstrDone DEF SP!StrInv
    <3>4. o.bad = FALSE /\ DOMAIN o = {"code", "heap", "buf", "bad"}
      BY <3>3 DEF SP!Done, SP!Local, SP!Recorded
    <3>5. PICK u : u = [o EXCEPT !.bad = @ \/ f.bad]
      OBVIOUS
    <3>6. u.code = o.code /\ u.heap = o.heap /\ u.buf = o.buf /\ u.bad = FALSE
      BY <2>3, <3>4, <3>5
    <3>7. S!Ends(c, s, o)
      BY <2>1, <3>4, <3>5, <3>6 DEF S!Ends, S!Answer, S!Returns
    <3>8. SP!Ends(c, s, o)
      BY <3>7, SameStringParts
    <3> QED BY <1>0, <1>2, <1>6, <2>2, <2>5, <3>1, <3>8, CstrAppended
  <2> QED BY <2>4, <2>5
<1> QED BY <1>1, <1>3, <1>4, <1>5, <1>6 DEF oe_string_append_cstr, Found

-----------------------------------------------------------------------------
(***************************************************************************)
(* Every step, and what follows.                                           *)
(***************************************************************************)

\* The sizes and sources of either kind are the same.
LEMMA SameRanges ==
  /\ B!Size = BP!Size /\ B!Source = BP!Source
  /\ S!Size = SP!Size /\ S!Source = SP!Source
BY SameBufferParts, SameStringParts

LEMMA BufferNextGood ==
  ASSUME Inv, BufferNext
  PROVE  Good
<1>1. ASSUME NEW b \in Bufs \cup {Null}, NEW n \in B!Size, oe_buffer_create(b, n) PROVE Good
  BY <1>1, BufferCreates
<1>2. ASSUME NEW b \in Handle(Bufs),
             oe_buffer_size(b) \/ oe_buffer_capacity(b) \/ oe_buffer_data(b) \/ oe_buffer_verify(b)
      PROVE  Good
  BY <1>2, BufferGetters
<1>3. ASSUME NEW b \in Handle(Bufs), oe_buffer_destroy(b) \/ oe_buffer_clear(b) \/ oe_buffer_secure_clear(b)
      PROVE  Good
  BY <1>3, BufferCalls
<1>4. ASSUME NEW b \in Handle(Bufs), NEW n \in B!Size,
             \/ oe_buffer_reserve(b, n)
             \/ \E v \in Byte : oe_buffer_resize(b, n, v)
             \/ \E s \in B!Source : oe_buffer_write(b, n, s)
             \/ \E len \in B!Size, out, counted \in BOOLEAN : oe_buffer_read(b, n, out, len, counted)
      PROVE  Good
  BY <1>4, BufferCalls, SameRanges
<1>5. ASSUME NEW b \in Handle(Bufs), NEW s \in B!Source, oe_buffer_append(b, s) PROVE Good
  BY <1>5, BufferCalls, SameRanges
<1> QED BY <1>1, <1>2, <1>3, <1>4, <1>5 DEF BufferNext

LEMMA StringNextGood ==
  ASSUME "view_at_capacity" \in Excluded, Inv, StringNext
  PROVE  Good
<1>1. ASSUME NEW s \in Strs \cup {Null}, oe_string_create(s) PROVE Good
  BY <1>1, StringCreates
<1>2. ASSUME NEW s \in Strs \cup {Null}, NEW d \in S!Source,
             oe_string_from_cstr(s, d) \/ oe_string_from_bytes(s, d)
      PROVE  Good
  BY <1>2, StringFromCstr, StringFromBytes, SameRanges
<1>3. ASSUME NEW s \in Handle(Strs),
             oe_string_size(s) \/ oe_string_capacity(s) \/ oe_string_cstr(s) \/ oe_string_verify(s)
      PROVE  Good
  BY <1>3, StringGetters
<1>4. ASSUME NEW s \in Handle(Strs), oe_string_destroy(s) \/ oe_string_clear(s) \/ oe_string_secure_clear(s)
      PROVE  Good
  BY <1>4, StringCalls
<1>5. ASSUME NEW s \in Handle(Strs), NEW n \in S!Size,
             \/ oe_string_reserve(s, n)
             \/ \E out, counted \in BOOLEAN : oe_string_copy_to_cstr(s, out, n, counted)
      PROVE  Good
  BY <1>5, StringCalls, SameRanges
<1>6. ASSUME NEW s \in Handle(Strs), NEW d \in S!Source,
             oe_string_append_cstr(s, d) \/ oe_string_append_bytes(s, d)
      PROVE  Good
  BY <1>6, StringAppendsCstr, StringAppends, SameRanges
<1> QED BY <1>1, <1>2, <1>3, <1>4, <1>5, <1>6 DEF StringNext

\* A step that changes nothing keeps the invariant.
LEMMA Stutters ==
  ASSUME Inv, UNCHANGED vars
  PROVE  Inv' /\ UNCHANGED <<Held, alive, call, ret>>
<1>1. heap' = heap /\ obj' = obj /\ alive' = alive /\ fault' = fault /\ call' = call /\ ret' = ret
  BY DEF vars
<1>2. SP!Inv(Strs)'
  BY <1>1, InvParts DEF SP!Inv, SP!GoodHeap, SP!Sound, SP!SoundAs, SP!Live
<1>3. SP!StrInv(Strs)'
  BY <1>1, <1>2, Kinds, SP!SameStr DEF Inv
<1>4. Held' = Held
  BY <1>1 DEF Held, B!Contents, B!Load
<1> QED BY <1>1, <1>3, <1>4 DEF Inv

LEMMA InitGood ==
  ASSUME Init
  PROVE  Inv /\ Abs!S!Init
<1>1. SP!Init /\ BP!Init
  BY SameContainer, SameBufferParts DEF Init
<1>2. SP!Inv(Strs)
  BY <1>1, Kinds, SP!InitInv
<1>3. \A x \in Obj : obj[x].data = Null /\ obj[x].size = 0
  BY <1>1 DEF SP!Init, SP!Empty
<1>4. SP!StrInv(Strs)
  BY <1>2, <1>3 DEF SP!StrInv, SP!Ended
<1>5. ASSUME NEW x \in Obj PROVE B!Contents(x) = <<>>
  <2>1. Held[x] \in Seq(SP!Cell) /\ Len(Held[x]) = 0 /\ Held[x] = B!Contents(x)
    BY <1>3, <1>4, AnyHandle DEF Inv
  <2> QED BY <2>1
<1>6. [x \in Obj |-> B!Contents(x)] = [x \in Obj |-> <<>>]
  BY <1>5
<1>7. Abs!S!Init
  BY <1>1, <1>6 DEF BP!Init, Abs!S!Init, Abs!Obj, Obj
<1> QED BY <1>4, <1>7 DEF Inv

LEMMA InvHolds ==
  ASSUME "view_at_capacity" \in Excluded
  PROVE  Spec => []Inv
<1>1. Init => Inv
  BY InitGood
<1>2. Inv /\ [Next]_vars => Inv'
  BY BufferNextGood, StringNextGood, Stutters DEF Next, Good
<1> QED BY <1>1, <1>2, PTL DEF Spec

-----------------------------------------------------------------------------
(***************************************************************************)
(* The theorems.                                                           *)
(***************************************************************************)

LEMMA InvSound ==
  Inv => Sound
<1> SUFFICES ASSUME Inv PROVE Sound
  OBVIOUS
<1>1. ~ fault
  BY InvParts DEF SP!Inv
<1>2. \A b \in Bufs : B!Audit(b)
  BY BufferSound
<1>3. \A s \in Strs : S!Audit(s)
  BY StringSound
<1> QED BY <1>1, <1>2, <1>3 DEF Sound

\* No mixture of C calls on buffers and strings makes an audit macro abort or
\* an access leave a live block: not when one kind is the source of the other,
\* not after a refused call, not after a handle that could not be allocated.
THEOREM AlwaysSound ==
  ASSUME "view_at_capacity" \in Excluded
  PROVE  Spec => []Sound
BY InvHolds, InvSound, PTL

LEMMA InvOwned ==
  Inv => Owned
<1> SUFFICES ASSUME Inv PROVE Owned
  OBVIOUS
<1>0. SP!Inv(Strs)
  BY InvParts
<1>1. ASSUME NEW x \in Obj, obj[x].data # Null
      PROVE  x \in alive /\ heap[obj[x].data].len = obj[x].cap + (IF x \in Strs THEN 1 ELSE 0)
  <2>1. x \in alive
    BY <1>0, <1>1 DEF SP!Inv, SP!Empty
  <2>2. CASE x \in Strs
    BY <1>0, <1>1, <2>1, <2>2 DEF SP!Inv, SP!Sound, SP!SoundAs
  <2>3. CASE x \notin Strs
    BY <1>0, <1>1, <2>1, <2>3, 1 - 1 = 0 DEF SP!Inv, SP!SoundAs
  <2> QED BY <2>2, <2>3
<1>2. \A x, y \in Obj : obj[x].data = obj[y].data /\ obj[x].data # Null => x = y
  BY <1>0 DEF SP!Inv
<1>3. \A p \in Block \ {Caller} : heap[p].len > 0 => \E x \in Obj : obj[x].data = p
  BY <1>0 DEF SP!Inv, SP!Live
<1> QED BY <1>1, <1>2, <1>3 DEF Owned

\* No C call leaks a block or lets two handles share one, whichever allocation
\* fails on the way: a block lives exactly as long as one handle owns it.
THEOREM AlwaysOwned ==
  ASSUME "view_at_capacity" \in Excluded
  PROVE  Spec => []Owned
BY InvHolds, InvOwned, PTL

\* The handles refine the byte sequences of AbstractCApi: null handles,
\* truncation, aliased sources of either kind and failed allocations included.
THEOREM CApiRefines ==
  ASSUME "view_at_capacity" \in Excluded, SP!SensibleLimits
  PROVE  Spec => Implements
<1>1. Init => Abs!S!Init
  BY InitGood
<1>2. Inv /\ [Next]_vars => [Abs!Next]_(<<[x \in Obj |-> B!Contents(x)], alive, call, ret>>)
  <2>1. Inv /\ Next => Abs!Next
    BY BufferNextGood, StringNextGood DEF Next, Good
  <2>2. Inv /\ UNCHANGED vars => UNCHANGED <<[x \in Obj |-> B!Contents(x)], alive, call, ret>>
    BY Stutters DEF Held
  <2> QED BY <2>1, <2>2
<1>3. Spec => []Inv
  BY InvHolds
<1> QED BY <1>1, <1>2, <1>3, PTL DEF Spec, Implements, Abs!Spec

-----------------------------------------------------------------------------
(***************************************************************************)
(* The count of bytes written.                                             *)
(***************************************************************************)

\* Only a read or a copy of a good handle counts.
LEMMA WhoCounts ==
  ASSUME Next, copied' # Untouched
  PROVE  \/ \E b \in Handle(Bufs), n, len \in B!Size, out \in BOOLEAN :
              /\ B!Read(b, n, out, len)
              /\ copied' = IF ret'.code = "ok" THEN Len(ret'.val) ELSE 0
         \/ \E s \in Handle(Strs), n \in S!Size, out \in BOOLEAN :
              /\ S!CopyToCstr(s, out, n)
              /\ copied' = CASE ret'.code = "ok" -> Len(ret'.val) - 1
                              [] ret'.code = "truncated" /\ n > 0 -> partial(obj[s].size, n)
                              [] OTHER -> 0
<1> USE DEF Reports, NoHandle, NoOp, Makes, NoCount
<1>1. CASE BufferNext
  <2>1. PICK b \in Handle(Bufs), n \in B!Size, len \in B!Size, out \in BOOLEAN, counted \in BOOLEAN :
          oe_buffer_read(b, n, out, len, counted)
    BY <1>1 DEF BufferNext, oe_buffer_create, oe_buffer_destroy, oe_buffer_size, oe_buffer_capacity,
                oe_buffer_data, oe_buffer_clear, oe_buffer_secure_clear, oe_buffer_verify,
                oe_buffer_reserve, oe_buffer_resize, oe_buffer_write, oe_buffer_append
  <2> QED BY <2>1 DEF oe_buffer_read, Counts
<1>2. CASE StringNext
  <2>1. PICK s \in Handle(Strs), n \in S!Size, out \in BOOLEAN, counted \in BOOLEAN :
          oe_string_copy_to_cstr(s, out, n, counted)
    BY <1>2 DEF StringNext, oe_string_create, oe_string_from_cstr, oe_string_from_bytes,
                oe_string_destroy, oe_string_size, oe_string_capacity, oe_string_cstr,
                oe_string_clear, oe_string_secure_clear, oe_string_verify, oe_string_reserve,
                oe_string_append_cstr, oe_string_append_bytes
  <2> QED BY <2>1 DEF oe_string_copy_to_cstr, Counts
<1> QED BY <1>1, <1>2 DEF Next

\* The count is the number of bytes in the caller's array, the NUL left out.
Landed == LET landed == Len(ret'.val)
          IN  IF call'[1] = "copy_to_cstr" /\ landed > 0 THEN landed - 1 ELSE landed

LEMMA ReadCounts ==
  ASSUME NEW b, NEW n, NEW len, NEW out, B!Read(b, n, out, len),
         copied' = IF ret'.code = "ok" THEN Len(ret'.val) ELSE 0
  PROVE  copied' = Landed
<1>1. call' = <<"read", b, n, out, len>>
  BY DEF B!Read, B!Looks, B!Returns
<1>2. ret'.code # "ok" => ret'.val = <<>>
  BY DEF B!Read, B!Looks, B!Returns
<1> QED BY <1>1, <1>2 DEF Landed

LEMMA CopyCounts ==
  ASSUME Inv, NEW s \in Strs, NEW n \in S!Size, NEW out, S!CopyToCstr(s, out, n), NEW count,
         ret'.code = "ok" => count = Len(ret'.val) - 1,
         ret'.code = "truncated" /\ n > 0 => count = partial(obj[s].size, n),
         ret'.code # "ok" /\ ~ (ret'.code = "truncated" /\ n > 0) => count = 0
  PROVE  count = Landed
<1>1. call'[1] = "copy_to_cstr"
  BY DEF S!CopyToCstr, S!Looks, S!Returns
<1>2. PICK size \in Nat : size = obj[s].size
  BY AnyHandle DEF Obj
<1>3. n \in Nat
  BY SizeAssumption DEF S!Size
<1>4. CASE ret'.code \notin {"ok", "truncated"}
  <2>1. ret'.val = <<>>
    BY <1>4 DEF S!CopyToCstr, S!Looks, S!Returns
  <2> QED BY <1>4, <2>1 DEF Landed
<1>5. CASE ret'.code \in {"ok", "truncated"}
  <2>1. PICK k : k = IF size < n - 1 THEN size ELSE n - 1
    OBVIOUS
  <2>2. PICK f : f = [i \in 1 .. k |-> S!Load(heap, obj[s].data, i - 1)]
    OBVIOUS
  <2>3. n > 0 /\ ret'.val = Append(f, 0) /\ (ret'.code = "truncated" <=> k < size)
    <3>1. PICK to_copy : to_copy = IF obj[s].size < n - 1 THEN obj[s].size ELSE n - 1
      OBVIOUS
    <3>2. to_copy = k
      BY <1>2, <2>1, <3>1
    <3>3. PICK v : v = Append([i \in 1 .. to_copy |-> S!Load(heap, obj[s].data, i - 1)], 0)
      OBVIOUS
    <3>4. v = Append(f, 0)
      BY <2>2, <3>2, <3>3
    <3>5. PICK code : code = IF to_copy < obj[s].size THEN "truncated" ELSE "ok"
      OBVIOUS
    <3>6. n > 0 /\ ret' = [code |-> code, val |-> v]
      <4>1. \/ ret' = [code |-> "invalid_argument", val |-> <<>>]
            \/ ret' = [code |-> "null_pointer", val |-> <<>>]
            \/ n > 0 /\ ret' = [code |-> code, val |-> v]
        BY <3>1, <3>3, <3>5, Zenon DEF S!CopyToCstr, S!Looks, S!Returns
      <4> QED BY <1>5, <4>1
    <3>7. ret'.code = code /\ ret'.val = v
      BY <3>6
    <3> QED BY <1>2, <3>2, <3>4, <3>5, <3>6, <3>7
  <2>4. k \in Nat /\ k = partial(size, n)
    BY <1>2, <1>3, <2>1, <2>3 DEF partial
  <2>5. f \in Seq({f[i] : i \in 1 .. k}) /\ Len(f) = k
    BY <2>2, <2>4
  <2>6. Len(Append(f, 0)) = k + 1
    BY <2>4, <2>5
  <2>7. Landed = k
    BY <1>1, <2>3, <2>4, <2>6 DEF Landed
  <2>8. count = k
    BY <1>2, <1>5, <2>3, <2>4, <2>6
  <2> QED BY <2>7, <2>8
<1> QED BY <1>4, <1>5

\* "*out_copied is what was written before the NUL": no program is told of a
\* byte that is not in its array, or not told of one that is.
THEOREM AlwaysCounts ==
  ASSUME "view_at_capacity" \in Excluded
  PROVE  Spec => CountsMatch
<1>1. ASSUME Inv, Next, call'[2] # Null, copied' # Untouched
      PROVE  copied' = Landed
  <2>1. CASE \E b \in Handle(Bufs), n, len \in B!Size, out \in BOOLEAN :
               /\ B!Read(b, n, out, len)
               /\ copied' = IF ret'.code = "ok" THEN Len(ret'.val) ELSE 0
    BY <2>1, ReadCounts
  <2>2. ASSUME NEW s \in Handle(Strs), NEW n \in S!Size, NEW out \in BOOLEAN, S!CopyToCstr(s, out, n),
               copied' = CASE ret'.code = "ok" -> Len(ret'.val) - 1
                           [] ret'.code = "truncated" /\ n > 0 -> partial(obj[s].size, n)
                           [] OTHER -> 0
        PROVE  copied' = Landed
    <3>1. s \in Strs
      <4>1. s \in alive
        BY <2>2 DEF S!CopyToCstr
      <4>2. Null \notin alive
        BY InvParts, <1>1, Kinds DEF SP!Inv
      <4> QED BY <4>1, <4>2 DEF Handle
    <3>2. PICK count : count = copied'
      OBVIOUS
    <3>3. /\ ret'.code = "ok" => count = Len(ret'.val) - 1
          /\ ret'.code = "truncated" /\ n > 0 => count = partial(obj[s].size, n)
          /\ ret'.code # "ok" /\ ~ (ret'.code = "truncated" /\ n > 0) => count = 0
      BY <2>2, <3>2, Zenon
    <3> QED BY <1>1, <2>2, <3>1, <3>2, <3>3, CopyCounts
  <2> QED BY <1>1, <2>1, <2>2, WhoCounts
<1>2. Inv /\ [Next]_vars =>
        [call'[2] # Null /\ copied' # Untouched =>
           copied' = LET landed == Len(ret'.val)
                     IN  IF call'[1] = "copy_to_cstr" /\ landed > 0 THEN landed - 1 ELSE landed]_vars
  BY <1>1 DEF Landed
<1>3. Spec => []Inv
  BY InvHolds
<1> QED BY <1>2, <1>3, PTL DEF Spec, CountsMatch

-----------------------------------------------------------------------------
(***************************************************************************)
(* The secure wrappers.                                                    *)
(***************************************************************************)

\* The operations that only the wrappers use mean the same, too.
LEMMA SameClear ==
  \A h, b : S!clear(h, b) = SP!clear(h, b)
BY DEF S!clear, SP!clear, S!Outcome, SP!Outcome, S!Terminated, SP!Terminated, S!memset, SP!memset,
     S!Inside, SP!Inside, S!Store, SP!Store, S!Addr, SP!Addr, S!Load, SP!Load

LEMMA SameWrapped ==
  ASSUME NEW x, NEW y, NEW n, NEW v, NEW s
  PROVE  /\ B!AppendByte(x, v) <=> BP!AppendByte(x, v)
         /\ B!WithCapacity(x, n) <=> BP!WithCapacity(x, n)
         /\ B!FromBytes(x, s) <=> BP!FromBytes(x, s)
         /\ S!AppendChar(x, v) <=> SP!AppendChar(x, v)
         /\ S!FromBytes(x, s) <=> SP!FromBytes(x, s)
         /\ S!FromCstr(x, s) <=> SP!FromCstr(x, s)
         /\ S!Assign(x, s) <=> SP!Assign(x, s)
<1>1. B!AppendByte(x, v) <=> BP!AppendByte(x, v)
  BY DEF B!AppendByte, BP!AppendByte, B!checked_add, BP!checked_add, B!Outcome, BP!Outcome,
         B!memset, BP!memset, B!Inside, BP!Inside, B!Audit, BP!Audit, B!Nullopt, BP!Nullopt,
         B!grow_to_at_least, BP!grow_to_at_least, B!Ends, BP!Ends, B!Wrap, BP!Wrap, B!Store,
         BP!Store, B!Addr, BP!Addr, B!Load, BP!Load, B!next_capacity, BP!next_capacity,
         B!reserve, BP!reserve, B!Answer, BP!Answer, B!checked_mul, BP!checked_mul,
         B!realloc, BP!realloc, B!Room, BP!Room, B!Returns, BP!Returns, B!free, BP!free,
         B!Live, BP!Live, B!Freed, BP!Freed
<1>2. B!WithCapacity(x, n) <=> BP!WithCapacity(x, n)
  BY DEF B!WithCapacity, BP!WithCapacity, B!with_capacity, BP!with_capacity, B!Creates,
         BP!Creates, B!Outcome, BP!Outcome, B!Empty, BP!Empty, B!malloc, BP!malloc, B!Room,
         BP!Room, B!Answer, BP!Answer, B!Freed, BP!Freed, B!Live, BP!Live, B!Returns,
         BP!Returns, B!Addr, BP!Addr
<1>3. B!FromBytes(x, s) <=> BP!FromBytes(x, s)
  BY DEF B!FromBytes, BP!FromBytes, B!MayPass, BP!MayPass, B!from_bytes, BP!from_bytes,
         B!target, BP!target, B!Creates, BP!Creates, B!Readable, BP!Readable, B!Outcome,
         BP!Outcome, B!memmove, BP!memmove, B!Inside, BP!Inside, B!with_capacity,
         BP!with_capacity, B!Empty, BP!Empty, B!Answer, BP!Answer, B!Store, BP!Store,
         B!Addr, BP!Addr, B!Load, BP!Load, B!malloc, BP!malloc, B!Room, BP!Room, B!Returns,
         BP!Returns, B!Freed, BP!Freed, B!Live, BP!Live
<1>4. S!AppendChar(x, v) <=> SP!AppendChar(x, v)
  <2>1. PICK b, m, grown :
          /\ b = obj[x] /\ m = SP!checked_add(b.size, 1)
          /\ grown = IF m = SP!Nullopt THEN {SP!Outcome("overflow", heap, b, FALSE)}
                     ELSE SP!grow_to_at_least(heap, b, m)
    OBVIOUS
  <2>2. /\ m = S!checked_add(b.size, 1)
        /\ grown = IF m = S!Nullopt THEN {S!Outcome("overflow", heap, b, FALSE)}
                   ELSE S!grow_to_at_least(heap, b, m)
    BY <2>1, SameGrowth DEF S!checked_add, SP!checked_add, S!Wrap, SP!Wrap, S!Nullopt, SP!Nullopt,
         S!Outcome, SP!Outcome
  <2>3. \A o : S!Outcome("ok", S!memset(o.heap, o.buf.data, b.size, v, 1), o.buf,
                         ~ S!Inside(o.heap, o.buf.data, b.size, 1))
                 = SP!Outcome("ok", SP!memset(o.heap, o.buf.data, b.size, v, 1), o.buf,
                              ~ SP!Inside(o.heap, o.buf.data, b.size, 1))
    BY DEF S!Outcome, SP!Outcome, S!memset, SP!memset, S!Inside, SP!Inside, S!Store, SP!Store,
         S!Addr, SP!Addr, S!Load, SP!Load
  <2>4. S!AppendChar(x, v) <=>
          /\ x \in alive /\ S!Audit(x)
          /\ \E o \in grown :
               S!Ends(<<"append_char", x, v>>, x,
                      IF o.code = "ok"
                      THEN S!Sized(S!Outcome("ok", S!memset(o.heap, o.buf.data, b.size, v, 1), o.buf,
                                             ~ S!Inside(o.heap, o.buf.data, b.size, 1)), m)
                      ELSE o)
    BY <2>1, <2>2 DEF S!AppendChar
  <2>5. SP!AppendChar(x, v) <=>
          /\ x \in alive /\ SP!Audit(x)
          /\ \E o \in grown :
               SP!Ends(<<"append_char", x, v>>, x,
                       IF o.code = "ok"
                       THEN SP!Sized(SP!Outcome("ok", SP!memset(o.heap, o.buf.data, b.size, v, 1), o.buf,
                                                ~ SP!Inside(o.heap, o.buf.data, b.size, 1)), m)
                       ELSE o)
    BY <2>1 DEF SP!AppendChar
  <2>6. S!Audit(x) <=> SP!Audit(x)
    BY SameStringParts
  <2>7. \A c, o : S!Ends(c, x, o) <=> SP!Ends(c, x, o)
    BY SameStringParts
  <2>8. \A o : S!Sized(o, m) = SP!Sized(o, m)
    BY SameGrowth
  <2> QED BY <2>3, <2>4, <2>5, <2>6, <2>7, <2>8
<1>5. S!FromBytes(x, s) <=> SP!FromBytes(x, s)
  BY SameStringParts DEF S!FromBytes, SP!FromBytes, S!Creates, SP!Creates, S!Answer, SP!Answer,
         S!Returns, SP!Returns
<1>6. S!FromCstr(x, s) <=> SP!FromCstr(x, s)
  BY SameStringParts DEF S!FromCstr, SP!FromCstr, S!Creates, SP!Creates, S!Answer, SP!Answer,
         S!Returns, SP!Returns
<1>7. S!Assign(x, s) <=> SP!Assign(x, s)
  <2>1. PICK b, len, q, put : /\ b = obj[x] /\ len = s.len /\ q = SP!target(s)
                              /\ put = SP!copy_in_possibly_aliased(heap, b, 0, q, s.off, len, len)
    OBVIOUS
  <2>2. q = S!target(s) /\ put = S!copy_in_possibly_aliased(heap, b, 0, q, s.off, len, len)
    BY <2>1, SameGrowth, SameStringParts
  <2>3. {IF o.code = "ok" THEN S!Sized(o, len) ELSE o : o \in put}
          = {IF o.code = "ok" THEN SP!Sized(o, len) ELSE o : o \in put}
    BY SameGrowth
  <2>4. S!clear(heap, b) = SP!clear(heap, b)
    BY SameClear
  <2>5. S!Outcome("null_pointer", heap, b, FALSE) = SP!Outcome("null_pointer", heap, b, FALSE)
    BY DEF S!Outcome, SP!Outcome
  <2>6. PICK outcomes : outcomes = IF len = 0 THEN {SP!clear(heap, b)}
                                   ELSE IF q = Null THEN {SP!Outcome("null_pointer", heap, b, FALSE)}
                                   ELSE {IF o.code = "ok" THEN SP!Sized(o, len) ELSE o : o \in put}
    OBVIOUS
  <2>7. S!Assign(x, s) <=> /\ x \in alive /\ S!Audit(x)
                           /\ S!MayPass(s, 1, len >= MAX_ALLOC_BYTES)
                           /\ \E o \in outcomes : S!Ends(<<"assign", x, s>>, x, o)
    BY <2>1, <2>2, <2>3, <2>4, <2>5, <2>6 DEF S!Assign
  <2>8. SP!Assign(x, s) <=> /\ x \in alive /\ SP!Audit(x)
                            /\ SP!MayPass(s, 1, len >= MAX_ALLOC_BYTES)
                            /\ \E o \in outcomes : SP!Ends(<<"assign", x, s>>, x, o)
    BY <2>1, <2>6 DEF SP!Assign
  <2> QED BY <2>7, <2>8, SameStringParts
<1> QED BY <1>1, <1>2, <1>3, <1>4, <1>5, <1>6, <1>7

\* Lifetime is the same for both kinds.
LEMMA SameLifetime ==
  ASSUME NEW x, NEW y
  PROVE  /\ B!Construct(x) <=> SP!Construct(x)
         /\ B!MoveConstruct(x, y) <=> SP!MoveConstruct(x, y)
         /\ B!MoveAssign(x, y) <=> SP!MoveAssign(x, y)
         /\ B!Destroy(x) <=> SP!Destroy(x)
<1>1. B!Construct(x) <=> SP!Construct(x)
  BY DEF B!Construct, SP!Construct, B!Returns, SP!Returns
<1>2. B!MoveConstruct(x, y) <=> SP!MoveConstruct(x, y)
  BY DEF B!MoveConstruct, SP!MoveConstruct, B!Empty, SP!Empty, B!Returns, SP!Returns
<1>3. B!MoveAssign(x, y) <=> SP!MoveAssign(x, y)
  BY DEF B!MoveAssign, SP!MoveAssign, B!Looks, SP!Looks, B!free, SP!free, B!Empty, SP!Empty,
         B!Returns, SP!Returns, B!Freed, SP!Freed, B!Addr, SP!Addr
<1>4. B!Destroy(x) <=> SP!Destroy(x)
  BY DEF B!Destroy, SP!Destroy, B!Answer, SP!Answer, B!Outcome, SP!Outcome, B!free, SP!free,
         B!Empty, SP!Empty, B!Returns, SP!Returns, B!Freed, SP!Freed, B!Addr, SP!Addr
<1> QED BY <1>1, <1>2, <1>3, <1>4

\* Both kinds mean the same by a block that is blank past what it holds.
LEMMA SameBlank ==
  /\ BP!AllBlank <=> SP!AllBlank
  /\ \A x : BP!Kept(x) <=> SP!Kept(x)
<1>1. \A h, p, n : BP!Blank(h, p, n) <=> SP!Blank(h, p, n)
  BY DEF BP!Blank, SP!Blank, BP!Addr, SP!Addr
<1>2. BP!Chunk = SP!Chunk /\ BP!Header = SP!Header
  BY DEF BP!Chunk, SP!Chunk, BP!Header, SP!Header, BP!Size, SP!Size, BP!Cell, SP!Cell, BP!Addr, SP!Addr
<1>3. \A h, b : BP!Tidy(h, b) <=> SP!Tidy(h, b)
  BY <1>1, <1>2 DEF BP!Tidy, SP!Tidy
<1>4. \A h, b, o : BP!Keeps(h, b, o) <=> SP!Keeps(h, b, o)
  BY <1>3 DEF BP!Keeps, SP!Keeps
<1>5. BP!AllBlank <=> SP!AllBlank
  BY <1>1 DEF BP!AllBlank, SP!AllBlank
<1>6. \A x : BP!Kept(x) <=> SP!Kept(x)
  BY <1>4 DEF BP!Kept, SP!Kept
<1> QED BY <1>5, <1>6

\* The invariant of the wrappers: besides, what was dropped is zeroed at once,
\* so that no block holds more than its wrapper shows.
Clean == Inv /\ SP!AllBlank

\* A buffer call that its own module describes keeps the invariant.
LEMMA BufferStep ==
  ASSUME Inv, BP!Step(Bufs)
  PROVE  Inv'
<1>1. BP!Inv(Bufs)' /\ BP!Frame(Bufs)
  BY DEF BP!Step
<1> QED BY <1>1, InvBoth, StringsKept DEF BP!Frame

\* What callers of a secure buffer who do not shrink it may do.
LEMMA BufferClean ==
  ASSUME Clean, "shrink" \notin Habits, NEW x \in Bufs, BufferFactories(x) \/ BufferOps(x)
  PROVE  Inv' /\ SP!Kept(x)
<1>0. x \in Obj /\ x \in Bufs /\ BP!Inv(Bufs) /\ Inv /\ BP!AllBlank
  BY InvParts, SameBlank DEF Clean, Obj
<1>1. SUFFICES BP!Step(Bufs) /\ BP!Kept(x)
  BY <1>0, BufferStep, SameBlank
<1>2. x \notin Strs /\ B!Size = BP!Size /\ B!Source = BP!Source
  BY Kinds, SameBufferParts
<1>3. ASSUME NEW n \in BP!Size, B!WithCapacity(x, n) PROVE BP!Step(Bufs) /\ BP!Kept(x)
  <2>1. BP!WithCapacity(x, n)
    BY <1>3, SameWrapped
  <2>2. BP!Step(Bufs)
    BY <1>0, <2>1, Kinds, BP!FactoryStep
  <2>3. BP!Kept(x)
    BY <1>0, <2>1, Kinds, BP!CapacityKept
  <2> QED BY <2>2, <2>3
<1>4. ASSUME NEW s \in BP!Source, B!FromBytes(x, s) PROVE BP!Step(Bufs) /\ BP!Kept(x)
  <2>1. BP!FromBytes(x, s)
    BY <1>4, SameWrapped
  <2>2. BP!Step(Bufs)
    BY <1>0, <2>1, Kinds, BP!FactoryStep
  <2>3. BP!Kept(x)
    BY <1>0, <2>1, Kinds, BP!BytesKept
  <2> QED BY <2>2, <2>3
<1>5. ASSUME Clear(x) PROVE BP!Step(Bufs) /\ BP!Kept(x)
  <2>1. BP!SecureClear(x)
    BY <1>2, <1>5, SameBufferActions DEF Clear
  <2>2. BP!Step(Bufs)
    BY <1>0, <2>1, Kinds, BP!InPlaceStep
  <2>3. BP!Kept(x)
    BY <1>0, <2>1, Kinds, BP!SecureClearKept
  <2> QED BY <2>2, <2>3
<1>6. ASSUME NEW v \in Byte, B!AppendByte(x, v) PROVE BP!Step(Bufs) /\ BP!Kept(x)
  <2>1. BP!AppendByte(x, v)
    BY <1>6, SameWrapped
  <2>2. BP!Step(Bufs)
    BY <1>0, <2>1, Kinds, BP!GrowingStep
  <2>3. BP!Kept(x)
    BY <1>0, <2>1, Kinds, BP!AppendByteKept
  <2> QED BY <2>2, <2>3
<1>7. ASSUME NEW s \in BP!Source, B!AppendBytes(x, s) PROVE BP!Step(Bufs) /\ BP!Kept(x)
  <2>1. BP!AppendBytes(x, s)
    BY <1>7, SameBufferActions
  <2>2. BP!Step(Bufs)
    BY <1>0, <2>1, Kinds, BP!GrowingStep
  <2>3. BP!Kept(x)
    BY <1>0, <2>1, Kinds, BP!AppendBytesKept
  <2> QED BY <2>2, <2>3
<1>8. ASSUME NEW s \in BP!Source, NEW n \in BP!Size, B!Write(x, n, s) PROVE BP!Step(Bufs) /\ BP!Kept(x)
  <2>1. BP!Write(x, n, s)
    BY <1>8, SameBufferActions
  <2>2. BP!Step(Bufs)
    BY <1>0, <2>1, Kinds, BP!InPlaceStep
  <2>3. BP!Kept(x)
    BY <1>0, <2>1, Kinds, BP!WriteKept
  <2> QED BY <2>2, <2>3
<1>9. ASSUME NEW n \in BP!Size, NEW len \in BP!Size, NEW out \in BOOLEAN, B!Read(x, n, out, len)
      PROVE  BP!Step(Bufs) /\ BP!Kept(x)
  <2>1. BP!Read(x, n, out, len)
    BY <1>9, SameBufferActions
  <2>2. BP!Step(Bufs)
    BY <1>0, <1>9, <2>1, Kinds, BP!ReadersStep
  <2>3. BP!Kept(x)
    BY <1>0, <2>1, Kinds, BP!ReadKept
  <2> QED BY <2>2, <2>3
<1>10. ASSUME NEW n \in BP!Size, B!Reserve(x, n) PROVE BP!Step(Bufs) /\ BP!Kept(x)
  <2>1. BP!Reserve(x, n)
    BY <1>10, SameBufferActions
  <2>2. BP!Step(Bufs)
    BY <1>0, <2>1, Kinds, BP!GrowingStep
  <2>3. BP!Kept(x)
    BY <1>0, <2>1, Kinds, BP!ReserveKept
  <2> QED BY <2>2, <2>3
<1>11. ASSUME NEW n \in BP!Size, NEW v \in Byte, ~ Shrinks(x, n), B!Resize(x, n, v)
       PROVE  BP!Step(Bufs) /\ BP!Kept(x)
  <2>1. BP!Resize(x, n, v)
    BY <1>11, SameBufferActions
  <2>2. BP!Step(Bufs)
    BY <1>0, <2>1, Kinds, BP!GrowingStep
  <2>3. obj[x].size \in Nat /\ n \in Nat
    <3>1. obj[x].size \in BP!Size
      BY <1>0 DEF BP!Inv, BP!Header
    <3> QED BY <3>1, Kinds DEF BP!Size
  <2>4. obj[x].size <= n
    BY <1>11, <2>3 DEF Shrinks
  <2>5. BP!Kept(x)
    BY <1>0, <2>1, <2>4, Kinds, BP!ResizeKept
  <2> QED BY <2>2, <2>5
<1>12. CASE BufferFactories(x)
  BY <1>2, <1>3, <1>4, <1>12 DEF BufferFactories
<1>13. CASE BufferOps(x)
  BY <1>2, <1>5, <1>6, <1>7, <1>8, <1>9, <1>10, <1>11, <1>13 DEF BufferOps
<1> QED BY <1>12, <1>13

\* What callers of a secure string may do.
LEMMA StringClean ==
  ASSUME Clean, "shrink" \notin Habits, "view_at_capacity" \in Excluded,
         NEW x \in Strs, StringFactories(x) \/ StringOps(x)
  PROVE  Inv' /\ SP!Kept(x)
<1>0. x \in Obj /\ x \in Strs /\ SP!Inv(Strs) /\ SP!StrInv(Strs) /\ SP!AllBlank
  BY InvParts DEF Clean, Obj
<1>1. SUFFICES SP!StrInv(Strs)' /\ SP!Kept(x)
  BY DEF Inv
<1>2. S!Size = SP!Size /\ S!Source = SP!Source
  BY SameStringParts
<1>3. ASSUME NEW s \in SP!Source, Bounded(s), S!FromCstr(x, s) \/ S!FromBytes(x, s)
      PROVE  SP!StrInv(Strs)' /\ SP!Kept(x)
  <2>1. SP!Within(Strs, s) /\ (SP!FromCstr(x, s) \/ SP!FromBytes(x, s))
    BY <1>3, BoundedWithin, SameWrapped
  <2>2. SP!StrInv(Strs)'
    BY <1>0, <2>1, Kinds, SP!FactoryStr DEF SP!StrInv
  <2>3. SP!Kept(x)
    BY <1>0, <2>1, Kinds, SP!FactoriesKept
  <2> QED BY <2>2, <2>3
<1>4. ASSUME Clear(x) PROVE SP!StrInv(Strs)' /\ SP!Kept(x)
  <2>1. SP!SecureClear(x)
    BY <1>0, <1>4, SameStringActions DEF Clear
  <2>2. SP!StrInv(Strs)'
    BY <1>0, <2>1, Kinds, SP!InPlaceStr DEF SP!StrInv
  <2>3. SP!Kept(x)
    BY <1>0, <2>1, Kinds, SP!SecureClearKept
  <2> QED BY <2>2, <2>3
<1>5. ASSUME NEW v \in Byte, S!AppendChar(x, v) PROVE SP!StrInv(Strs)' /\ SP!Kept(x)
  <2>1. SP!AppendChar(x, v)
    BY <1>5, SameWrapped
  <2>2. SP!StrInv(Strs)'
    BY <1>0, <2>1, Kinds, SP!AppendCharStr DEF SP!StrInv
  <2>3. SP!Kept(x)
    BY <1>0, <2>1, Kinds, SP!AppendCharKept
  <2> QED BY <2>2, <2>3
<1>6. ASSUME NEW s \in SP!Source, Bounded(s), S!AppendBytes(x, s) PROVE SP!StrInv(Strs)' /\ SP!Kept(x)
  <2>1. SP!Within(Strs, s) /\ SP!AppendBytes(x, s)
    BY <1>6, BoundedWithin, SameStringActions
  <2>2. SP!StrInv(Strs)'
    BY <1>0, <2>1, Kinds, SP!AppendBytesStr DEF SP!StrInv
  <2>3. SP!Kept(x)
    BY <1>0, <2>1, Kinds, SP!AppendBytesKept
  <2> QED BY <2>2, <2>3
<1>7. ASSUME NEW s \in SP!Source, Bounded(s), ~ Shrinks(x, s.len), S!Assign(x, s)
      PROVE  SP!StrInv(Strs)' /\ SP!Kept(x)
  <2>1. SP!Within(Strs, s) /\ SP!Assign(x, s)
    BY <1>7, BoundedWithin, SameWrapped
  <2>2. SP!StrInv(Strs)'
    BY <1>0, <2>1, Kinds, SP!AssignStr DEF SP!StrInv
  <2>3. obj[x].size \in Nat /\ s.len \in Nat
    <3>1. obj[x].size \in SP!Size /\ s.len \in SP!Size
      BY <1>0 DEF SP!Inv, SP!Header, SP!Source
    <3> QED BY <3>1, Kinds DEF SP!Size
  <2>4. obj[x].size <= s.len
    BY <1>7, <2>3 DEF Shrinks
  <2>5. SP!Kept(x)
    BY <1>0, <2>1, <2>4, Kinds, SP!AssignKept
  <2> QED BY <2>2, <2>5
<1>8. ASSUME NEW n \in SP!Size, S!Reserve(x, n) PROVE SP!StrInv(Strs)' /\ SP!Kept(x)
  <2>1. SP!Reserve(x, n)
    BY <1>8, SameStringActions
  <2>2. SP!StrInv(Strs)'
    BY <1>0, <2>1, Kinds, SP!InPlaceStr DEF SP!StrInv
  <2>3. SP!Kept(x)
    BY <1>0, <2>1, Kinds, SP!ReserveKept
  <2> QED BY <2>2, <2>3
<1>9. ASSUME NEW n \in SP!Size, NEW out \in BOOLEAN, S!CopyToCstr(x, out, n) PROVE SP!StrInv(Strs)' /\ SP!Kept(x)
  <2>1. SP!CopyToCstr(x, out, n)
    BY <1>9, SameStringActions
  <2>2. SP!StrInv(Strs)'
    BY <1>0, <1>9, <2>1, Kinds, SP!ReadersStr DEF SP!StrInv
  <2>3. SP!Kept(x)
    BY <1>0, <2>1, Kinds, SP!CopyToCstrKept
  <2> QED BY <2>2, <2>3
<1>10. CASE StringFactories(x)
  BY <1>2, <1>3, <1>10 DEF StringFactories
<1>11. CASE StringOps(x)
  BY <1>2, <1>4, <1>5, <1>6, <1>7, <1>8, <1>9, <1>11 DEF StringOps
<1> QED BY <1>10, <1>11

\* There is no secret where nothing was stored but zeros.
LEMMA NoSecrets ==
  ASSUME NEW h, NEW p \in Block, NEW n \in Nat, SP!Blank(h, p, n)
  PROVE  Secrets(h, p, n) = {}
<1>1. \A a \in n .. MAX_ALLOC_BYTES - 1 : a \in SP!Addr /\ a >= n
  BY Kinds DEF SP!Addr
<1>2. p # Null
  BY Kinds
<1> QED BY <1>1, <1>2 DEF Secrets, SP!Blank

\* A step after which the blocks are blank where they were, and which frees
\* no block but blank ones.
Purges(h) ==
  /\ Clean'
  /\ \A q \in Block : SP!Live(h, q) /\ ~ SP!Live(heap', q) => SP!Blank(h, q, 0)

\* Such a step frees no secret.
LEMMA PurgesReleases ==
  ASSUME NEW h, Purges(h), Releases(h)
  PROVE  residue' = residue
<1>1. \A g, p : B!Live(g, p) <=> SP!Live(g, p)
  BY DEF B!Live, SP!Live
<1>2. PICK k \in Nat : k = 0
  OBVIOUS
<1>3. ASSUME NEW q \in {r \in Block : B!Live(h, r) /\ ~ B!Live(heap', r)} PROVE Secrets(h, q, 0) = {}
  <2>1. q \in Block /\ SP!Blank(h, q, k)
    BY <1>1, <1>2, <1>3 DEF Purges
  <2> QED BY <1>2, <2>1, NoSecrets
<1>4. UNION {Secrets(h, p, 0) : p \in {q \in Block : B!Live(h, q) /\ ~ B!Live(heap', q)}} = {}
  BY <1>3
<1> QED BY <1>4 DEF Releases

\* A call on a wrapper, by callers who reserve what they need.
LEMMA KeptPurges ==
  ASSUME Clean, NEW x \in Obj, Inv', SP!Kept(x)
  PROVE  /\ Clean'
         /\ "grow" \notin Habits /\ Fits(x) => Purges(heap)
<1>0. SP!Inv(Strs) /\ SP!AllBlank /\ SP!Inv(Strs)'
  BY InvParts DEF Clean, Inv, SP!StrInv
<1>1. SP!AllBlank'
  BY <1>0, Kinds, SP!KeptBlank
<1>2. ASSUME "grow" \notin Habits, Fits(x), NEW q \in Block, SP!Live(heap, q), ~ SP!Live(heap', q)
      PROVE  SP!Blank(heap, q, 0)
  <2>1. obj[x].size = 0 \/ obj'[x].cap = obj[x].cap
    BY <1>2 DEF Fits
  <2> QED BY <1>0, <1>2, <2>1, Kinds, SP!KeptFreed
<1> QED BY <1>1, <1>2 DEF Purges, Clean

\* The heap after inner_.secure_clear(): the wrapper's block is blank, and to
\* free it comes to what freeing it without zeroing it would come to.
LEMMA WipedTrims ==
  ASSUME Clean, NEW x \in Obj
  PROVE  /\ SP!Trims(heap, wiped(x), obj[x].data, 0)
         /\ B!free(wiped(x), obj[x].data) = B!free(heap, obj[x].data)
<1>1. PICK b, p, k, z : b = obj[x] /\ p = b.data /\ k = b.size /\ z = 0
  OBVIOUS
<1>2. SP!Inv(Strs) /\ SP!AllBlank
  BY InvParts DEF Clean
<1>3. /\ SP!Tidy(heap, b) /\ k \in Nat /\ p \in Block \cup {Null}
      /\ heap \in [Block -> SP!Chunk] /\ SP!Blank(heap, p, k)
  <2>1. SP!Tidy(heap, obj[x]) /\ obj[x].size \in Nat /\ obj[x].data \in Block \cup {Null}
    BY <1>2, Kinds, SP!ObjectTidy
  <2> QED BY <1>1, <2>1 DEF SP!Tidy
<1>4. PICK t : t = SP!secure_zero(heap, p, k)
  OBVIOUS
<1>5. SP!Trims(heap, t, p, z)
  BY <1>1, <1>3, <1>4, Kinds, SP!ZeroTrims
<1>6. t = B!secure_zero(heap, obj[x].data, obj[x].size)
  BY <1>1, <1>4 DEF B!secure_zero, SP!secure_zero, B!memset, SP!memset, B!Store, SP!Store,
         B!Addr, SP!Addr, B!Load, SP!Load
<1>7. S!clear(t, b) = SP!clear(t, b)
  BY SameClear
<1>8. PICK o : o = SP!clear(t, b)
  OBVIOUS
<1>9. SP!Trims(heap, o.heap, p, z)
  BY <1>1, <1>3, <1>5, <1>8, Kinds, SP!ClearTrims
<1>10. wiped(x) = t \/ wiped(x) = o.heap
  BY <1>1, <1>6, <1>7, <1>8 DEF wiped
<1>11. SP!Trims(heap, wiped(x), p, z)
  BY <1>5, <1>9, <1>10
<1>12. SP!free(wiped(x), p) = SP!free(heap, p)
  BY <1>3, <1>11, Kinds, SP!TrimsFree
<1> QED BY <1>1, <1>11, <1>12, SameContainer

\* Constructors, destructor and moves.
LEMMA LifetimeClean ==
  ASSUME Clean, NEW kind \in {Bufs, Strs}, NEW x \in kind, NEW y \in kind,
         Construct(x) \/ Destroy(x) \/ MoveConstruct(x, y) \/ MoveAssign(x, y)
  PROVE  Clean' /\ residue' = residue
<1>0. /\ x \in Obj /\ y \in Obj /\ SP!Inv(Strs) /\ SP!StrInv(Strs) /\ SP!AllBlank /\ Inv /\ BP!Inv(Bufs)
      /\ (x \in Strs /\ y \in Strs) \/ (x \in Bufs /\ y \in Bufs)
  BY InvParts DEF Clean, Obj
<1>1. ASSUME SP!Construct(x) \/ SP!Destroy(x) \/ SP!MoveConstruct(x, y) \/ SP!MoveAssign(x, y)
      PROVE  Inv'
  <2>1. CASE x \in Strs /\ y \in Strs
    BY <1>0, <1>1, <2>1, Kinds, SP!LifetimeStr DEF SP!StrInv, Inv
  <2>2. CASE x \in Bufs /\ y \in Bufs
    <3>1. BP!Construct(x) \/ BP!Destroy(x) \/ BP!MoveConstruct(x, y) \/ BP!MoveAssign(x, y)
      BY <1>1 DEF BP!Construct, BP!Destroy, BP!MoveConstruct, BP!MoveAssign, SP!Construct, SP!Destroy,
           SP!MoveConstruct, SP!MoveAssign, BP!Returns, SP!Returns, BP!Empty, SP!Empty, BP!free, SP!free,
           BP!Freed, SP!Freed, BP!Addr, SP!Addr, BP!Answer, SP!Answer, BP!Outcome, SP!Outcome,
           BP!Looks, SP!Looks
    <3>2. BP!Inv(Bufs)' /\ BP!Frame(Bufs)
      BY <1>0, <2>2, <3>1, Kinds, BP!LifetimeStep
    <3> QED BY <1>0, <3>2, InvBoth, StringsKept DEF BP!Frame
  <2> QED BY <1>0, <2>1, <2>2
<1>2. ASSUME Inv', NEW p, \A q \in Block : q # p => heap'[q] = heap[q],
             \A z \in Obj : \/ obj'[z].data = Null
                            \/ \E w \in Obj : obj'[z] = obj[w] /\ obj[w].data # p
      PROVE  Clean'
  <2>1. SP!AllBlank'
    BY <1>0, <1>2, Kinds, SP!HandedBlank
  <2> QED BY <1>2, <2>1 DEF Clean
<1>3. PICK p : p = obj[x].data
  OBVIOUS
<1>4. /\ obj \in [Obj -> SP!Header] /\ heap \in [Block -> SP!Chunk] /\ p \in Block \cup {Null} /\ Null \notin Block
      /\ \A z \in Obj : z # x /\ obj[z].data # Null => obj[z].data # p
  BY <1>0, <1>3, Kinds DEF SP!Inv, SP!GoodHeap, SP!Header
<1>5. \A q \in Block : q # p => SP!free(heap, p)[q] = heap[q]
  BY <1>4 DEF SP!free
<1>6. B!Empty = SP!Empty /\ B!Empty.data = Null /\ SP!Empty.data = Null
  BY SameContainer DEF SP!Empty
<1>7. /\ SP!Trims(heap, wiped(x), p, 0) /\ B!free(wiped(x), p) = SP!free(heap, p)
      /\ SP!free(wiped(x), p) = SP!free(heap, p)
  BY <1>0, <1>3, WipedTrims, SameContainer
<1>8. ASSUME heap' = SP!free(heap, p), Clean', Releases(wiped(x)) PROVE residue' = residue
  <2>1. ASSUME NEW q \in Block, SP!Live(wiped(x), q), ~ SP!Live(heap', q) PROVE SP!Blank(wiped(x), q, 0)
    <3>1. wiped(x) \in [Block -> SP!Chunk] /\ SP!Blank(wiped(x), p, 0)
      BY <1>7 DEF SP!Trims
    <3>2. ~ SP!Live(SP!free(wiped(x), p), q)
      BY <1>7, <1>8, <2>1
    <3>3. q = p
      BY <2>1, <3>1, <3>2, Kinds, SP!FreesOne
    <3> QED BY <3>1, <3>3
  <2>2. Purges(wiped(x))
    BY <1>8, <2>1 DEF Purges
  <2> QED BY <1>8, <2>2, PurgesReleases
<1>9. CASE Construct(x)
  <2>1. SP!Construct(x) /\ residue' = residue
    BY <1>9, SameLifetime DEF Construct
  <2>2. heap' = heap /\ obj' = obj
    BY <2>1 DEF SP!Construct
  <2>3. \A z \in Obj : obj'[z].data = Null \/ \E w \in Obj : obj'[z] = obj[w] /\ obj[w].data # Null
    BY <2>2
  <2> QED BY <1>1, <1>2, <2>1, <2>2, <2>3
<1>10. CASE Destroy(x)
  <2>1. PICK o : o = B!Outcome("ok", B!free(wiped(x), p), B!Empty, FALSE)
    OBVIOUS
  <2>2. o = B!Outcome("ok", B!free(heap, p), B!Empty, FALSE)
    BY <1>3, <1>0, <2>1, WipedTrims
  <2>3. x \in alive /\ B!Answer(<<"destroy", x>>, x, o) /\ alive' = alive \ {x} /\ Releases(wiped(x))
    BY <1>3, <1>10, <2>1 DEF Destroy
  <2>4. SP!Destroy(x)
    BY <1>3, <2>2, <2>3, SameLifetime DEF B!Destroy
  <2>5. heap' = SP!free(heap, p) /\ obj' = [obj EXCEPT ![x] = SP!Empty]
    BY <1>3, <2>4 DEF SP!Destroy, SP!Answer, SP!Outcome
  <2>6. \A z \in Obj : obj'[z].data = Null \/ \E w \in Obj : obj'[z] = obj[w] /\ obj[w].data # p
    BY <1>4, <1>6, <2>5
  <2>7. Clean'
    BY <1>1, <1>2, <1>5, <2>4, <2>5, <2>6
  <2> QED BY <1>8, <2>3, <2>5, <2>7
<1>11. CASE MoveConstruct(x, y)
  <2>1. SP!MoveConstruct(x, y) /\ residue' = residue
    BY <1>11, SameLifetime DEF MoveConstruct
  <2>2. heap' = heap /\ obj' = [obj EXCEPT ![x] = obj[y], ![y] = SP!Empty]
    BY <2>1 DEF SP!MoveConstruct
  <2>3. \A z \in Obj : obj'[z].data = Null \/ \E w \in Obj : obj'[z] = obj[w] /\ obj[w].data # Null
    BY <1>0, <1>4, <1>6, <2>2
  <2> QED BY <1>1, <1>2, <2>1, <2>2, <2>3
<1>12. CASE MoveAssign(x, y) /\ x = y
  <2>1. SP!MoveAssign(x, y) /\ residue' = residue
    BY <1>12, SameLifetime DEF MoveAssign
  <2>2. heap' = heap /\ obj' = obj
    BY <1>12, <2>1 DEF SP!MoveAssign, SP!Looks
  <2>3. \A z \in Obj : obj'[z].data = Null \/ \E w \in Obj : obj'[z] = obj[w] /\ obj[w].data # Null
    BY <2>2
  <2> QED BY <1>1, <1>2, <2>1, <2>2, <2>3
<1>13. CASE MoveAssign(x, y) /\ x # y
  <2>1. /\ heap' = B!free(heap, p) /\ obj' = [obj EXCEPT ![x] = obj[y], ![y] = B!Empty]
        /\ x \in alive /\ y \in alive /\ B!Returns(<<"move_assign", x, y>>, "ok", <<>>)
        /\ UNCHANGED <<alive, fault>> /\ Releases(wiped(x))
    BY <1>0, <1>3, <1>13, WipedTrims DEF MoveAssign
  <2>2. SP!MoveAssign(x, y)
    BY <1>3, <1>13, <2>1, SameLifetime DEF B!MoveAssign
  <2>3. heap' = SP!free(heap, p) /\ obj' = [obj EXCEPT ![x] = obj[y], ![y] = SP!Empty]
    BY <1>6, <2>1, SameContainer
  <2>4. \A z \in Obj : obj'[z].data = Null \/ \E w \in Obj : obj'[z] = obj[w] /\ obj[w].data # p
    <3>1. SUFFICES ASSUME NEW z \in Obj, obj'[z].data # Null
                   PROVE  \E w \in Obj : obj'[z] = obj[w] /\ obj[w].data # p
      OBVIOUS
    <3>2. obj'[y] = SP!Empty /\ obj'[x] = obj[y] /\ (z # x /\ z # y => obj'[z] = obj[z])
      BY <1>0, <1>4, <1>13, <2>3
    <3>3. CASE z = x
      BY <1>0, <1>4, <1>13, <3>1, <3>2, <3>3
    <3>4. CASE z # x
      BY <1>4, <1>6, <3>1, <3>2, <3>4
    <3> QED BY <3>1, <3>3, <3>4
  <2>5. Clean'
    <3>1. Inv'
      BY <1>1, <2>2
    <3>2. \A q \in Block : q # p => heap'[q] = heap[q]
      BY <1>5, <2>3
    <3> QED BY <1>2, <2>4, <3>1, <3>2
  <2> QED BY <1>8, <2>1, <2>3, <2>5
<1> QED BY <1>9, <1>10, <1>11, <1>12, <1>13

\* Every step of a program with wrappers keeps the invariant; if its callers
\* reserve what they need, no secret is freed.
LEMMA SecureStep ==
  ASSUME Clean, "shrink" \notin Habits, "view_at_capacity" \in Excluded, SecureNext
  PROVE  Clean' /\ ("grow" \notin Habits => residue' = residue)
<1>1. CASE LifetimeNext
  <2>1. PICK kind \in {Bufs, Strs} : \E x \in kind :
          Construct(x) \/ Destroy(x) \/ \E y \in kind : MoveConstruct(x, y) \/ MoveAssign(x, y)
    BY <1>1 DEF LifetimeNext
  <2>2. PICK x \in kind : \E y \in kind : Construct(x) \/ Destroy(x) \/ MoveConstruct(x, y) \/ MoveAssign(x, y)
    BY <2>1
  <2> QED BY <2>2, LifetimeClean
<1>2. ASSUME NEW x \in Bufs, BufferFactories(x) \/ BufferOps(x), Fits(x), Releases(heap)
      PROVE  Clean' /\ ("grow" \notin Habits => residue' = residue)
  <2>1. Inv' /\ SP!Kept(x) /\ x \in Obj
    BY <1>2, BufferClean DEF Obj
  <2> QED BY <1>2, <2>1, KeptPurges, PurgesReleases
<1>3. ASSUME NEW x \in Strs, StringFactories(x) \/ StringOps(x), Fits(x), Releases(heap)
      PROVE  Clean' /\ ("grow" \notin Habits => residue' = residue)
  <2>1. Inv' /\ SP!Kept(x) /\ x \in Obj
    BY <1>3, StringClean DEF Obj
  <2> QED BY <1>3, <2>1, KeptPurges, PurgesReleases
<1> QED BY <1>1, <1>2, <1>3 DEF SecureNext

LEMMA SecureStart ==
  ASSUME SecureInit
  PROVE  Clean /\ residue = {}
<1>1. SP!Init /\ B!Init
  BY SameContainer DEF SecureInit
<1>2. SP!Inv(Strs)
  BY <1>1, Kinds, SP!InitInv
<1>3. \A x \in Obj : obj[x].data = Null
  BY <1>1 DEF SP!Init, SP!Empty
<1>4. Inv
  BY <1>2, <1>3 DEF Inv, SP!StrInv, SP!Ended
<1>5. SP!AllBlank
  BY <1>3 DEF SP!AllBlank, SP!Blank
<1> QED BY <1>4, <1>5 DEF Clean, SecureInit

LEMMA SecureStutters ==
  ASSUME Clean, UNCHANGED SecureVars
  PROVE  Clean' /\ residue' = residue
<1>1. heap' = heap /\ obj' = obj /\ alive' = alive /\ fault' = fault /\ residue' = residue
  BY DEF SecureVars
<1>2. SP!Inv(Strs)'
  BY <1>1, InvParts DEF Clean, SP!Inv, SP!GoodHeap, SP!Sound, SP!SoundAs, SP!Live
<1>3. SP!StrInv(Strs)'
  BY <1>1, <1>2, Kinds, SP!SameStr DEF Clean, Inv
<1>4. SP!AllBlank'
  BY <1>1 DEF Clean, SP!AllBlank, SP!Blank
<1> QED BY <1>1, <1>3, <1>4 DEF Clean, Inv

LEMMA CleanKeepsNone ==
  Clean => NoSecretKept
<1> SUFFICES ASSUME Clean, NEW x \in alive, obj[x].data # Null
             PROVE  Secrets(heap, obj[x].data, obj[x].size) = {}
  BY DEF NoSecretKept
<1>1. SP!Inv(Strs) /\ SP!AllBlank /\ x \in Obj
  BY InvParts DEF Clean, SP!Inv
<1>2. SP!Tidy(heap, obj[x]) /\ obj[x].size \in Nat /\ obj[x].data \in Block
  BY <1>1, Kinds, SP!ObjectTidy
<1>3. SP!Blank(heap, obj[x].data, obj[x].size)
  BY <1>2 DEF SP!Tidy
<1> QED BY <1>2, <1>3, NoSecrets

\* Whatever is moved, grown, cleared or refused, and in whatever order, past
\* its size() a wrapper's block holds nothing that was stored in it, as long as
\* nobody shrinks it by other means than clear(): resize and assign leave the
\* bytes they cut off where they are.
THEOREM AlwaysKeepsNone ==
  ASSUME "shrink" \notin Habits, "view_at_capacity" \in Excluded
  PROVE  SecureSpec => []NoSecretKept
<1>1. SecureInit => Clean
  BY SecureStart
<1>2. Clean /\ [SecureNext]_SecureVars => Clean'
  BY SecureStep, SecureStutters
<1> QED BY <1>1, <1>2, CleanKeepsNone, PTL DEF SecureSpec

\* "Secrets in freed heap blocks" never happens to callers who besides reserve
\* before they fill: growing frees the old block with the secret in it, the one
\* way a secret gets out.
THEOREM AlwaysFreesNone ==
  ASSUME "shrink" \notin Habits, "grow" \notin Habits, "view_at_capacity" \in Excluded
  PROVE  SecureSpec => []NoSecretFreed
<1>1. SecureInit => Clean /\ NoSecretFreed
  BY SecureStart DEF NoSecretFreed
<1>2. Clean /\ NoSecretFreed /\ [SecureNext]_SecureVars => Clean' /\ NoSecretFreed'
  BY SecureStep, SecureStutters DEF NoSecretFreed
<1> QED BY <1>1, <1>2, PTL DEF SecureSpec

\* Zeroing never goes past a block, and wrappers leak and share no block.
THEOREM SecureSound ==
  ASSUME "shrink" \notin Habits, "view_at_capacity" \in Excluded
  PROVE  SecureSpec => [](Sound /\ Owned)
<1>1. SecureInit => Clean
  BY SecureStart
<1>2. Clean /\ [SecureNext]_SecureVars => Clean'
  BY SecureStep, SecureStutters
<1>3. Clean => Sound /\ Owned
  BY InvSound, InvOwned DEF Clean
<1> QED BY <1>1, <1>2, <1>3, PTL DEF SecureSpec
=============================================================================
