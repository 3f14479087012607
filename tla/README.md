# A TLA+ development of onedge

onedge is a C++17 library of bounds-checked byte containers: a heap buffer, a
heap string, a fixed-size buffer, wrappers for secrets, views, a reader and a
writer, the checked arithmetic under them, and a C ABI over them. It is
sequential ("Not thread safe per instance", README.md:104 of the repository) and
keeps nothing on disk. What is hard to get right in it is memory: a source that
lies inside the container that is about to be reallocated, an allocation that
fails half-way, a size at the edge of `size_t` or of the allocation cap, and long
sequences of legal calls, moves included, after which a block is shared, leaked
or shorter than its owner believes. Those are what the modules here model.

Paths are relative to the repository's root.

## 1. Inventory

| Component | State | Operations | What makes it correct |
|---|---|---|---|
| `oe::buffer` (`src/buffer.cpp`, `include/onedge/buffer.h`) | `data_`, `size_`, `cap_`; one heap block | factories, moves, destructor, `at`, `set`, `reserve`, `resize`, `clear`, `secure_clear`, `append` x2, `write`, `read`, `fill`, `verify` | behaves as a byte sequence; sole owner of its block; never outside it; fields agree after every call; `data()` stable as documented |
| `oe::string` (`src/string.cpp`, `string.h`) | the same, in a block one byte longer, NUL after the last byte | factories (`from_cstr`, `substr` too), moves, `at`, `reserve`, `clear`, `secure_clear`, `append` x4, `assign`, `insert`, `replace`, `copy_to_cstr`, `verify` | the same, always terminated, `insert`/`replace` right for views of the string itself, no silent truncation |
| checked arithmetic (`checked_math.h`) | none | `checked_add/sub/mul/grow`, `safe_*`, `range_in_bounds`, `checked_cast` | mathematical result or `nullopt`, exactly |
| configuration (`onedge_config.h`) | none | allocation cap, `secure_zero`, `pointer_in_range`, `ONEDGE_CHECK` | guards never fire on a container only its own operations touched |
| `fixed_buffer<N>` | `storage_[N]`, `size_` | as `buffer`, without growth | byte sequence of at most N; `secure_clear` leaves no byte |
| `reader`, `writer` | view and cursor; pointer to a buffer and count | skips, views, integers in both byte orders | a short read leaves the cursor; what is written reads back; `written()` counts what is there, also when a field in the middle was refused |
| `span<T>` | pointer and length | `subspan`, `first`, `last`, `at`, `operator[]` | a slice never leaves its span |
| framed message example (`examples/parse_framed_message.cpp`) | none | `parse_framed_message` | accepts exactly the frames that are all there |
| `secure_buffer`, `secure_string` | one buffer or string | forwarders; zero on destroy, `clear`, move-assign | no freed block holds a secret |
| C API (`src/c_api.cpp`) | opaque handles | create, destroy, forwarders, `oe_string_append_cstr`'s scan, `out_copied` counts | null handles refused; a failed handle allocation frees the container; counts reported match what landed |
| `result<T>` | a flag, storage for a T, an error | `success`, `failure`, copies, moves, assignments, `value`, `value_or` | a T exactly when `ok()`; each T destroyed exactly once; also when T's constructors throw |
| errors (`error.h`, `src/error.cpp`) | none | code to text, abort | - |

How they interact: every container calls the checked arithmetic before it
allocates, and the C allocator for storage. `writer` appends to a buffer it points to; the
secure wrappers and the C handles own one; `reader` reads a `span`. A call may be
given memory that belongs to another container, or to the one it is called on.

Hard behaviours, in that order: aliasing across a reallocation that moves the
block; allocation failure in the middle of an operation; sizes at the boundary;
lifetime (moves and destruction in any order). `PROJECT.json` lists each under
`hazards` with its line.

## 2. Modules

| Module | Stands for |
|---|---|
| `CheckedMath` | the `size_t` functions of `checked_math.h` and `next_capacity`; machine operators wrap modulo `SIZE_MAX + 1` |
| `Arithmetic` | the same functions and `checked_cast`, each as a call and what it returns |
| `Memory` | the C heap: `malloc`, `realloc`, `free`, `memmove`, `memset` (external) |
| `Container` | what buffer and string share: fields, lifetime, arguments, the common properties |
| `Buffer` | `oe::buffer` |
| `OeString` | `oe::string` |
| `AbstractContainer`, `AbstractBuffer`, `AbstractString` | what the containers promise: sequences of bytes, error codes, nothing else |
| `MCBuffer`, `MCString` | values for TLC |
| `FixedBuffer`, `AbstractFixedBuffer`, `MCFixedBuffer` | `oe::fixed_buffer<N>`, its promise (a buffer with N for the allocation cap), values for TLC |
| `Mixed` | buffers and strings of one program on one heap: `Buffer` and `OeString` as instances over the same variables |
| `CApi`, `AbstractCApi`, `MCCApi` | the C functions over `Mixed`, what they promise, values for TLC |
| `Secure`, `MCSecure` | the secure wrappers over `Mixed`, values for TLC |
| `Wire`, `AbstractReader`, `MCWire` | `writer`, `span`, `reader` and the framed message example; what a reader promises; values for TLC |
| `Result`, `AbstractResult` | `result<T>`, its promise |
| `ContainerProofs` | the lemmas about heap, ownership and bytes that buffer and string share |
| `BufferProofs`, `StringProofs`, `FixedBufferProofs`, `WireProofs`, `ResultProofs`, `ArithmeticProofs` | the theorems about the module each is named after |
| `MixedProofs` | the theorems about `CApi` and `Secure`, the two specifications over `Mixed` |

### State and actions

`heap` maps every block to its length and cells; a cell nobody wrote is `Undef`,
and so is whatever is read outside a live block. `obj` holds the three fields of
each object, `alive` which objects are constructed, `fault` whether any access so
far left a live block. `call` and `ret` are history: the last call with its
arguments, and its error code and value. The abstract specifications speak of
them; no guard reads them.

There is one action per public operation, and the private helpers
(`reserve`, `grow_to_at_least`, `copy_in_possibly_aliased`, ...) are operators of
the same name. A helper takes the heap and the object and gives the set of its
outcomes (error code, heap, object, whether an access was out of bounds), because the
allocator has a choice: it may refuse any request, and `realloc` may grow in place or
move to any free block. Actions enumerate every argument: all of `size_t` as the
instance has it, all bytes, and every source a caller may pass, which is a null
pointer, a part of its own memory, a part of any live object (for a string up to
and including its terminator), or a length too large to be true, which the call
must refuse before it reads.

`BUFFER_AUDIT` and `STRING_AUDIT` abort the process on a corrupt object. They are
a guard of every audited action (`Audit`), so an object they would reject can
do nothing more; that this never happens is the invariant `Consistent`.

Not represented: addresses (two different blocks never overlap, so
`pointer_in_range` compares blocks and offsets), byte values beyond a small set,
error messages, the static `""` that `c_str()` returns for a string without
storage (it occurs as a zero-length source and in `FromCstr`). `malloc` is never
asked for zero bytes: every caller tests for it. A source longer than the memory
behind it, other than one refused unread, is the caller's error and is not passed.

`CApi` has one action per C function. A handle is the object it wraps; a null handle,
or a null place to store a new one, is `Null`, and every function is tried with it.
`new (std::nothrow)` of the wrapper is part of the action and may fail after the
container was built (`handle`), in which case the container is freed on the way out.
`copied` is what `*out_copied` holds after the call. Sources may lie in handles of the
other kind.

`Secure` forwards to the same operators as the plain containers and adds the zeroing
of the destructor, `clear` and move assignment (`wiped`). `residue` is history: the
non-zero bytes blocks held when they were freed, `realloc`'s old block included.
The constant `Habits` says what callers do. With `Habits = {}` they reserve enough
before they store and never cut what they hold, which is the discipline under which
the wrappers keep their promise; `"grow"` and `"shrink"` lift one half of it each.
`inner()` hands out the container itself and is not used. Its specification is called
`SecureSpec`, so that one module can speak of it and of that of `CApi`.

In `Wire` a byte is a digit of base `Base`, so that shifts and masks are the same
arithmetic with another base. The buffer is the one `AbstractBuffer` promises
(`Room` gives the codes an append may return), which `Buffer` is shown to implement.
A successful append may move the block, so a caller takes a new span after it.
`fields` and `start` are history: where each accepted write put what.

`Result` keeps for each object the flag, what is in the raw storage (`None`, a value, or
`Gone`, a T that was moved from) and the error. Every constructor of T may throw. `fault` records
that a T was used or destroyed that is not there, `lost` that storage was reused with
a T still in it, and `torn` which results were the target of an assignment that threw.
`result<void>` has no storage: it is the error code of the other modules.

### Abstract specifications

`AbstractBuffer` and `AbstractString` have one variable besides `alive`, `call` and
`ret`: `contents`, a sequence of bytes for each object. A call does to the sequence
what its name says, or returns a code its arguments justify and changes nothing. A source inside an object
means the bytes that object held when the call was made. The refinement mapping is
`Contents(x)`, the first `size_` cells of the block. `AbstractString` lets growth be refused
early once the result is past half the allocation cap; disagreement 6 below is about
that allowance. `AbstractCApi` joins the two for handles and adds null handles and the
failing wrapper. `AbstractReader` is a span as a sequence of bytes and a reader as the rest of it: a read takes
bytes off the front or nothing. `AbstractResult` is a variable that holds a value or an error;
a constructor that throws has done nothing.

## 3. Runs

All sizes are scaled down: the cap on an allocation and `SIZE_MAX` are small enough that
every argument is tried, and `SIZE_MAX` exceeds the cap so that sums that wrap,
sums that merely exceed the cap and sums that fit all happen. Where containers grow, `kMinGrowth = 1`
makes doubling and falling back to the exact need both happen below the cap.
Two blocks besides the caller's suffice for one object (the block it has and the
one it moves to), three for two.

| Run | Instance | Checks |
|---|---|---|
| `arithmetic` | size_t 0..11, cap 7, `kMinGrowth = 2`, integer types of 2, 3, 4 bits | `SizesExact`, `CastsExact` |
| `buffer` | two buffers, cap 3, size_t 0..5 | `TypeOK`, `Consistent`, `Initialised`, `NoFault`, `Ownership`, `Implements`, `DataStable` |
| `string_one` | one string, cap 6 (five bytes and the NUL), size_t 0..7, caller's text with a NUL | `TypeOK`, `Consistent`, `Initialised`, `NoFault`, `Implements` |
| `string_two` | two strings, cap 3, size_t 0..4, caller's text without a NUL | `Consistent`, `Ownership`, `NoFault`, `Implements` |
| `fixed_buffer` | two fixed buffers, N = 3, size_t 0..5 | `TypeOK`, `NoResidue`, `Implements` |
| `c_api` | a buffer handle and a string handle, cap 3, size_t 0..4, caller's text without a NUL | `Sound`, `Owned`, `CountsMatch`, `Implements` |
| `secure` | a secure buffer and two secure strings, cap 3, size_t 0..4, `Habits = {}` | `NoSecretFreed`, `NoSecretKept` |
| `wire` | base 2, cap 8, size_t 0..11, messages of up to three fields (`MaxFields`) after nothing or one byte | `WritesWhole`, `FramesParse`, `RoundTrip`, `Implements` |
| `result` | three results, two values, two errors | `EitherOr`, `NoneLost`, `Implements` |
| `string_inner`, `string_bare` | as `string_one`, with one kind of call allowed that `string_one` leaves out | one property each, violated (findings 1, 2) |
| `secure_grow` | two secure buffers and a secure string, `Habits = {"grow"}` | `NoSecretFreed`, violated (finding 3) |

Two buffers or strings need three blocks: the one each has and the one a third allocation
moves to. Cap 3 is the least at which doubling (to 4) exceeds the cap while the need (3)
fits; 5 is then the least `SIZE_MAX` at which doubling does not wrap first. The same buffer
instance with cap 4 and size_t 0..6 (20503 states) takes too long to be kept and
showed no error. Strings get a run of their own with five bytes, because a view that straddles the edge of
the replaced range, with a tail behind it and growth in front, needs as many.
`c_api` has no NUL in the caller's text, so that the scan meets the cap; a terminator comes from the string itself.
In `wire`, cap 8 admits one 64-bit field, two 32-bit ones or a frame with payload,
and the values written (`MCValues`) have one digit set, which distinguishes any two places.
Without `MaxFields` the instance has 342767 states and showed no error either. Three results are the
longest chain in which a copy's source was itself copied into.

The instances have few distinct states (hundreds to thousands) and very many
transitions (up to 1.3 million), since each state tries every call with every
argument. The cfgs identify states that differ only in `call` and `ret` (`VIEW`): no action and no
property reads their unprimed values, and TLC checks action properties on every
transition, also on those into states already seen. Heap blocks, and in `MCBuffer` and `MCSecure` objects of one kind, are declared
interchangeable (`SYMMETRY`), which is sound for safety properties, as all of these are.
`Result` is small enough without either.

There is no fairness and no liveness property: the library is called, it does
not run. Every call is one atomic step because an instance is not meant to be
shared between threads, and no call waits for anything. There is always a call to make,
so deadlock is checked.

### What the runs show

Buffers hold up entirely: within the bounds, and without any call excluded, a buffer is the
abstract byte sequence, also when it is appended to itself while `realloc` moves it or
fails, and `data()` survives every call that does not need more than the
capacity there was. Strings do, but for four kinds of calls, the constant
`Excluded`, which the passing runs do not make.

Fixed buffers implement `AbstractBuffer` with N for the allocation cap, which is what
"Same checks as oe::buffer, no heap, fixed N." (fixed_buffer.h:15) comes to. `high`
is a history variable, the largest size since creation or `secure_clear`; `NoResidue`
says that everything from there on is zero. `buffer::secure_clear`, which zeroes only
the bytes in use, would violate it, and is the mutant that `NoResidue` is tested with.

Behind the C functions both containers keep behaving as their abstract selves, no
block is leaked when the wrapper cannot be allocated, and the counts are those of
the bytes that landed, in truncated copies and refused calls too. Appending a string's own
`c_str()` is among the calls made.

The secure wrappers leave nothing in a freed block if their callers reserve first and do not
cut; what a move drops and what a failed factory drops is zeroed.

What the writer accepted is whole in the buffer and comes back from the reader,
whatever was refused in between; the reader's cursor never leaves its span, which
is what makes the unsigned `remaining()` right; and the example's parser accepts a frame exactly when
all of it is there, also for lengths at which header plus length wraps.

A result always holds either a T or an error, except one whose assignment threw.

### Findings

1. `replace` by a view of the string that begins inside the replaced range, of
   another length than the range, gives wrong bytes: the tail has been moved over
   them (`string_inner`, string.cpp:283).
2. `replace(0, 0, "")` on a string without storage stores through a null pointer
   (`string_bare`, string.cpp:299).
3. A secure wrapper that grows past its capacity leaves the secret in the block
   that `realloc` frees (`secure_grow`, buffer.cpp:114).

The models show further disagreements with what the comments say. Each is a
small change of a configuration away:

4. The alias test looks at `cap_` bytes, the block has `cap_ + 1`: a view of the
   terminator of a full string is read after the block was freed (string.cpp:164,
   223, 268). Take `"view_at_capacity"` out of `Excluded`; `NoFault` fails.
5. `insert` or `replace` by a view that includes the terminator and begins in the part that
   moves copies an unwritten byte: the terminator stays behind (string.cpp:237, 280).
   Take `"shifted_terminator"` out of `Excluded`; `Initialised` fails.
6. Doubling to exactly the cap leaves no room for the terminator, so an append
   that would fit is refused with `capacity_exceeded` (string.cpp:19, 123). Check
   `RefusesOnlyTooLong` in `MCString_one.cfg`. With a cap of twice `kMinGrowth` even the first byte of
   a string is refused.
7. `checked_cast` from a signed type to a wider signed type refuses every value
   (checked_math.h:79). Check `AllCastsExact` in `Arithmetic.cfg`.
8. A secure buffer that is cut by `resize`, or a secure string by a shorter
   `assign`, frees what was past the new size as it is (secure_buffer.h:60). Set
   `Habits = {"shrink"}`; `NoSecretKept` fails, then `NoSecretFreed`.
9. A `result` in whose assignment T's constructor throws claims a value it does
   not have, and its destructor destroys it (result.h:68). `EitherOr` without
   `torn` fails.

4 and 5 need a view that includes the NUL, such as `{s.c_str() + i, n}` with
`i + n = size() + 1`; `view()` never gives one.

What the passing runs leave out because of a finding or disagreement is the calls in `Excluded` (1, 2, 4, 5)
and `Habits` (3, 8), the refusals `AbstractString` allows (6), the casts `Widening` (7) and the results in
`torn` (9). No passing property covers the hazards behind 4, 5 and 8, so `PROJECT.json` lists none for them.

## 4. Proofs

A theorem holds for every value of the constants: any number of objects, blocks and fields, any
set of byte values, any cap, any `SIZE_MAX`, any growth constant. "Property" is the formula the runs check.

| Module | Theorem | Property |
|---|---|---|
| `ArithmeticProofs` | `AlwaysExact`, `AlwaysCastsExact` | `SizesExact`, `CastsExact` |
| `BufferProofs` | `TypeCorrect`, `AlwaysConsistent`, `AlwaysOwned`, `AlwaysInitialised`, `NeverFaults` | `TypeOK`, `Consistent`, `Ownership`, `Initialised`, `NoFault` |
| | `BufferRefines` | `Implements`: a buffer is the byte sequence of `AbstractBuffer` |
| | `DataStays` | `DataStable` (an action property) |
| `StringProofs` | `TypeCorrect`, `AlwaysConsistent`, `AlwaysOwned`, `AlwaysInitialised`, `NeverFaults` | as for buffers; `Consistent` includes the terminator |
| | `StringRefines` | `Implements`: a string is the byte sequence of `AbstractString` |
| `FixedBufferProofs` | `TypeCorrect`, `NoResidueEver` | `TypeOK`, `NoResidue` |
| | `FixedRefines` | `Implements`: a fixed buffer is a buffer whose cap is N |
| `WireProofs` | `AlwaysWhole`, `AlwaysFramesParse` | `WritesWhole`, `FramesParse` |
| | `AlwaysRoundTrip` | `RoundTrip` (an action property) |
| | `WireRefines` | `Implements`: span and reader are the sequences of `AbstractReader` |
| `ResultProofs` | `AlwaysEitherOr`, `NeverLost` | `EitherOr`, `NoneLost` |
| | `ResultRefines` | `Implements`: a result is the variable of `AbstractResult` until an assignment throws |
| `MixedProofs` | `AlwaysSound`, `AlwaysOwned`, `AlwaysCounts` | `Sound`, `Owned`, `CountsMatch` (an action property) of the C functions |
| | `CApiRefines` | `Implements`: handles of both kinds are the sequences of `AbstractCApi` |
| | `AlwaysKeepsNone`, `AlwaysFreesNone` | `NoSecretKept`, `NoSecretFreed` of the secure wrappers |
| | `SecureSound` | `Sound` and `Owned` hold of the secure wrappers too |

Assumptions are those of the modules, which TLC evaluates in every run:
`1 <= kMinGrowth <= MAX_ALLOC_BYTES <= SIZE_MAX` (`SizeAssumption`); names of blocks, objects and
special values distinct (`MemoryAssumption`, `ContainerAssumption`, `MixedAssumption`, `ResultAssumption`); the slack of a
buffer is 0 and of a string 1 (`BufferAssumption`, `StringAssumption`); the bytes a writer finds are
bytes and no more than a buffer can hold (`WireAssumption`); integers written fit their width (`ValuesAssumption`).
`PowersAssumption`, in `Arithmetic` and `Wire`, spells out what `2 ^ n` and `Base ^ n` are for the exponents that occur. It is no
restriction: the provers take `^` for an unknown function, and this is the arithmetic they need of it. The theorems about strings have one more hypothesis,
`Careful`: callers do not make three of the four excluded kinds of calls. Without it they are false (finding 2,
disagreements 4 and 5). The fourth kind gives wrong bytes but a sound string, and is allowed.

`StringRefines` has two hypotheses of its own. `Cautious` is `Careful` with the fourth kind of call excluded too
(finding 1). `SensibleLimits` says that the cap is not `2 * kMinGrowth`, for which the theorem is false
(disagreement 6; `AbstractString` lets growth give up only past half the cap), and that `SIZE_MAX` is odd or more than the cap,
as every `2^w - 1` is. The default build, a cap of 2^30 and a growth constant of 16, satisfies it, and so do
`string_one` and `string_two`, which exclude all four kinds.

The theorems about the C functions and the wrappers assume that views of a full string's terminator are not passed
(`"view_at_capacity" \in Excluded`; disagreement 4 is why). The other kinds of excluded calls are `insert` and `replace`,
which neither of the two has. `CApiRefines` needs `SensibleLimits` as well. Those about the wrappers say what callers do:
`"shrink" \notin Habits`, without which `NoSecretKept` is false (disagreement 8), and for `NoSecretFreed` also
`"grow" \notin Habits`, without which it is (finding 3). `NoSecretKept` is proved with growth allowed.

**Buffers and strings on one heap.** A block of a string has a byte more than its owner's capacity, that of a buffer has
not. The invariant of `ContainerProofs` therefore takes the set K of objects that are strings: `Inv({})` in a program
of buffers, `Inv(Obj)` in one of strings, `Inv(Strs)` where both are. Lemmas about helpers and actions are about one object of either kind and say that all others are left
alone (`Frame`), so that a step of a buffer keeps the terminators of strings and the reverse. `MixedProofs` takes
`BufferProofs` and `StringProofs` as instances over the same variables (`BP`, `SP`), and its lemmas `Same...` say that
operators of `Mixed`'s own instances, the ones the C functions call, are those that the proofs are about.

**C functions.** The inductive invariant is `SP!StrInv(Strs)`: the containers' invariant with the strings' terminators.
`Good` is what each C call is shown to be: a step that keeps it and is one step of `AbstractCApi`. A handle that cannot be
allocated leaves no trace (`DroppedStep`): the container the factory built is freed, so that heap and objects are as before but for a block that
came and went. `ScanFinds` is about `oe_string_append_cstr`, whose scan stops at the cap or at the first NUL, of the string itself too.
`AlwaysCounts` needs the invariant because a truncated copy's count is computed from `size` after the bytes have been
copied.

**Secure wrappers.** Neither property is inductive. A block can only be handed over clean if it was clean past its owner's size,
also while nobody asks; so the invariant `Clean` adds to the one above that every block is zero or unwritten past
its object's size (`Blank`), in a string but for the terminator, which is zero as well. A helper that does not cut keeps this (`Keeps`): `realloc` carries the blank part over and what it adds nobody wrote.
Zeroing the first `size()` bytes of such a block leaves no secret in it (`WipedTrims`), hence what a destructor or a move assignment frees is
clean, and so is the block of a refused factory. With growth the old block of `realloc` is freed as it was, which is why `AlwaysFreesNone` needs callers that reserve.

**Containers.** None of the five invariants is inductive by itself. That no access leaves a block
needs the block's true length to be the recorded capacity; that this survives a
step of another object needs blocks not to be shared; and that nothing below `size_` is
unwritten needs the source of a copy to be readable memory, which is again a matter
of ownership. `Inv` (in `ContainerProofs`) conjoins them: a well-formed heap (`GoodHeap`), each object
`Sound` with respect to its block, dead objects empty, no two owners, no orphans.

The argument is by frames. `Local(h, b, o)` says what an operation owes to the
rest of the program: it leaves its object sound, changes no block but its own or
a free one, and abandons none. Each helper is shown `Local` once
(`ReallocLocal`, `MemsetLocal`, `MemmoveLocal` and, per container, `reserve`, growth, the
aliased copy, the factories); `AnswerInv` turns any
`Local` outcome into a step that preserves `Inv`; the actions then follow in
groups, and moves and destruction on their own (`MoveInv`, `FreeLocal`). The
lemmas `CheckedAddExact`, `CheckedMulExact` and `NextCapacityBounds` say that the
arithmetic does not wrap and that growth stays between the need and the cap. The aliased copy is where the
argument is delicate: the cells it reads after the growth are those that were
written before it.

**The buffer's refinement** adds to each helper what it does to the bytes
(`Leaves(b, q, codes, o)`: the outcome holds the sequence `q`, or carries one of `codes` and changed nothing).
`ConcatCells` and `SourceCells` relate cells of blocks to elements of
sequences; a source inside the object that grows is read where `realloc` put it, and there are the bytes it had when the call was made.
Since frames leave the blocks of other objects alone, what they hold does not change either, so that each action
is one abstract step. `DataStays` comes from the same lemmas: growth that
does not exceed the capacity returns heap and object as they were.

**Strings.** `StrInv` is `Inv` with the terminators (`Ended`). A
terminator is written after every change of `size_`, and the cell for it
exists because the block is one byte longer than the capacity; every helper is shown `Done`, that is
`Local` and terminated. `SpliceDone` follows `insert` and `replace` through
growth, the moved tail and the moved source.

**The string's refinement** follows the buffer's. Its own parts are the text of a source, which may reach
the terminator (`TextCells`); the codes, since a string needs a byte more than its length and growth may give up early
(`ReserveCodes`, `GrowCodes`); the scan of `from_cstr`, which finds the first NUL (`FirstNul`); and `splice`.
There `SpliceLeaves` shows the result to be what was before the range, the source, and what was behind the range. The source is read where
`splice` looks for it after the tail has moved: outside the string, before the tail, or in the
tail and moved with it. A view that begins inside the range, ahead of a tail that moves, is the one that is overwritten (`Inner`), and what
`Cautious` leaves out.

**Fixed buffers.** `NoResidue` speaks of live objects only, and is not inductive: storage of a dead object is where the next one is
constructed, and bytes between size and history are copied with the object. `Inv` says of every object that size stays
below the history and that everything from the history on is zero. For the refinement, `Bytes(st, n)` is the sequence
the first n slots make, and `OverwriteBytes`, `FillBytes`, `ResizeBytes`, `ConcatIs` say what each store does to it.

**Writer, span and reader.** `Inv` adds to `WritesWhole` that buffer, span and cursor nest
(`Bounds`), so that `remaining()` does not wrap, and that accepted fields end within the buffer, so that a new one overlaps none. A span is a cut of
the buffer and the rest of a reader a cut of the span; `CutCut` makes slices of
slices, and reads after reads, cuts of the buffer again.

For `RoundTrip` and `FramesParse` the invariant becomes `Coded`: every accepted integer is in the buffer as its digits, in its
byte order (`Encoded`). `WriteCodes` shows that a write puts them there and later ones leave them, `Before` that a reader which has reached the field has these digits
before it. That they make up the number is the work of `Digits` and `DigitsSum`, by `DivTwice` (shifting twice is
shifting by the sum), and for the loop of `read_u64_be` of `RoundsAre`. The values written are the constant `Values`, so the theorems are about
all integers, not only those with one digit set that the run has.

**Results.** `EitherOr` is not inductive: it says nothing of a torn result, in which a T left
behind would be lost by the next assignment. `Inv` adds that no live result, torn or not, holds a
T it does not own up to, and that a missing T is missing only in a torn result; so the
first fault has a torn result behind it. The refinement also needs that a live result without a T has a proper error
(`Settled`): `value_or` would otherwise mistake the error of `result()` for a value.

**Arithmetic.** Each guard (`a > SIZE_MAX - b`, `a > SIZE_MAX / b`) refuses exactly what would wrap; `NextCapacityExact` says that
growth doubles whenever the double is a size that covers the need and passes the cap. A cast compares with a
limit of the destination that was itself converted to the source's type: `CastIn` says that nothing happens to it if it fits, `CastWide` that the limit of a
wider type becomes the largest value of the unsigned source, so that no value is refused. Of a wider signed type it becomes -1, which is disagreement 7 and the case `CastsExact` leaves out.

Every property of a passing run is a theorem. `RefusesOnlyTooLong` and `AllCastsExact`, which the code does not keep, are stated for
the disagreements and are in no run. Only model-checked is what the violation runs show. There is no liveness to prove.

## 5. Not modelled

`PROJECT.json` gives each component's status. What is left out:

- error texts, `oe_error_message` included: a table without state, of which only the
  codes appear here;
- platform and attribute macros, and the build with `ONEDGE_DISABLE_INVARIANT_CHECKS`:
  since `Consistent` and `Sound` hold, the guards make no difference to the calls the
  passing runs make;
- `inner()` of the secure wrappers, which gives the container away, and `value()` of a
  result that is not ok, which the header declares undefined;
- tests and the other examples, which hold no logic of their own;
- threads: the library says an instance is not to be shared, and has no code for it.

## 6. Plan

Every component with state is modelled and checked, and what the passing runs check is proved. What could be added:

1. the build with `ONEDGE_DISABLE_INVARIANT_CHECKS`, as a constant of `Container` that drops `Audit`;
2. a model of `parse_framed_message` that runs as a reader's caller, between other calls, in place of a function of the buffer.
