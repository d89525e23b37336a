# TLA+ models of toylibc

toylibc is a small C library for x86-64 Linux without libc: system call wrappers in inline
assembly, a heap, the string functions, printf and puts, with two programs of some size built on
them: a shell, `toysh`, and `posix-demo`.
The library is single-threaded and keeps hardly any state; what can go wrong is the layout of
the heap after a long sequence of calls, arithmetic at the edges, answers of the kernel that
nobody looks at, loops that work in place, and the processes of the shell.

## 1. Inventory

| Part | State | Operations | What makes it correct |
|---|---|---|---|
| brk heap, `src/heap.c` | boundary tags in memory, `heap_lo`, `heap_hi`, `heap_ok`, the kernel's break | `heap_init`, `brk_alloc`, `brk_grow`, `brk_release`, `merge` | blocks tile the heap; header, footer and PREV_FREE agree; live blocks are disjoint and stay as they are; first fit; malloc returns |
| malloc API, `src/heap.c` | the header of every block, the kernel's mappings | `malloc`, `free`, `calloc`, `realloc` | no mapping leaks or dangles, and no brk block until the tags of the heap are damaged; room for the request; contents survive; sizes do not overflow |
| strings, `src/string.c` | the caller's memory | `memcpy`, `memmove`, `memset`, `memcmp`, `strlen`, `strcmp`, `strcpy` | results and written bytes as C defines them, for overlaps and edge lengths |
| stdio, `src/stdio.c` | `printf_ctx_t` on the stack of the call | `printf`, `puts`, `printf_flush`, `printf_putc`, `utoa`, `itoa`, `xtoa`, `str_reverse` | output complete and in order, return values, numerals; short and failed writes |
| toysh, line, `examples/shell.c` | `input`, `argv`, two pointers | the read loop of `main`, `parse_line` | splitting in place; bounds of both arrays; one line, one command |
| toysh, commands, `examples/shell.c` | processes, working directories | `run_command`, `try_exec`, `builtin_*` | one reader of the input, no zombies, search order, the prompt comes back |
| system calls, `src/syscall.c`, `proc.c`, `pipe.c`, `signal.c`, `fs.c`, `time.c` | registers, the kernel's children and dispositions | 26 wrappers | each argument reaches the kernel in its register |
| posix-demo, `examples/posix-demo.c` | the position of two processes, their descriptors, the file | `main` | lines stay whole, the file holds the greeting only, everything opened is closed |
| `src/start.S`, header, tests, small examples, docs | none | | |

Interaction: `malloc` calls `brk` and `mmap`, `realloc` and `calloc` call `memcpy` and `memset`;
`printf` and `puts` call `write` and `strlen`; the shell calls `read`, `write`, `fork`,
`execve`, `waitpid`, `chdir`, `getcwd` and the string functions; the demo and its child share
standard output. There are no threads, callbacks or messages. Interleaving exists between a program,
its child and the kernel (signals may end either at any moment), failure in every system call,
and a client may call the heap in any order.

## 2. Modules

| Module | Models | State and actions in the code |
|---|---|---|
| `Heap` | the brk tier | `mem` is memory below LIMIT word by word, a word being a tag; `heap_lo`, `heap_hi`, `heap_ok` are the globals. One step per iteration of the search loop of `brk_alloc` (`WalkOn`); the branches that return are `AllocSplit`, `AllocWhole`, `AllocGrow`, `AllocFail`. The tag writes of `merge`, `brk_release`, `brk_grow` and the two branches of `brk_alloc` are operators on `mem` (`Merge`, `Release`, `Grown`, `Split`, `TakeWhole`). |
| `Allocator` | what malloc and free promise | `slot` only: disjoint fresh extents |
| `Malloc` | the public functions over both tiers | `hdr` is the size in each header, `mapping` the kernel's view of each mapping, `slot` the client's pointers. The brk tier answers with any free site and a block of a size in `BrkTotals` as long as its tags are sound (`intact`). A free or a growth may damage them; from then on it answers with any of its addresses, one that is in use included, and any size may be read from a header. `Tier` is what shows that `Heap` behaves in this way. |
| `Tier` | how the two fit together | no state of its own: `Malloc` with its mappings left out, over the variables of `Heap` (a refinement mapping) |
| `Strings` | `string.c` | one call at a time, one step per byte; the C precondition of a call is the guard of its action |
| `Stdio` | `stdio.c` | the buffer of `printf_ctx_t`, the digit buffer, one step per character; a format is a number of directives, chosen as printf reaches them |
| `Stream` | what printf and puts promise of standard output | the text of a call, how much of it has been offered to `write` and how much was taken |
| `Line` | read loop and `parse_line` | one step per character; `in` and `o` are the pointers `input` and `out` |
| `Shell` | `run_command`, `try_exec`, built-ins | one record per process; a fork copies it. A directory and a command name are values; every path fits `fullpath` |
| `Syscall` | every wrapper, and what wait4 and rt_sigaction do with what they find | a wrapper is its number, constraint letters and operands; `place` is the compiler's choice for the operands with `"r"`, made once |
| `Demo` | `main` of the demo program | `Main` is the list of its statements, `pc` the one each process is at; `puts` is two steps because it is two writes |
| `HeapProofs` (over `Tier`), `MallocProofs`, `StringsProofs`, `StdioProofs`, `LineProofs`, `ShellProofs`, `SyscallProofs`, `DemoProofs` | theorems | one step per action under each invariant; section 4 |
| `MC*` | instances for TLC | values and symmetry sets |

Definitions whose comment begins with "Slip" (their names begin with Bad, Best or Endless) are
mistakes somebody could make in the code. No action uses them. Each is put in the place of the
definition it varies to see that a property notices it.

### Faults of the heap

Four lines of `heap.c` damage the tags in legal use (section 5). `Heap` performs those steps as the
code does and records them in the history variable `faults`, which no step of the code reads:

| Fault | Where | When |
|---|---|---|
| `swallow` | line 332 | the block behind a freed one is allocated: its ALLOCATED bit is cleared and `merge` takes it in |
| `false_prev` | line 353 | the flag says "the block before is free" and it is not |
| `clobber` | lines 264, 385 | the block behind a remainder, or behind a merged block, is allocated: its bit is cleared |
| `inner` | line 224 | `brk_grow` returns an address inside the block it has just merged |

`IntactSpec` is a client that stops at the first of them. The main invariant of the module,
`DamagedExactlyByFaults`, says that the list of blocks is well formed *if and only if* none has
happened: the four are all there are, and each is harmful. `Spec` goes on past them.

`DamageBegins` says the same in what a caller can know, for the first fault: `free` is harmless if and
only if it frees the topmost block and that is not the remainder of a split (whose header has
PREV_FREE; a block without the flag starts a page), and growing the heap is harmless if and only if
no block is free. Nothing else damages a sound heap. So the first fault is never a `clobber`, a program
that never frees is safe (`NeverFreesSafe`), and freeing in stack order is not enough to be.

## 3. Runs

| Run | Question | Bounds |
|---|---|---|
| `heap_intact` | Are the four faults the only ways to damage the heap, is it up to there a correct allocator, and is it, up to there and through the first damage, what `Malloc` takes its brk tier for? | 3 variables, requests of 1, 9 and 12 words, pages of 12 words, 3 pages. Requests that split, that fit exactly, that leave too small a remainder and that need more than a page; the client stores a word that reads like a tag. |
| `heap_any` | What is left after a fault: does malloc return, with the first block that fits, inside the heap, and as `Malloc` says of a damaged heap? | 2 variables, 2 pages of 8 words. The client stores zeros: with arbitrary contents a damaged heap may do anything. Here several blocks are free at a time, which before a fault is never so (`FreeAtTop`); a best-fit search violates `FirstFit`. |
| `heap_merge` | a claim of a comment: ends in the first state that refutes it | 3 variables, pages of 10 words |
| `malloc_api` | Do mappings stay with their owners whatever is freed in whatever order, and blocks of the brk heap until its tags are damaged? | 2 variables, 3 sites per tier (one more than variables: the old and the new block of a realloc are live together), `WORD` = 64 half words, limit 16, pages of 8; sizes on both sides of the limit and calloc products that wrap |
| `malloc_refused` | a claim of a comment | as above, fewer sizes |
| `strings` | Do all functions meet their definition? | every memory of 5 bytes over 0, 1 and 200 (both signs of a char), every legal pair of ranges |
| `stdio` | Is output complete, in order, counted and readable, and does the call return? | a buffer of 5, formats of up to 3 directives, 8-bit integers with both ends of their range, strings of 0, 3 and 6 characters, every outcome of every write |
| `line` | Is a line split as it should be, in place? | a buffer of 7, 3 entries in argv, two letters: every line of up to 6 characters, with more arguments than fit and quotes left open, one line after the other in the same buffer |
| `shell` | Who runs, who waits, who reads, and what runs? | 3 processes (one more than ever live at once), the search path of the code, every set of directories that have the command |
| `syscalls` | Which arguments arrive, in every build? | every placement of the six `"r"` operands in the registers the call reads, one in each, or outside of them, any number; 0, 8 (a right `sigsetsize`) and 9 (an object of the program) as what earlier code may have left |
| `syscall_r10` | a claim of a comment | as above, without the 8 |
| `demo` | What do two processes do to one output, one file and one set of descriptors? | five descriptors, every subset of them open at the start, every call failing or not, either process killed at any moment |

The bounds scale the code's constants down and keep their relations: a page holds at least one
smallest block, the mmap limit is more than a page, the buffer is shorter than one directive.
TLC explores each instance completely. Deadlock is not checked where the client may simply be
out of moves (all variables full, the kernel refusing, a program ended) and in `line` after EOF;
it is checked for `strings` and `stdio`.

Two of the properties compare the code with something stated independently of it: `SplitRight`
with a split defined by counting quotes, starts and the characters kept, `NumbersReadBack` with the value of a numeral. Three are
refinements, each an abstract specification under a mapping, checked as a property of the detailed
one:

| Refinement | Detailed | Abstract | What it says |
|---|---|---|---|
| `Heap!KeepsPromise` | `Heap`, up to the first fault | `Allocator` | malloc grants an extent disjoint from the others or NULL, free drops it, nothing else changes a client's pointers |
| `Tier!AnswersAsTier` | `Heap`: any client up to and with the first fault (`heap_intact`), one that stores zeros past it (`heap_any`) | `Malloc` without mappings | what `Malloc` assumes of its brk tier: block sizes, the NULL answer, the headers of other blocks left alone, which steps may damage the tags, and that a damaged heap still answers with addresses of its own. It joins the two halves of the heap's model |
| `Stdio!KeepsPromise` | `Stdio` | `Stream` | each byte of the text is offered once and in order, none is left when the call returns, and the call returns (`[]<>~running`) although every write may fail |

### Fairness

Weak fairness stands for "the code that has been entered keeps running", which holds for a process
the kernel schedules: `AllocStep` in `Heap`, the steps inside a call in `Stdio`, and in `Shell` the
steps of each process that is still in the shell's program. Nothing is assumed of a user (who may
never type), of the program a child has become (which may never end; `PromptsAgain` says so) or of
the kernel's answers. `Malloc`, `Strings`, `Line`, `Syscall` and `Demo` state no fairness: their
properties are about what may be reached.

## 4. Theorems

All are checked by TLAPS for every value of the constants that satisfies the module's named
assumption, plus the assumption named here where there is one. TLC has checked each property before,
on the instances above.

| Module | Theorems | States for all constants | Further assumption |
|---|---|---|---|
| `HeapProofs` | `TypeCorrect`, `NoOverlap`, `Backed`, `SoundUntilFault`, `PayloadKept` | `TypeOK`, `LiveDisjoint`, `HeapBacked`, `PayloadUntouched` up to the first fault | |
| | `HeapKeepsPromise` | the refinement `KeepsPromise` of `Allocator` | |
| | `DamageIsKnown` | `DamageBegins`, for the unrestricted client | |
| | `FreeAtTop` | until the first fault only the last block of the heap is free | |
| | `FaultsAreExact` | `DamagedExactlyByFaults` | |
| | `NeverFreesSafe` | a client that never calls free meets no fault | |
| | `AnswersTheApi` | the refinement `AnswersAsTier` of `Malloc`, up to and with the first fault | `ApiConstants` |
| | `AnswersWhenDamaged` | the same past any number of faults | `ApiConstants`, `PlainClient` |
| | `TakesFirstFit` | `FirstFit`, with any number of free blocks, past any number of faults | `PlainClient` |
| | `TypedWhenDamaged`, `NeverLeavesHeap` | `TypeOK` and `StaysInHeap` past any number of faults | `PlainClient` |
| | `SearchAdvances` | each round of the search of `brk_alloc` gets closer to `heap_hi`, past any number of faults too: the safety half of `MallocReturns` | `PlainClient` |
| `MallocProofs` | `MallocTyped`, `NothingLeaks`, `EnoughRoom`, `CopiesInBounds`, `LosesAWordAtMost` | `TypeOK`, `Owned`, `RoomForRequest`, `CopyInBounds`, `ReallocLosesAWordAtMost` | `NoWrap` |
| `StringsProofs` | `StringsTyped`, `WritesCorrectly`, `AnswersCorrectly` | `TypeOK`, `Written`, `Answered` | |
| `StdioProofs` | `StdioTyped`, `CompleteAlways`, `ReturnsWrittenAlways`, `NumbersBack` | `TypeOK`, `CompleteUnlessShort`, `ReturnsWritten`, `NumbersReadBack` | |
| | `StreamSteps` | initial state and steps of the refinement `KeepsPromise` of `Stream` | |
| | `CallEnds` | each step of a call decreases a measure of natural numbers: the other part of `KeepsPromise`, but for fairness | |
| `LineProofs` | `IndicesInBounds`, `NothingReadIsLost`, `SplitsRight` | `TypeOK`, `UnreadIntact`, `SplitRight` | |
| `ShellProofs` | `ShellTyped`, `OneReaderAlways`, `NoZombieAlways`, `SearchRightAlways` | `TypeOK`, `OneReader`, `NoZombieAtPrompt`, `SearchRight` | |
| | `NeverWaitsInVain` | a shell inside `waitpid` has a child, its own and not yet waited for, that has ended, runs a program or is on its way through `try_exec`: the safety half of `PromptsAgain` | |
| `SyscallProofs` | `SyscallTyped`, `DeliveredAlways` | `TypeOK`, `Delivered` | |
| `DemoProofs` | `DemoTyped`, `FileHoldsGreeting`, `ReturnsClosed`, `LinesStayWhole` | `TypeOK`, `HelloOnly`, `ClosedAtEnd`, `LinesWhole` | |

The further assumptions:

* `NoWrap` (`Malloc`): no size, and no product calloc accepts, is within a page and a header of the end
  of unsigned long. Without it the theorems are false: a request just below the end of unsigned long
  gets a mapping that is smaller than the limit, and `free` hands it to `brk_release`.
* `PlainClient` (`Heap` past a fault): the client stores no word that reads as a tag with a size, as in
  the run `heap_any`. A damaged heap takes the client's bytes for tags, so that without it nothing
  at all can be said.
* `ApiConstants` (`Tier`): the values that stand for NULL and -errno are no addresses and not equal.

### The arguments

**`HeapProofs`.** `TypeOK`, `LiveDisjoint` and `HeapBacked` are not inductive: that two payloads are
disjoint follows from the tiling of the heap, which the tags encode. The invariant `IInv` adds
`HeapBase` (alignment of the heap's ends and `HeapBacked`), `CallOK` (the locals of a running
malloc) and `Intact`: *there is* a set S of block addresses that tiles the heap, whose tags and
ledger agree, and that contains the address the search has reached. S is a witness and not the
computed `Walk`, so that the proof needs no recursion. The key lemma is `FreeBlockIsLast`: as
long as no fault has happened, the only free block is the last one of the heap, so that every change
of tags is a change of the tail (`TailChange`). `SoundUntilFault` carries the same invariant to
the unrestricted client: `Spec => [](faults = {} => IInv)`. `HeapKeepsPromise` and
`PayloadKept` follow the words each step writes: none is in the payload of a block the client keeps.

For `DamageBegins` the invariant also knows pages: the heap is a whole number of them, and a block whose header
has no PREV_FREE starts one (`PagesMarked`), since blocks are made by growth, by a split (which sets
the flag) and by a merge (which keeps that of the first block).

The second half of the module has the properties that speak of the computed `Walk`. A tiling and the
walk are the same set: the walk is shown to be the fixed point of its equation, and a block of one
that is missing from the other would have a least counterexample.
`FaultsAreExact` needs the converse of what `IInv` says: `DInv` adds that after a
fault *no* set of addresses is a well-formed heap (`Broken`), by one lemma per fault. `BInv`
describes a heap that may be damaged: not a tiling, only that no size leads out of the heap from a
header or back out of it from a footer (`Tidy`), which each tag write keeps (`PutTidy`).
`TakesFirstFit` adds to it that the search has missed nothing (`Ahead`: a free block of the walk that
is large enough is on the part of the walk that begins at `cur`). It needs no sound heap, and would
say little of one, where at most one block is free.
`AnswersTheApi` maps each step to one of `Malloc`'s under the mapping `HdrBar`, `SlotBar`; the point
is that the blocks the tags produce are exactly those `Malloc` allows, and that the step of the first
fault is one that `Malloc` allows to be (`TierDamage`). `AnswersWhenDamaged` goes on from there with `BInv`.

**`MallocProofs`.** `MInv` is `Owned` and `RoomForRequest` with `MapHeaders` (the header of a mapping is
not below the limit, so `free` recognises it) and `NoTags` (once the tags are damaged no header of the brk
heap is vouched for). `Owned` has two halves for this reason: mappings have one owner always, blocks of
the brk heap until the damage. `KeptInv` (nothing is stored beyond the size the client
counts on) is what the two properties of realloc need besides.

**`StringsProofs`.** `SInv` holds the loop invariants of `memcpy`, both directions of `memmove`, `memset`,
`strcpy` and `strlen`. For the downward loop: what lies above the loop variable has been copied, and
everything below still has its old contents, which is what makes the overlap safe. `AInv` holds
those of `memcmp` and `strcmp`: all before the loop variable is equal.

**`StdioProofs`.** `PInv` accounts for every character (`Accounts`): the text of the call is what has
been offered to `write`, then what is in the buffer, then what is to come; and standard output has all that
has been offered, or `lost` says how much is missing. `NumbersBack` has an invariant of its own:
`NumberInv` names the sequence of quotients that the digit loop divides out (`Written`) and the
positions that `str_reverse` has swapped (`Turned`). The value of a numeral is a recursive function;
that the sequence of quotients ends in the number is an argument by the least position at which it
does not.

The measure of `CallEnds` is lexicographic (`Closer`): the directives to come (`left`), then the stage
of the running one (`Phase`), then what the loop of that stage has still to do (`Rounds`: the value that the
digit loop divides, the gap that `str_reverse` closes, the characters to be emitted).

**`LineProofs`.** `LInv` says that the pointer that writes stays behind the one that reads. For
`SplitsRight`, `SplitInv` gives the place of everything that has been written: a kept character is behind
those kept before it and one NUL for each argument that ended before, and the NUL before an argument is
where the blank was. The counts (`Upto`) grow by one at each member (`UptoFacts`), and there is exactly
one i-th member (`Ranked`), so that at the end the string at `argv[n]` is the n-th argument.
`SplitRight` counts for this reason, and uses no selected subsequence.

**`ShellProofs`.** `SInv` is one part about each process alone (`Alone`: how far the search is, what
was not found), one about who is who (`Roles`: only the first shell ever
reads) and one about time (`OneChild`: while the shell prompts there is no child, and while it waits there is
the one it waits for).

**`SyscallProofs`.** `CInv` adds to `Delivered` that the compiler's placement is one it may choose
(`Placed`: a register that the call reads holds one operand), and goes through the 26 wrappers by the
number of their operands.

**`DemoProofs`.** `DInv` gives each process's descriptor table as a function of the statement it is at
(`TablesInv`: what was inherited, and what `main` has opened by then and not closed), which is `ClosedAtEnd` at
the end. `FamilyInv` is the argument for whole lines: while there is a child the parent is at the `waitpid`,
at the one-write `printf`s around it, or has been killed. `FileInv` says that the descriptor
of the file is not 1 unless 1 was closed and 0 was not.

### What is left to TLC

* Liveness under fairness: `MallocReturns`, `PromptsAgain`, and in `Stdio!KeepsPromise` that the call
  returns. The prover handles neither it nor ENABLED. What makes them true is proved: `SearchAdvances`,
  `NeverWaitsInVain`, and `CallEnds` with `StreamSteps`. Only that a step which can be taken is taken in
  the end, and that a measure cannot fall for ever, rests on TLC's instances.
* The three runs that refute comments.

## 5. Where the code and its comments disagree

| Run | Code | Says |
|---|---|---|
| `heap_merge` | `src/heap.c:332` clears ALLOCATED in the next header; a live block is merged | `heap.c:38` |
| `malloc_refused` | `src/heap.c:102` recognises no -errno but -1 | `syscall.c:150` |
| `syscall_r10` | `src/proc.c:94`: the NULL for `rusage` may be in any register, and the kernel reads r10; `wait4` then stores the usage of the child it has collected over whatever r10 points to. The last operands of `sigaction` and `stat` (`signal.c:42`, `fs.c:107`) have the same constraint | `proc.c:94`, `proc.c:78` |

Seen on the way, in the models as the code has them, and in no run of their own:

* A remainder behind an allocated block gets PREV_FREE (`src/heap.c:255`; `heap.c:31` says what the
  flag means), and `brk_grow` returns an address inside the block it has just merged (`heap.c:224`;
  `heap.c:190`). These are the faults `false_prev` and `inner` above.
* `realloc` takes 8 bytes too many off a mapping (`heap.c:152`), so that it copies one word less than
  the block holds (`test.c:163`); `ReallocLosesAWordAtMost` says that it is never more.
* Where r10 holds neither NULL nor an address of the program, `wait4` fails after it has collected the child; where it holds
  no 8, `rt_sigaction` fails with EINVAL and the handler stays as it was.
* The path that `try_exec` builds has no bound (`shell.c:193`; `string.c:111` leaves that to the caller).
* Started with standard input open and output closed, the demo's `printf` writes into `fd`, and started
  with both closed it does not: `open` returns the lowest free number (`HelloOnly`).
* `read` answering -EINTR ends the shell, as EOF does (`shell.c:72`); a stopped child leaves it waiting.
* `malloc` returns header + 8 with headers at multiples of 16, so no pointer is aligned to 16 bytes,
  as `learn.md:108` says it is.
* `sz + HDR_SZ` wraps round at `src/heap.c:94` (the assumption `NoWrap` above).
* `printf_flush` drops what a short write left over (`src/stdio.c:57`; the variable `lost` of `Stdio`).
* The rest of a line longer than the buffer is the next command (`examples/shell.c:69`).
* `parse_line` gives " ls" an empty first argument and `run_command` drops the command silently
  (`examples/shell.c:108`, `144`).

Why the repository's tests miss the heap faults: they write to the first byte of a block, or check
it before the next free, so that no test reads a block that has been handed out twice.

## 6. Not modelled

* `dup` and `dup2` on descriptor tables and handlers running: no program of the repository uses them,
  and the library keeps no state for them. `nanosleep` and `gettimeofday` beyond their operands, file
  offsets and the contents of `struct stat`: they are the kernel's (the demo's calls that only wait or
  ask for the time change nothing in `Demo`).
* Command names too long for `fullpath`: no code looks at the length (`shell.c:193`), so that there is no
  decision to model, and what is behind the buffer on the stack is the compiler's choice.
* A program that moves the break itself behind the heap's back, handlers that re-enter malloc, and
  threads: the README of the repository excludes them.
* Requests so large that `sz + HDR_SZ` wraps are modelled in `Malloc` but excluded from its theorems.
* Stopped processes, and the text of messages.
* `start.S`: it passes main's result to exit, which is `ReadEnd` in `Shell` and
  `End` in `Demo`; the way argc and argv reach main is left out.

## 7. Plan

Done, in this order: `Heap` with `Allocator`, `Malloc`, `Strings`, their proofs, `Stdio`, `Line`, `Shell`,
then `Syscall`, `Demo`, `Tier` and `Stream`.

After that the proofs: types and safety of `Heap`, `Malloc` and `Strings`, then `Line`, `Shell`,
`Syscall` and `Stdio`, the refinements, the theorems about the walk, the numerals and the split.

What is left:

1. Proofs: every property of the runs is proved but for its liveness part. `DamageBegins` decides each call
   by the state it meets; what would add something is a description of whole call sequences that never
   reach a fault, beyond those that never free.
2. Models: descriptors across `dup2`, and handlers, when a program of the repository uses them.
