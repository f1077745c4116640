------------------------------- MODULE Zmalloc --------------------------------
(***************************************************************************)
(* The memory accounting of zmalloc.c, built without malloc_usable_size:   *)
(* every block carries its size in a header, and used_memory is changed by *)
(* each thread after it has allocated a block and before it gives one      *)
(* back.  With zmalloc_thread_safe a change is one step (the mutex or the  *)
(* atomic instruction); without it a load and a store.  The modules that   *)
(* use it say when their threads allocate.  Out of memory ends the process *)
(* (zmalloc_default_oom), and nothing is left to describe.                 *)
(***************************************************************************)
EXTENDS Integers, Sequences, FiniteSetsExt

CONSTANTS
  Thread,        (* the threads of the program                             *)
  Block,         (* the blocks they may allocate                           *)
  LONG_SIZE,     (* sizeof(long)                                           *)
  PREFIX_SIZE,   (* the size of the header                                 *)
  SIZE_RANGE,    (* size_t counts modulo this                              *)
  NoValue        (* nothing has been loaded                                *)

VARIABLES
  used_memory,
  zmalloc_thread_safe,
  block,     (* the size asked for with each block in use, NoValue for the rest *)
  updates,   (* what each thread has still to add to used_memory                *)
  loaded     (* the value of used_memory it has loaded and not stored           *)

memVars == <<used_memory, zmalloc_thread_safe, block, updates, loaded>>

\* The sizes are rounded up to a multiple of sizeof(long).
Rounded(n) == n + ((LONG_SIZE - (n % LONG_SIZE)) % LONG_SIZE)

MemoryInit ==
  /\ used_memory = 0
  /\ zmalloc_thread_safe = FALSE
  /\ block = [b \in Block |-> NoValue]
  /\ updates = [th \in Thread |-> <<>>]
  /\ loaded = [th \in Thread |-> NoValue]

\* The thread has no change of the counter before it and may go on.
Accounted(th) == updates[th] = <<>>

zmalloc_enable_thread_safeness ==
  /\ zmalloc_thread_safe' = TRUE
  /\ UNCHANGED <<used_memory, block, updates, loaded>>

\* zmalloc, zcalloc, and zstrdup of a string of size - 1 bytes.
zmalloc(th, b, size) ==
  /\ block[b] = NoValue
  /\ block' = [block EXCEPT ![b] = size]
  /\ updates' = [updates EXCEPT ![th] = <<Rounded(size + PREFIX_SIZE)>>]
  /\ UNCHANGED <<used_memory, zmalloc_thread_safe, loaded>>

\* The sizes without the header cancel: the header is counted since zmalloc.
zrealloc(th, b, size) ==
  /\ block[b] # NoValue
  /\ block' = [block EXCEPT ![b] = size]
  /\ updates' = [updates EXCEPT ![th] = <<-Rounded(block[b]), Rounded(size)>>]
  /\ UNCHANGED <<used_memory, zmalloc_thread_safe, loaded>>

\* Mutant: the header is not counted off.
zfreeWithoutPrefix(th, b) ==
  /\ block[b] # NoValue
  /\ block' = [block EXCEPT ![b] = NoValue]
  /\ updates' = [updates EXCEPT ![th] = <<-Rounded(block[b])>>]
  /\ UNCHANGED <<used_memory, zmalloc_thread_safe, loaded>>

zfree(th, b) ==
  /\ block[b] # NoValue
  /\ block' = [block EXCEPT ![b] = NoValue]
  /\ updates' = [updates EXCEPT ![th] = <<-Rounded(block[b] + PREFIX_SIZE)>>]
  /\ UNCHANGED <<used_memory, zmalloc_thread_safe, loaded>>

\* update_zmalloc_stat_add and update_zmalloc_stat_sub.
UpdateStat(th) ==
  /\ updates[th] # <<>>
  /\ zmalloc_thread_safe
  /\ used_memory' = (used_memory + Head(updates[th])) % SIZE_RANGE
  /\ updates' = [updates EXCEPT ![th] = Tail(@)]
  /\ UNCHANGED <<zmalloc_thread_safe, block, loaded>>

\* used_memory += _n and used_memory -= _n, with nothing to keep two threads apart.
LoadStat(th) ==
  /\ updates[th] # <<>>
  /\ ~zmalloc_thread_safe
  /\ loaded[th] = NoValue
  /\ loaded' = [loaded EXCEPT ![th] = used_memory]
  /\ UNCHANGED <<used_memory, zmalloc_thread_safe, block, updates>>

StoreStat(th) ==
  /\ loaded[th] # NoValue
  /\ used_memory' = (loaded[th] + Head(updates[th])) % SIZE_RANGE
  /\ updates' = [updates EXCEPT ![th] = Tail(@)]
  /\ loaded' = [loaded EXCEPT ![th] = NoValue]
  /\ UNCHANGED <<zmalloc_thread_safe, block>>

Account(th) == UpdateStat(th) \/ LoadStat(th) \/ StoreStat(th)

-------------------------------------------------------------------------------
Footprint ==
  MapThenSumSet(LAMBDA b : Rounded(block[b] + PREFIX_SIZE), {b \in Block : block[b] # NoValue})
Unaccounted ==
  MapThenSumSet(LAMBDA th : IF Len(updates[th]) = 0 THEN 0
                            ELSE IF Len(updates[th]) = 1 THEN updates[th][1]
                            ELSE updates[th][1] + updates[th][2], Thread)

\* used_memory is the size of the blocks in use but for the changes threads have
\* still to make.
Exact == used_memory + Unaccounted = Footprint
==============================================================================
