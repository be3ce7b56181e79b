---------------------------- MODULE SharedCache ----------------------------
(***************************************************************************)
(* The shared-memory refinement cache of safeql/cache.rs, used by several  *)
(* backends at once.                                                       *)
(*                                                                         *)
(* The slot array is the sequence `entries` (slots 0..current_entries-1);  *)
(* a slot keeps key_hash, created_at, last_accessed and the payload.  Key  *)
(* hashes are the keys themselves (a 64-bit DefaultHasher collision is     *)
(* not modelled).  The LWLock is its state word: LW_VAL_SHARED per shared *)
(* holder plus LW_VAL_EXCLUSIVE for an exclusive one, with the wrap-around *)
(* of the unsigned atomic.  get and set take the lock in one step and do   *)
(* their work and release it (the CacheLockGuard drop) in the next, so     *)
(* other backends and the startup hook can act in between.  Time is an     *)
(* integer clock; TTL is the 7-day cutoff of cleanup_old_entries_unlocked. *)
(***************************************************************************)
EXTENDS Integers, Sequences, FiniteSets

CONSTANTS
    Backends,       \* backend processes using the cache
    Keys,           \* cache keys (generate_cache_key results)
    Values,         \* payloads (serialised JSON results)
    Oversize,       \* payloads longer than MAX_DATA_SIZE
    MaxEntries,     \* header.max_entries (MAX_CACHE_ENTRIES)
    TTL,            \* 7 * 24 * 3600 seconds, in clock units
    MaxTime,        \* bound on the clock
    MaxOps,         \* bound on get/set calls per backend
    ExecBackend,    \* TRUE when every new backend runs shmem_startup_hook
    MaxAttach,      \* bound on runs of the startup hook
    ExclusiveVal,   \* LW_VAL_EXCLUSIVE (MAX_BACKENDS + 1), a power of two
    NoValue         \* model value: a miss

ASSUME Oversize \subseteq Values /\ NoValue \notin Values
ASSUME MaxEntries \in Nat \ {0} /\ TTL \in Nat /\ ExecBackend \in BOOLEAN
ASSUME ExclusiveVal > Cardinality(Backends)

VARIABLES
    entries,    \* the occupied slots, in slot order
    now,        \* current_timestamp()
    lock,       \* the LWLock state word, modulo 2 * ExclusiveVal
    pc,         \* per backend: "idle", "get_wait", "get", "set_wait", "set"
    arg,        \* per backend: the key (and payload) of its current call
    cacheOn,    \* per backend: vectors.enable_search_cache (Userset GUC)
    ops,        \* per backend: calls made so far (bounded by MaxOps)
    attaches,   \* runs of the startup hook
    written,    \* history: every successful set, [key, val, at]
    lastGet     \* history: per backend, the hit of its last get (NoValue on a miss)

vars == <<entries, now, lock, pc, arg, cacheOn, ops, attaches,
          written, lastGet>>

Entry == [key : Keys, val : Values \ Oversize, created : Nat, accessed : Nat]

-----------------------------------------------------------------------------
(***************************************************************************)
(* LWLock, as PostgreSQL's lwlock.c keeps it.  Only the bits up to and     *)
(* including LW_VAL_EXCLUSIVE decide who may acquire, and a borrow only    *)
(* propagates upwards, so the word is kept modulo 2 * LW_VAL_EXCLUSIVE.    *)
(* A shared request waits while the exclusive bit is set; an exclusive one *)
(* waits while any holder is counted.  get takes LW_SHARED, set            *)
(* LW_EXCLUSIVE.                                                           *)
(***************************************************************************)
LockWord(x) == x % (2 * ExclusiveVal)

GetLockMode == 1   \* LW_VAL_SHARED

\* Mutant: set taking the lock in LW_SHARED mode.
SetLockShared == 1

SetLockMode == ExclusiveVal

Grantable(mode) ==
    IF mode = ExclusiveVal THEN lock = 0 ELSE lock < ExclusiveVal

Acquire(mode) == lock' = LockWord(lock + mode)

\* Mutant: the guard's drop does not give back a shared hold.
ReleaseKeepsShared(mode) == lock' = IF mode = ExclusiveVal THEN LockWord(lock - mode) ELSE lock

\* CacheLockGuard::drop: LWLockRelease subtracts the mode it was taken in.
Release(mode) == lock' = LockWord(lock - mode)

(***************************************************************************)
(* The first slot holding key k, as get's linear scan finds it.           *)
(***************************************************************************)
Lookup(k) ==
    LET hits == SelectSeq(entries, LAMBDA e : e.key = k)
    IN  IF hits = <<>> THEN NoValue ELSE Head(hits).val

(***************************************************************************)
(* cleanup_old_entries_unlocked: keep, in order, the slots whose           *)
(* last_accessed is at or after now - TTL (saturating at 0).              *)
(***************************************************************************)
Cutoff == IF now > TTL THEN now - TTL ELSE 0

\* Mutant: an entry exactly at the cutoff is dropped.
KeepStrict(e) == e.accessed > Cutoff

Keep(e) == e.accessed >= Cutoff

Cleanup(es) == SelectSeq(es, LAMBDA e : Keep(e))

\* Mutant: the full test compares with > instead of >=.
FullLate(n) == n > MaxEntries

Full(n) == n >= MaxEntries

\* Mutant: the MAX_DATA_SIZE check dropped.
FitsSlotUnchecked(v) == TRUE

\* set's size check before taking the lock.
FitsSlot(v) == v \notin Oversize

-----------------------------------------------------------------------------

Init ==
    /\ entries = <<>>
    /\ now = 0
    /\ lock = 0
    /\ pc = [b \in Backends |-> "idle"]
    /\ arg = [b \in Backends |-> [key |-> CHOOSE k \in Keys : TRUE, val |-> NoValue]]
    /\ cacheOn = [b \in Backends |-> TRUE]
    /\ ops = [b \in Backends |-> 0]
    /\ attaches = 0
    /\ written = {}
    /\ lastGet = [b \in Backends |-> NoValue]

\* A session changes vectors.enable_search_cache between calls.
SetCacheGuc(b) ==
    /\ pc[b] = "idle"
    /\ cacheOn' = [cacheOn EXCEPT ![b] = ~@]
    /\ UNCHANGED <<entries, now, lock, pc, arg, ops, attaches,
                   written, lastGet>>

(***************************************************************************)
(* get(cache_key): with the cache disabled, a miss without the lock;      *)
(* otherwise request the shared lock.                                      *)
(***************************************************************************)
GetCall(b, k) ==
    /\ pc[b] = "idle" /\ ops[b] < MaxOps
    /\ ops' = [ops EXCEPT ![b] = @ + 1]
    /\ arg' = [arg EXCEPT ![b] = [key |-> k, val |-> NoValue]]
    /\ pc' = [pc EXCEPT ![b] = IF cacheOn[b] THEN "get_wait" ELSE "idle"]
    /\ lastGet' = [lastGet EXCEPT ![b] = NoValue]
    /\ UNCHANGED <<entries, now, lock, cacheOn, attaches,
                   written>>

GetLocked(b) ==
    /\ pc[b] = "get_wait" /\ Grantable(GetLockMode)
    /\ Acquire(GetLockMode)
    /\ pc' = [pc EXCEPT ![b] = "get"]
    /\ UNCHANGED <<entries, now, arg, cacheOn, ops, attaches,
                   written, lastGet>>

\* The scan returns the first matching slot; last_accessed is not touched.
GetScan(b) ==
    LET k == arg[b].key
        v == Lookup(k)
    IN  /\ pc[b] = "get"
        /\ Release(GetLockMode)
        /\ pc' = [pc EXCEPT ![b] = "idle"]
        /\ lastGet' = [lastGet EXCEPT ![b] =
                         IF v = NoValue THEN NoValue
                         ELSE [key |-> k, val |-> v]]
        /\ UNCHANGED <<entries, now, arg, cacheOn, ops, attaches, written>>

(***************************************************************************)
(* set(cache_key, query_type, data): disabled is an Ok no-op, an oversize *)
(* payload is an Err before the lock; otherwise request the exclusive lock.*)
(***************************************************************************)
SetCall(b, k, v) ==
    /\ pc[b] = "idle" /\ ops[b] < MaxOps
    /\ ops' = [ops EXCEPT ![b] = @ + 1]
    /\ arg' = [arg EXCEPT ![b] = [key |-> k, val |-> v]]
    /\ pc' = [pc EXCEPT ![b] =
                IF cacheOn[b] /\ FitsSlot(v) THEN "set_wait" ELSE "idle"]
    /\ UNCHANGED <<entries, now, lock, cacheOn, attaches,
                   written, lastGet>>

SetLocked(b) ==
    /\ pc[b] = "set_wait" /\ Grantable(SetLockMode)
    /\ Acquire(SetLockMode)
    /\ pc' = [pc EXCEPT ![b] = "set"]
    /\ UNCHANGED <<entries, now, arg, cacheOn, ops, attaches,
                   written, lastGet>>

(***************************************************************************)
(* Under the lock: when full, clean up; when still full, Err("Cache full  *)
(* after cleanup"); otherwise append a slot stamped now (no search for an *)
(* existing slot of the key) and bump current_entries.                     *)
(***************************************************************************)
SetWrite(b) ==
    LET k     == arg[b].key
        v     == arg[b].val
        slots == IF Full(Len(entries)) THEN Cleanup(entries) ELSE entries
        ok    == ~Full(Len(slots))
    IN  /\ pc[b] = "set"
        /\ entries' = IF ok
                      THEN Append(slots, [key |-> k, val |-> v,
                                          created |-> now, accessed |-> now])
                      ELSE slots
        /\ written' = IF ok THEN written \cup {[key |-> k, val |-> v, at |-> now]}
                      ELSE written
        /\ Release(SetLockMode)
        /\ pc' = [pc EXCEPT ![b] = "idle"]
        /\ UNCHANGED <<now, arg, cacheOn, ops, attaches, lastGet>>

\* Time passes (SystemTime::now in whole seconds).
Tick ==
    /\ now < MaxTime
    /\ now' = now + 1
    /\ UNCHANGED <<entries, lock, pc, arg, cacheOn, ops, attaches,
                   written, lastGet>>

(***************************************************************************)
(* initialize_shared_cache, the shmem_startup_hook.  LWLockInitialize      *)
(* runs whether or not the segment was found; the header and the zeroed    *)
(* slots are written only when it was not.  found = FALSE is the           *)
(* postmaster creating the segment at a (crash) restart, after every       *)
(* backend has exited: the cache starts empty and so do its histories.     *)
(* found = TRUE happens only on EXEC_BACKEND builds, where each new        *)
(* backend runs the hook against the live segment.                         *)
(***************************************************************************)
Found == IF ExecBackend THEN BOOLEAN ELSE {FALSE}

InitializeSharedCache(found) ==
    /\ attaches < MaxAttach
    /\ attaches' = attaches + 1
    /\ lock' = 0
    /\ IF found
       THEN UNCHANGED <<entries, pc, cacheOn, written, lastGet>>
       ELSE /\ entries' = <<>>
            /\ pc' = [b \in Backends |-> "idle"]
            /\ cacheOn' = [b \in Backends |-> TRUE]
            /\ written' = {}
            /\ lastGet' = [b \in Backends |-> NoValue]
    /\ UNCHANGED <<now, arg, ops>>

Next ==
    \/ \E b \in Backends :
          \/ SetCacheGuc(b)
          \/ \E k \in Keys : GetCall(b, k)
          \/ GetLocked(b) \/ GetScan(b)
          \/ \E k \in Keys, v \in Values : SetCall(b, k, v)
          \/ SetLocked(b) \/ SetWrite(b)
    \/ Tick
    \/ \E found \in Found : InitializeSharedCache(found)

\* A backend inside a cache call is scheduled and woken when the lock frees.
Fairness == \A b \in Backends :
                WF_vars(GetLocked(b)) /\ WF_vars(GetScan(b))
             /\ WF_vars(SetLocked(b)) /\ WF_vars(SetWrite(b))

Spec == Init /\ [][Next]_vars /\ Fairness

-----------------------------------------------------------------------------
(* Properties *)

TypeOK ==
    /\ entries \in Seq(Entry)
    /\ now \in 0..MaxTime
    /\ lock \in 0..(2 * ExclusiveVal - 1)
    /\ pc \in [Backends -> {"idle", "get_wait", "get", "set_wait", "set"}]
    /\ cacheOn \in [Backends -> BOOLEAN]
    /\ ops \in [Backends -> 0..MaxOps]
    /\ lastGet \in [Backends -> {NoValue} \cup
                    [key : Keys, val : Values \ Oversize]]

(***************************************************************************)
(* The reader-writer contract of the cache lock: while a backend is in     *)
(* set's critical section (appending, compacting, bumping current_entries) *)
(* no other backend is scanning or writing the slots.                      *)
(***************************************************************************)
WriterExcludes ==
    \A b \in Backends : pc[b] = "set" =>
        \A c \in Backends \ {b} : pc[c] \notin {"get", "set"}

(***************************************************************************)
(* set never writes past the slot array: after the full check and cleanup *)
(* current_entries stays within max_entries.                               *)
(***************************************************************************)
WithinCapacity == Len(entries) <= MaxEntries

(***************************************************************************)
(* Cleanup evicts only expired slots: every successful set stamped within  *)
(* the last TTL is still held, whatever sets and cleanups came after it.   *)
(***************************************************************************)
FreshWritesKept ==
    \A w \in written : w.at + TTL >= now =>
        \E i \in 1..Len(entries) :
            entries[i].key = w.key /\ entries[i].val = w.val /\ entries[i].created = w.at

(***************************************************************************)
(* Every get or set a backend enters returns: the lock is always released *)
(* and no waiter is left blocked.                                          *)
(***************************************************************************)
CallsReturn == \A b \in Backends : pc[b] # "idle" ~> pc[b] = "idle"

====
