--------------------------- MODULE CachedScoring ---------------------------
(***************************************************************************)
(* The catalog similarity lookups of safeql/score.rs over the shared cache *)
(* of SharedCache.  Every lookup has the same shape:                       *)
(*   key := generate_cache_key(kind, <some of the inputs>)                 *)
(*   if get(key) hits and parses: return it                                *)
(*   result := SPI query (LIMIT top_k or truncate(top_k) for some kinds,   *)
(*             always filtered by current_schemas) .unwrap_or_default()    *)
(*   set(key, kind, result); return result                                 *)
(* Backends run lookups concurrently.  A session's TOP_K_EXPANSION and     *)
(* search_path are per-session settings it may change between lookups.     *)
(* The catalog tables are fixed: Matches(p, s) is what the query finds for *)
(* parameter p under search path s, in distance order.                     *)
(***************************************************************************)
EXTENDS Integers, Sequences, FiniteSets

CONSTANTS
    Backends, Kinds, Params, TopKs, Paths,
    Matches(_, _),      \* catalog rows matching p under search path s, ordered
    MaxEntries, TTL, MaxTime, MaxOps, ExclusiveVal, NoValue

VARIABLES
    entries, now, lock, pc, arg, cacheOn, ops, attaches,
    written, lastGet,               \* the shared cache (SharedCache)
    sc,         \* per backend: the lookup's step, "idle", "get" or "set"
    call,       \* per backend: [kind, p] of its lookup
    pending,    \* per backend: the SPI result it is storing
    topK,       \* per backend: TOP_K_EXPANSION of its session
    path,       \* per backend: search_path of its session
    lastResult  \* history: per backend, what its last lookup returned and
                \*   what the query would have returned without the cache

cacheVars == <<entries, now, lock, pc, arg, cacheOn, ops, attaches,
               written, lastGet>>

vars == <<cacheVars, sc, call, pending, topK, path, lastResult>>

(***************************************************************************)
(* The key each lookup builds.  Only table_similarity, column_similarity  *)
(* and similar_functions put TOP_K_EXPANSION in the key; no key holds the  *)
(* search path.                                                            *)
(***************************************************************************)
KeyHasTopK(kind) == kind \in {"table_similarity", "column_similarity", "similar_functions"}

\* Mutant: the key omits TOP_K_EXPANSION for every kind.
KeyWithoutTopK(kind, p, k) == [kind |-> kind, p |-> p, topk |-> 0]

KeyOf(kind, p, k) == [kind |-> kind, p |-> p, topk |-> IF KeyHasTopK(kind) THEN k ELSE 0]

(***************************************************************************)
(* Which queries the top_k bounds: LIMIT $n / LIMIT {} in the similarity   *)
(* queries, result.truncate(top_k) in find_joinable_tables_for_column.     *)
(***************************************************************************)
UsesTopK(kind) ==
    kind \in {"table_similarity", "column_similarity", "similar_functions",
              "joinable_tables", "operator_compatible_columns",
              "function_compatible_arguments", "similar_values"}

Prefix(s, n) == SubSeq(s, 1, IF n < Len(s) THEN n ELSE Len(s))

\* The SPI query's result for the session's settings.
Answer(kind, p, k, s) == IF UsesTopK(kind) THEN Prefix(Matches(p, s), k) ELSE Matches(p, s)

CacheKeys == {KeyOf(kind, p, k) : kind \in Kinds, p \in Params, k \in TopKs}

Answers == {Answer(kind, p, k, s) : kind \in Kinds, p \in Params, k \in TopKs, s \in Paths}

Cache == INSTANCE SharedCache
            WITH Keys <- CacheKeys, Values <- Answers, Oversize <- {},
                 ExecBackend <- FALSE, MaxAttach <- 0

Expected(b) == Answer(call[b].kind, call[b].p, topK[b], path[b])

-----------------------------------------------------------------------------

Init ==
    /\ Cache!Init
    /\ sc = [b \in Backends |-> "idle"]
    /\ call = [b \in Backends |-> [kind |-> CHOOSE x \in Kinds : TRUE,
                                   p |-> CHOOSE x \in Params : TRUE]]
    /\ pending = [b \in Backends |-> <<>>]
    /\ topK \in [Backends -> TopKs]
    /\ path \in [Backends -> Paths]
    /\ lastResult = [b \in Backends |-> NoValue]

\* SET safeql.top_k_expansion / SET search_path between lookups.
SetSessionGucs(b, k, s) ==
    /\ sc[b] = "idle"
    /\ topK' = [topK EXCEPT ![b] = k]
    /\ path' = [path EXCEPT ![b] = s]
    /\ UNCHANGED <<cacheVars, sc, call, pending, lastResult>>

\* Build the key and call get_cached_result.  A lookup needs room for its
\* get and its set in the per-backend call bound.
LookupStart(b, kind, p) ==
    /\ sc[b] = "idle" /\ ops[b] + 2 <= MaxOps
    /\ Cache!GetCall(b, KeyOf(kind, p, topK[b]))
    /\ sc' = [sc EXCEPT ![b] = "get"]
    /\ call' = [call EXCEPT ![b] = [kind |-> kind, p |-> p]]
    /\ UNCHANGED <<pending, topK, path, lastResult>>

\* A hit that parses: return the cached result.
LookupHit(b) ==
    /\ sc[b] = "get" /\ pc[b] = "idle" /\ lastGet[b] # NoValue
    /\ sc' = [sc EXCEPT ![b] = "idle"]
    /\ lastResult' = [lastResult EXCEPT ![b] = [got |-> lastGet[b].val, expected |-> Expected(b)]]
    /\ UNCHANGED <<cacheVars, call, pending, topK, path>>

\* A miss: run the query under the session's settings and store its result.
LookupMiss(b) ==
    LET v == Expected(b)
    IN  /\ sc[b] = "get" /\ pc[b] = "idle" /\ lastGet[b] = NoValue
        /\ Cache!SetCall(b, KeyOf(call[b].kind, call[b].p, topK[b]), v)
        /\ sc' = [sc EXCEPT ![b] = "set"]
        /\ pending' = [pending EXCEPT ![b] = v]
        /\ UNCHANGED <<call, topK, path, lastResult>>

\* store_cached_result's outcome is ignored; the computed result is returned.
LookupReturn(b) ==
    /\ sc[b] = "set" /\ pc[b] = "idle"
    /\ sc' = [sc EXCEPT ![b] = "idle"]
    /\ lastResult' = [lastResult EXCEPT ![b] = [got |-> pending[b], expected |-> Expected(b)]]
    /\ UNCHANGED <<cacheVars, call, pending, topK, path>>

\* The cache's own steps: lock grants, the locked bodies, time, the GUC.
CacheStep(b) ==
    /\ \/ Cache!GetLocked(b) \/ Cache!GetScan(b)
       \/ Cache!SetLocked(b) \/ Cache!SetWrite(b)
       \/ sc[b] = "idle" /\ Cache!SetCacheGuc(b)
    /\ UNCHANGED <<sc, call, pending, topK, path, lastResult>>

Tick == Cache!Tick /\ UNCHANGED <<sc, call, pending, topK, path, lastResult>>

Next ==
    \/ \E b \in Backends :
          \/ \E k \in TopKs, s \in Paths : SetSessionGucs(b, k, s)
          \/ \E kind \in Kinds, p \in Params : LookupStart(b, kind, p)
          \/ LookupHit(b) \/ LookupMiss(b) \/ LookupReturn(b)
          \/ CacheStep(b)
    \/ Tick

Spec == Init /\ [][Next]_vars

-----------------------------------------------------------------------------
(* Properties *)

(***************************************************************************)
(* Spec 8, cache transparency: every lookup returns what the uncached     *)
(* query returns for the session's own settings, whichever backend and    *)
(* settings filled the slot.                                               *)
(***************************************************************************)
LookupTransparent ==
    \A b \in Backends : lastResult[b] # NoValue => lastResult[b].got = lastResult[b].expected

====
