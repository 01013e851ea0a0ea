---------------------------- MODULE ProviderCache ----------------------------
(***************************************************************************)
(* AsyncTTLCache, through which providers read their coin catalogs and the *)
(* explorer its transactions: one lock per key coalesces misses, entries   *)
(* age out, and at capacity the oldest goes together with its lock.        *)
(*                                                                         *)
(* Callers are coroutines, so that one runs on until it waits for a lock   *)
(* or for its loader.  A caller makes one call, a lock is named after the  *)
(* caller that created it.                                                 *)
(***************************************************************************)
EXTENDS Naturals, Sequences, SequencesExt

CONSTANTS
    None,
    Caller, Key,
    KeyOf,        \* what each caller asks for
    MaxEntries    \* max_entries

CacheAssumption ==
    /\ KeyOf \in [Caller -> Key] /\ None \notin Caller
    /\ MaxEntries \in Nat \ {0}

VARIABLES
    entries,   \* _entries: the keys, by the time of their expiry
    stale,     \* keys of entries that are past it
    lockOf,    \* _locks
    holder,    \* who holds a lock
    waitsFor,  \* the lock a caller holds or waits for
    at,        \* where a caller is
    dropped    \* history: keys whose lock went while a caller held it or waited for it

vars == <<entries, stale, lockOf, holder, waitsFor, at, dropped>>

Init ==
    /\ entries = <<>> /\ stale = {}
    /\ lockOf = [k \in Key |-> None] /\ holder = [l \in Caller |-> None]
    /\ waitsFor = [c \in Caller |-> None] /\ at = [c \in Caller |-> "new"]
    /\ dropped = {}

\* _fresh
Fresh(k) == k \in ToSet(entries) \ stale

Go(c, place) == at' = [at EXCEPT ![c] = place]

\* _lock_for
LockFor(c) == IF lockOf[KeyOf[c]] = None THEN c ELSE lockOf[KeyOf[c]]

Call(c) ==
    /\ at[c] = "new"
    /\ IF Fresh(KeyOf[c])
       THEN Go(c, "answered") /\ UNCHANGED <<lockOf, holder, waitsFor>>
       ELSE LET l == LockFor(c)
            IN /\ lockOf' = [lockOf EXCEPT ![KeyOf[c]] = l]
               /\ waitsFor' = [waitsFor EXCEPT ![c] = l]
               /\ IF holder[l] = None
                  THEN Go(c, "loading") /\ holder' = [holder EXCEPT ![l] = c]
                  ELSE Go(c, "waiting") /\ UNCHANGED holder
    /\ UNCHANGED <<entries, stale, dropped>>

\* A caller that loads whatever happened while it waited.
WakeAndLoad(c) ==
    /\ at[c] = "waiting" /\ holder[waitsFor[c]] = None
    /\ Go(c, "loading") /\ holder' = [holder EXCEPT ![waitsFor[c]] = c]
    /\ UNCHANGED <<entries, stale, lockOf, waitsFor, dropped>>

\* Another caller may have filled the entry in the meantime.  Whichever caller
\* waits may be next.
Wake(c) ==
    /\ at[c] = "waiting" /\ holder[waitsFor[c]] = None
    /\ IF Fresh(KeyOf[c])
       THEN Go(c, "answered") /\ UNCHANGED holder
       ELSE Go(c, "loading") /\ holder' = [holder EXCEPT ![waitsFor[c]] = c]
    /\ UNCHANGED <<entries, stale, lockOf, waitsFor, dropped>>

Leave(c, place) ==
    /\ Go(c, place)
    /\ holder' = [holder EXCEPT ![waitsFor[c]] = IF @ = c THEN None ELSE @]

\* The callers that hold or wait for the lock of a key.
Users(k) == {c \in Caller : at[c] \in {"waiting", "loading"} /\ waitsFor[c] = lockOf[k]}

Store(c) ==
    LET full == Len(entries) >= MaxEntries
        kept == IF full THEN Tail(entries) ELSE entries
    IN /\ at[c] = "loading"
       /\ Leave(c, "answered")
       /\ entries' = Append(RemoveFirst(kept, KeyOf[c]), KeyOf[c])
       /\ stale' = stale \cap (ToSet(entries') \ {KeyOf[c]})
       /\ IF full
          THEN /\ lockOf' = [lockOf EXCEPT ![Head(entries)] = None]
               /\ dropped' = IF Users(Head(entries)) \ {c} = {} THEN dropped
                             ELSE dropped \cup {Head(entries)}
          ELSE UNCHANGED <<lockOf, dropped>>
       /\ UNCHANGED waitsFor

\* The loader raises, or the caller is cancelled.
GiveUp(c) ==
    /\ at[c] \in {"waiting", "loading"}
    /\ Leave(c, "raised")
    /\ UNCHANGED <<entries, stale, lockOf, waitsFor, dropped>>

\* The clock passes the oldest expiry.
Expire ==
    /\ \E i \in DOMAIN entries :
          /\ Fresh(entries[i]) /\ \A j \in 1..(i - 1) : ~Fresh(entries[j])
          /\ stale' = stale \cup {entries[i]}
    /\ UNCHANGED <<entries, lockOf, holder, waitsFor, at, dropped>>

Next ==
    \/ \E c \in Caller : Call(c) \/ Wake(c) \/ Store(c) \/ GiveUp(c)
    \/ Expire

Spec == Init /\ [][Next]_vars

----------------------------------------------------------------------------

\* providers/cache.py:6: "Concurrent misses are coalesced per key".  A key that
\* is fresh is not loaded and no key is loaded twice at a time, unless at
\* capacity its lock was dropped under a caller.
Coalesced ==
    /\ Len(entries) <= MaxEntries
    /\ \A c, e \in Caller :
          at[c] = "loading" /\ KeyOf[c] \notin dropped =>
              /\ ~Fresh(KeyOf[c])
              /\ at[e] = "loading" /\ KeyOf[e] = KeyOf[c] => e = c
=============================================================================
