----------------------------- MODULE QueryCache -----------------------------
(***************************************************************************)
(* The cache of resolved addresses of ping/dns.go (type queryCache): which *)
(* address the next ping goes to, and when an address is given up.         *)
(*                                                                         *)
(* The cache is a pair of a store, the sequence q.store, and an index, the *)
(* 0-based q.index of the code.  The operators below are the lock-free     *)
(* bodies of the cache's methods as functions of that pair; PingLoop holds *)
(* the pair, and the mutex q.m, in its state.                              *)
(***************************************************************************)
EXTENDS Naturals, Sequences

CONSTANTS
  Addrs,     (* the addresses a resolver may return                        *)
  NoAddr,    (* the nil *addr of an entry that clear() zeroed              *)
  Family,    (* Family[a] is "v4" or "v6": isIpv4 and isIpv6               *)
  MaxDrops   (* q.maxDrops                                                 *)

Families == {"v4", "v6"}

ASSUME CacheAssumption ==
  /\ NoAddr \notin Addrs
  /\ Family \in [Addrs -> Families]
  /\ MaxDrops \in Nat

Entry == [addr: Addrs \cup {NoAddr}, stale: BOOLEAN, drops: Nat]

Fresh(a) == [addr |-> a, stale |-> FALSE, drops |-> 0]

Zeroed == Fresh(NoAddr)

(* A store built from resolved addresses: every entry starts unused.       *)
FreshStore(addrs) == [i \in 1 .. Len(addrs) |-> Fresh(addrs[i])]

(* Go's clear() on a slice: the length stays, every element is zeroed.     *)
Clear(store) == [i \in 1 .. Len(store) |-> Zeroed]

(* The position in the store, 1-based, k calls of advance after the        *)
(* 0-based index; k is less than the length.                               *)
Around(store, index, k) ==
  IF index + k < Len(store) THEN index + k + 1 ELSE index + k + 1 - Len(store)

HasLive(store) == \E i \in 1 .. Len(store) : ~store[i].stale

(* getLockFree: the index where its loop stops, the first entry from the   *)
(* current one round the store that is not stale.  When every entry is     *)
(* stale the loop comes back to the index it started from.                 *)
LiveIndex(store, index) ==
  IF HasLive(store)
  THEN LET steps == CHOOSE k \in 0 .. Len(store) - 1 :
             /\ ~store[Around(store, index, k)].stale
             /\ \A j \in 0 .. k - 1 : store[Around(store, index, j)].stale
       IN  Around(store, index, steps) - 1
  ELSE index

Holds(store, a) == \E i \in 1 .. Len(store) : store[i].addr = a

(* slices.IndexFunc: the first entry that holds the address.               *)
FirstHolding(store, a) ==
  CHOOSE i \in 1 .. Len(store) :
    /\ store[i].addr = a
    /\ \A j \in 1 .. i - 1 : store[j].addr # a

(* Mutants of MarkDropped: the drop is not counted; the address is given   *)
(* up when it has used its allowance, not when it exceeds it.              *)
DropNotCounted(store, index, a) == store

DropStaleTooEarly(store, index, a) ==
  LET cur == store[FirstHolding(store, a)]
  IN  [store EXCEPT ![index + 1] =
         [cur EXCEPT !.stale = cur.drops + 1 >= MaxDrops, !.drops = @ + 1]]

(* Dropped: the count is read from the entry that holds the address, but   *)
(* the result is written at the index; staleness is decided on the count   *)
(* before this drop is added.                                              *)
MarkDropped(store, index, a) ==
  LET cur == store[FirstHolding(store, a)]
  IN  [store EXCEPT ![index + 1] =
         [addr  |-> cur.addr,
          stale |-> cur.drops > MaxDrops,
          drops |-> cur.drops + 1]]
=============================================================================
