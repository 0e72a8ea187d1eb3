---------------------------- MODULE HandleStorage ----------------------------
(***************************************************************************)
(* skynet-src/skynet_handle.c: the table of services.  A handle is hashed  *)
(* into a slot by its low bits; the table doubles when it is full; names   *)
(* are kept in a sorted array and found by binary search.  Every function  *)
(* runs under the storage's rwlock, so its locked part is one step.  Two   *)
(* things happen outside: a context learns its own handle only after       *)
(* skynet_handle_register has returned (skynet_server.c), and              *)
(* skynet_handle_retireall takes the lock anew for every slot.             *)
(***************************************************************************)
EXTENDS Integers, Sequences, FiniteSets, SequencesExt

CONSTANTS
  Ctx,                \* the contexts; one that was retired may be reused
  NULL,               \* an empty slot
  Name,               \* local names, numbers in the order of strcmp
  HANDLE_SPACE,       \* HANDLE_MASK + 1, a power of two (2^24 in the code)
  DEFAULT_SLOT_SIZE,  \* a smaller power of two (4 in the code)
  Harbor,             \* 1 when the node belongs to a harbor, 0 otherwise
  Launchers,          \* threads that may be launching at one time
  Aborts              \* whether the ABORT command may be used

ASSUME SpaceAssumption == HANDLE_SPACE \in Nat \ {0}
ASSUME SizeAssumption == DEFAULT_SLOT_SIZE \in 1 .. HANDLE_SPACE
ASSUME PowerAssumption ==   \* both are powers of two: doubling a divisor divides
  /\ HANDLE_SPACE % DEFAULT_SLOT_SIZE = 0
  /\ \A n \in 1 .. HANDLE_SPACE :
       HANDLE_SPACE % n = 0 /\ 2 * n <= HANDLE_SPACE => HANDLE_SPACE % (2 * n) = 0
ASSUME NameAssumption == Name \subseteq Nat
ASSUME NullAssumption == NULL \notin Ctx
ASSUME HarborAssumption == Harbor \in {0, 1}
ASSUME LaunchersAssumption == Launchers \in Nat
ASSUME AbortsAssumption == Aborts \in BOOLEAN

VARIABLES
  slot_size, slot,    \* the table
  handle_index,       \* where the next search for a free handle starts
  name,               \* the sorted array of names
  handle,             \* ctx->handle
  pending,            \* contexts whose handle is still on its way, with it
  stale,              \* the handle retired last: someone may still use it
  asserted,           \* an assertion of the code has failed
  sweep               \* skynet_handle_retireall: slot, retired so far, handle
                      \* read, and (ghost) the contexts a pass must retire

table == <<slot_size, slot, handle_index>>
vars == <<slot_size, slot, handle_index, name, handle, pending, stale, asserted,
          sweep>>

NoSweep == [at |-> "idle", i |-> 0, n |-> 0, handle |-> 0, must |-> {}]

Registered == {c \in Ctx : \E i \in 0 .. slot_size - 1 : slot[i] = c}
Running == Registered \ DOMAIN pending

(* skynet_handle_init. *)
Init ==
  /\ slot_size = DEFAULT_SLOT_SIZE
  /\ slot = [i \in 0 .. DEFAULT_SLOT_SIZE - 1 |-> NULL]
  /\ handle_index = 1
  /\ name = <<>>
  /\ handle = [c \in Ctx |-> 0]
  /\ pending = [c \in {} |-> 0]
  /\ stale = 0
  /\ asserted = FALSE
  /\ sweep = NoSweep

-----------------------------------------------------------------------------
(* Mutant: the old table's mask is used. *)
MovedByOldMask(i) == handle[slot[i]] % slot_size

(* The rehash of skynet_handle_register: every context moves to the slot   *)
(* that its own handle, as it is at that moment, selects.                  *)
Moved(i) == handle[slot[i]] % (2 * slot_size)

Collision == \E i, j \in 0 .. slot_size - 1 : i # j /\ Moved(i) = Moved(j)

Grown ==
  [k \in 0 .. 2 * slot_size - 1 |->
     IF \E i \in 0 .. slot_size - 1 : Moved(i) = k
     THEN slot[CHOOSE i \in 0 .. slot_size - 1 : Moved(i) = k]
     ELSE NULL]

Full == \A i \in 0 .. slot_size - 1 : slot[i] # NULL

(* The search for a free slot in the table s of n slots, from handle_index *)
(* on, wrapping at the end of the handle space.                            *)
Candidate(i) == (i + handle_index) % HANDLE_SPACE

FirstFree(s, n) ==
  CHOOSE i \in 0 .. n - 1 :
    /\ s[Candidate(i) % n] = NULL
    /\ \A j \in 0 .. i - 1 : s[Candidate(j) % n] # NULL

Claim(c, s, n) ==
  LET i == FirstFree(s, n)
  IN  /\ slot_size' = n
      /\ slot' = [s EXCEPT ![Candidate(i) % n] = c]
      /\ handle_index' = Candidate(i) + 1
      /\ pending' = [x \in DOMAIN pending \cup {c} |->
                       IF x = c THEN Candidate(i) + Harbor * HANDLE_SPACE
                       ELSE pending[x]]

(* A table that fills the handle space cannot grow: the assertion on its    *)
(* size ends the process there, and nothing is said of such a node, so that *)
(* the registration is left out.  asserted is the assertion of the rehash.  *)
skynet_handle_register(c) ==
  /\ ~asserted
  /\ c \notin Registered
  /\ handle[c] = 0
  /\ Cardinality(DOMAIN pending) < Launchers
  /\ \/ /\ ~Full
        /\ Claim(c, slot, slot_size)
        /\ UNCHANGED asserted
     \/ /\ Full
        /\ 2 * slot_size <= HANDLE_SPACE
        /\ IF Collision
           THEN /\ asserted' = TRUE
                /\ UNCHANGED <<table, pending>>
           ELSE /\ Claim(c, Grown, 2 * slot_size)
                /\ UNCHANGED asserted
  /\ UNCHANGED <<name, handle, stale, sweep>>

(* skynet_context_new: the returned handle is stored in the context. *)
StoreHandle(c) ==
  /\ ~asserted
  /\ c \in DOMAIN pending
  /\ handle' = [handle EXCEPT ![c] = pending[c]]
  /\ pending' = [x \in DOMAIN pending \ {c} |-> pending[x]]
  /\ UNCHANGED <<table, name, stale, asserted, sweep>>

-----------------------------------------------------------------------------
(* The context a handle leads to, or NULL: grab and retire begin so. *)
Lookup(h) ==
  LET c == slot[h % slot_size]
  IN  IF c # NULL /\ handle[c] = h THEN c ELSE NULL

(* The names that are left without the ones of handle h, moved together.   *)
Without(h) ==
  LET kept == {i \in DOMAIN name : name[i].handle # h}
  IN  [k \in 1 .. Cardinality(kept) |->
         name[CHOOSE i \in kept : Cardinality({j \in kept : j <= i}) = k]]

(* The locked part of skynet_handle_retire: the slot and the names of the  *)
(* handle go.  The context's memory may then serve a later launch.         *)
Retire(h) ==
  /\ slot' = [slot EXCEPT ![h % slot_size] = NULL]
  /\ handle' = [handle EXCEPT ![Lookup(h)] = 0]
  /\ name' = Without(h)
  /\ stale' = h
  /\ UNCHANGED <<slot_size, handle_index, pending, asserted>>

skynet_handle_retire(h) ==
  /\ ~asserted
  /\ Lookup(h) # NULL
  /\ Retire(h)
  /\ sweep' = [sweep EXCEPT !.must = @ \ {Lookup(h)}]

(* skynet_handle_retireall: slot by slot, until a pass retires nothing. *)
RetireAllBegins ==
  /\ ~asserted
  /\ Aborts
  /\ sweep.at = "idle"
  /\ sweep' = [NoSweep EXCEPT !.at = "read", !.must = Running]
  /\ UNCHANGED <<table, name, handle, pending, stale, asserted>>

(* Mutant: an empty slot is taken for the end of the table. *)
RetireAllReadsToGap ==
  /\ ~asserted
  /\ sweep.at = "read"
  /\ sweep' =
       IF sweep.i < slot_size /\ slot[sweep.i] # NULL
       THEN [sweep EXCEPT !.at = "retire", !.handle = handle[slot[sweep.i]]]
       ELSE IF sweep.n = 0 THEN [sweep EXCEPT !.at = "done"]
       ELSE [sweep EXCEPT !.i = 0, !.n = 0, !.must = Running]
  /\ UNCHANGED <<table, name, handle, pending, stale, asserted>>

RetireAllReads ==
  /\ ~asserted
  /\ sweep.at = "read"
  /\ sweep' =
       IF sweep.i < slot_size
       THEN [sweep EXCEPT
               !.at = "retire",
               !.handle = IF slot[sweep.i] = NULL THEN 0 ELSE handle[slot[sweep.i]]]
       ELSE IF sweep.n = 0 THEN [sweep EXCEPT !.at = "done"]
       ELSE [sweep EXCEPT !.i = 0, !.n = 0, !.must = Running]
  /\ UNCHANGED <<table, name, handle, pending, stale, asserted>>

RetireAllRetires ==
  /\ ~asserted
  /\ sweep.at = "retire"
  /\ \/ /\ sweep.handle # 0
        /\ Lookup(sweep.handle) # NULL
        /\ Retire(sweep.handle)
        /\ sweep' = [sweep EXCEPT !.at = "read", !.i = @ + 1, !.n = @ + 1,
                                  !.must = @ \ {Lookup(sweep.handle)}]
     \/ /\ sweep.handle = 0 \/ Lookup(sweep.handle) = NULL
        /\ sweep' = [sweep EXCEPT !.at = "read", !.i = @ + 1]
        /\ UNCHANGED <<table, name, handle, pending, stale, asserted>>

RetireAllEnds ==
  /\ sweep.at = "done"
  /\ sweep' = NoSweep
  /\ UNCHANGED <<table, name, handle, pending, stale, asserted>>

-----------------------------------------------------------------------------
(* The binary search of _insert_name and skynet_handle_findname over the   *)
(* array positions begin .. end: where x is, or where it belongs.          *)
BinarySearch(x) ==
  LET n == Len(name)
      search[range \in (0 .. n) \X (-1 .. n - 1)] ==
        LET begin == range[1]
            end   == range[2]
            mid   == (begin + end) \div 2
        IN  IF begin > end THEN [found |-> FALSE, at |-> begin]
            ELSE IF name[mid + 1].name = x THEN [found |-> TRUE, at |-> mid]
            ELSE IF name[mid + 1].name < x THEN search[<<mid + 1, end>>]
            ELSE search[<<begin, mid - 1>>]
  IN  search[<<0, n - 1>>]

skynet_handle_findname(x) ==
  LET r == BinarySearch(x)
  IN  IF r.found THEN name[r.at + 1].handle ELSE 0

(* Mutant: a new name goes to the end of the array. *)
skynet_handle_namehandle_append(h, x) ==
  /\ ~asserted
  /\ ~BinarySearch(x).found
  /\ name' = Append(name, [name |-> x, handle |-> h])
  /\ UNCHANGED <<table, handle, pending, stale, asserted, sweep>>

(* skynet_handle_namehandle: insert before the position found, unless the  *)
(* name is taken.  Nothing checks that the handle is registered: a service *)
(* killed during its callback may still name itself.                       *)
skynet_handle_namehandle(h, x) ==
  LET r == BinarySearch(x)
  IN  /\ ~asserted
      /\ ~r.found
      /\ name' = InsertAt(name, r.at + 1, [name |-> x, handle |-> h])
      /\ UNCHANGED <<table, handle, pending, stale, asserted, sweep>>

Next ==
  \/ \E c \in Ctx : skynet_handle_register(c) \/ StoreHandle(c)
  \/ \E c \in Running : skynet_handle_retire(handle[c])
  \/ \E c \in Running, x \in Name : skynet_handle_namehandle(handle[c], x)
  \/ \E x \in Name : stale # 0 /\ skynet_handle_namehandle(stale, x)
  \/ RetireAllBegins
  \/ RetireAllReads
  \/ RetireAllRetires
  \/ RetireAllEnds

Spec == Init /\ [][Next]_vars

-----------------------------------------------------------------------------
(* The handle storage is well formed. *)
TypeOK ==
  /\ slot_size \in DEFAULT_SLOT_SIZE .. HANDLE_SPACE
  /\ slot \in [0 .. slot_size - 1 -> Ctx \cup {NULL}]
  /\ handle_index \in 1 .. HANDLE_SPACE
  /\ handle \in [Ctx -> 0 .. 2 * HANDLE_SPACE - 1]
  /\ DOMAIN pending \subseteq Registered
  /\ stale \in 0 .. 2 * HANDLE_SPACE - 1
  /\ asserted \in BOOLEAN
  /\ sweep.must \subseteq Ctx

(* skynet_handle_grab finds every launched service by its handle, through  *)
(* every growth of the table and every wrap of the handle index; so no two *)
(* live services share a handle.                                           *)
Findable == TypeOK /\ \A c \in Running : Lookup(handle[c]) = c

(* The names stay sorted without duplicates, so that                       *)
(* skynet_handle_findname's binary search finds exactly the names that     *)
(* were given.                                                             *)
NamesFound ==
  \A x \in Name :
    skynet_handle_findname(x) =
      IF \E i \in DOMAIN name : name[i].name = x
      THEN name[CHOOSE i \in DOMAIN name : name[i].name = x].handle
      ELSE 0

(* skynet_handle_retireall ends only when every service that was running   *)
(* when its last pass began (so every one that was running at the start)   *)
(* has been retired, whatever is launched meanwhile and wherever a growth  *)
(* of the table moves what it has not seen yet.                            *)
RetireAllSweeps == sweep.at = "done" => sweep.must = {}

(* assert(new_slot[hash] == NULL) in skynet_handle_register never fails.   *)
RehashNeverCollides == ~asserted
=============================================================================
