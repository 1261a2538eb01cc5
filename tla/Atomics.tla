------------------------------ MODULE Atomics ------------------------------
(***************************************************************************)
(* One std::atomic<size_t> under the release/acquire fragment of the C++   *)
(* memory model, as the queues of core/distribution/lockfree_queue.hpp use *)
(* it.  A location is its modification order: the sequence of all stores   *)
(* made to it, each with the value stored and whether it was a release     *)
(* store.  A thread keeps a view of a location, the position of the newest *)
(* store it has read; coherence lets a later load return that store or any *)
(* later one, so a load may be stale but never goes back.  Reading a       *)
(* release store with an acquire load makes everything the storing thread  *)
(* did before the store happen before what the loading thread does next.   *)
(***************************************************************************)
EXTENDS Naturals, Sequences

Orders == {"relaxed", "acquire", "release"}

Location == Seq([val : Nat, rel : BOOLEAN])

(***************************************************************************)
(* The constructor's store.  Threads that use the object are created       *)
(* later, which orders the initialisation before all they do.              *)
(***************************************************************************)
Initialised(v) == << [val |-> v, rel |-> TRUE] >>

Store(loc, v, order) == Append(loc, [val |-> v, rel |-> (order = "release")])

(***************************************************************************)
(* The value a thread reads from a location that it alone writes: its own  *)
(* last store, whatever the order of the load.                             *)
(***************************************************************************)
Newest(loc) == loc[Len(loc)].val

(***************************************************************************)
(* The positions of the modification order a load may return.              *)
(***************************************************************************)
Readable(loc, view) == view .. Len(loc)

(***************************************************************************)
(* What a thread has acquired (the position up to which the stores of the  *)
(* location are known to happen before it) after loading position k.       *)
(***************************************************************************)
Acquired(loc, k, order, acq) ==
  IF order = "acquire" /\ loc[k].rel THEN k ELSE acq
=============================================================================
