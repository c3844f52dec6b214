------------------------------ MODULE ViewMemory ------------------------------
(***************************************************************************)
(* The part of the Rust (C++20) memory model that the lock-free code of    *)
(* the `sync' crate relies on, as a view machine.                          *)
(*                                                                         *)
(* Every shared location of that code is stored to by ONE thread (the      *)
(* single writer of a SeqLock, the one Producer of a ring, which in the    *)
(* engine are the same thread) and only loaded by the others.  In that     *)
(* case the axiomatic model is exactly this operational one:               *)
(*                                                                         *)
(*   - mem[l] is the modification order of location l: the sequence of the *)
(*     stores made to it, each a message [val, view];                      *)
(*   - a view maps each location to the earliest index of its modification *)
(*     order that may still be read (coherence and happens-before);        *)
(*   - the view of a message is what a thread that ACQUIRES it learns: all *)
(*     the writer had stored before a Release store; for a Relaxed store,  *)
(*     all it had stored before its last release fence;                    *)
(*   - a reader thread is [cur, acq]: cur bounds what it may load, acq     *)
(*     what its next acquire fence will add to cur.                        *)
(*                                                                         *)
(* StaleReads = FALSE restricts every load to the newest store: the        *)
(* sequentially consistent machine, which for one storing thread and       *)
(* load-only readers is also what x86-TSO shows the readers.               *)
(***************************************************************************)
EXTENDS Naturals, Sequences

CONSTANTS Loc,         \* the shared atomics
          StaleReads   \* TRUE: any load the memory model allows

View    == [Loc -> Nat \ {0}]
Message == [val : Nat, view : View]
Memory  == [Loc -> Seq(Message)]
Thread  == [cur : View, acq : View]

JoinViews(v, u) == [l \in Loc |-> IF v[l] >= u[l] THEN v[l] ELSE u[l]]

\* The view of the only storing thread: everything stored so far.
Stored(mem) == [l \in Loc |-> Len(mem[l])]

\* The first message of a location, visible to every thread.
Fresh(v) == <<[val |-> v, view |-> [l \in Loc |-> 1]]>>

OriginView == [l \in Loc |-> 1]

OriginThread == [cur |-> OriginView, acq |-> OriginView]

\* The latest value of l, what the storing thread itself loads.
Latest(mem, l) == mem[l][Len(mem[l])].val

\* Append a store to l whose message carries the view `released'.
Put(mem, l, v, released) ==
  [mem EXCEPT ![l] =
     Append(@, [val |-> v, view |-> [released EXCEPT ![l] = Len(mem[l]) + 1]])]

StoreRelease(mem, l, v) == Put(mem, l, v, Stored(mem))

StoreRelaxed(mem, l, v, fenced) == Put(mem, l, v, fenced)

\* The messages of l that thread t may load now.
Visible(mem, t, l) ==
  {i \in t.cur[l] .. Len(mem[l]) : StaleReads \/ i = Len(mem[l])}

\* Thread t after a Relaxed, or an Acquire, load of message i of l.
LoadRelaxed(mem, t, l, i) ==
  [cur |-> [t.cur EXCEPT ![l] = i],
   acq |-> JoinViews(t.acq, mem[l][i].view)]

LoadAcquire(mem, t, l, i) ==
  [cur |-> JoinViews(t.cur, mem[l][i].view),
   acq |-> JoinViews(t.acq, mem[l][i].view)]

FenceAcquire(t) == [t EXCEPT !.cur = t.acq]
===============================================================================
