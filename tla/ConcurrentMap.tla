----------------------------- MODULE ConcurrentMap -----------------------------
(***************************************************************************)
(* mapWithConcurrency: a pool of workers that take items off one cursor.   *)
(* A map is a value: what is in flight, where the cursor stands, and how   *)
(* the promise the caller waits for has settled.                           *)
(***************************************************************************)
EXTENDS Integers

NotCalled == [size |-> 0, cursor |-> 1, flying |-> {}, promise |-> "none"]

\* Every worker runs up to its first await before the call returns.
Called(size, limit) ==
  LET asked   == IF limit < size THEN limit ELSE size
      workers == IF asked < 1 THEN 1 ELSE asked
  IN  [size |-> size, cursor |-> workers + 1, flying |-> 1 .. (IF workers < size THEN workers ELSE size),
       promise |-> IF size = 0 THEN "resolved" ELSE "pending"]

\* A worker whose task is done takes the next item, whatever has become of the
\* promise; the last one to find none resolves it.
TaskDone(map, i) ==
  LET rest == (map.flying \ {i}) \cup ({map.cursor} \cap 1 .. map.size)
  IN  [map EXCEPT !.cursor = @ + 1, !.flying = rest,
                  !.promise = IF rest = {} /\ @ = "pending" THEN "resolved" ELSE @]

MutantUnheard(map, i) ==  \* the last worker's failure is told to none
  [map EXCEPT !.flying = @ \ {i}, !.promise = IF map.flying = {i} THEN @ ELSE "rejected"]

\* A worker whose task fails ends; the first one rejects the promise.
TaskFailed(map, i) ==
  [map EXCEPT !.flying = @ \ {i}, !.promise = "rejected"]
=============================================================================
