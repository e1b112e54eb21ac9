------------------------------ MODULE GoRWMutex ------------------------------
(***************************************************************************)
(* The sync.RWMutex of the Go library, as far as its users in this project *)
(* can tell: a value with the goroutine that holds or has announced the    *)
(* write lock and the goroutines that hold the read lock.  Lock() first    *)
(* announces the writer, which already turns new readers away, and returns *)
(* once the readers that were inside have left; RLock() returns only while *)
(* no writer is announced.  Two writers wait for each other to announce.   *)
(***************************************************************************)
CONSTANT NoOne      (* the value of "writer" when no goroutine wants to write *)

RWMutex(goroutines) == [writer: goroutines \cup {NoOne}, readers: SUBSET goroutines]

Unlocked == [writer |-> NoOne, readers |-> {}]

(* RLock() can return, and Lock() can announce its caller. *)
NoWriter(mu) == mu.writer = NoOne

(* Lock() has returned to g: no reader is left inside. *)
WriteLocked(mu, g) == mu.writer = g /\ mu.readers = {}

Announced(mu, g)    == [mu EXCEPT !.writer = g]
Released(mu)        == [mu EXCEPT !.writer = NoOne]
ReadLocked(mu, g)   == [mu EXCEPT !.readers = @ \cup {g}]
ReadReleased(mu, g) == [mu EXCEPT !.readers = @ \ {g}]
=============================================================================
