----------------------------- MODULE CluckLock -----------------------------
(***************************************************************************)
(* What a cluster lock promises to the processes that use one object:      *)
(* "by a single process running in a computer cluster of any size"         *)
(* (cluck/cluck.cpp, the documentation of the class).  Nothing is said     *)
(* here of leaders, tickets, messages or dates.                            *)
(***************************************************************************)

CONSTANT Client

VARIABLE phase   \* phase[c]: what client c does with the object

TypeOK == phase \in [Client -> {"idle", "waiting", "holding"}]

Init == phase = [c \in Client |-> "idle"]

Free == \A c \in Client : phase[c] # "holding"

Enters(c, from, to) == phase[c] = from /\ phase' = [phase EXCEPT ![c] = to]

\* lock()
Ask(c) == Enters(c, "idle", "waiting")

\* Whoever asked may get the lock, as long as nobody has it.
Grant(c) == Free /\ Enters(c, "waiting", "holding")

\* The lock is refused, it is not obtained in time, or the client changes its mind.
GiveUp(c) == Enters(c, "waiting", "idle")

\* unlock(), or the lock lasted too long
Release(c) == Enters(c, "holding", "idle")

Next == \E c \in Client : Ask(c) \/ Grant(c) \/ GiveUp(c) \/ Release(c)

Spec == Init /\ [][Next]_phase
=============================================================================
