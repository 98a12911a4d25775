---------------------------- MODULE CluckBakery ----------------------------
(***************************************************************************)
(* Clients lock one object through the elected leaders: the handlers of    *)
(* daemon/cluckd.cpp that carry Lamport's bakery algorithm, between a      *)
(* fixed set of leaders, with the clients (cluck/cluck.cpp) around them.   *)
(*                                                                         *)
(* Two daemons talk over one connection, so their messages arrive in the   *)
(* order they were sent, and so do those of a daemon and a client; nothing *)
(* orders the messages of different senders.                               *)
(***************************************************************************)
EXTENDS CluckTicket

CONSTANTS
  Obtention,     \* how long a client waits for the lock
  UnlockWait,    \* how long a client waits for an UNLOCKED (5 s in the code)
  MaxEntering,   \* CLUCK_MAXIMUM_ENTERING_LOCKS
  CheckAlive,    \* whether LOCK messages come with a serial number (they do from cluck::lock())
  Local,         \* Local[c]: the daemons the messages of client c may come to
  Cancels,       \* whether a client may give up before it has the lock
  MaxTries,      \* bound: the LOCK messages of one client
  MaxTime        \* bound: the last date

ASSUME BakeryAssumption ==
  /\ Obtention \in Nat \ {0} /\ UnlockWait \in Nat \ {0}
  /\ MaxEntering \in Nat /\ MaxTries \in Nat /\ MaxTime \in Nat
  /\ CheckAlive \in BOOLEAN /\ Cancels \in BOOLEAN
  /\ Local \in [Client -> SUBSET Leader]

VARIABLES
  running,   \* the leaders that did not stop on an exception
  tickets,   \* tickets[l]: the tickets known to leader l
  net,       \* net[n][l]: the messages on their way from n to leader l
  mail,      \* mail[c][l]: the messages on their way from leader l to client c
  client,    \* client[c]: the cluck object of client c
  view       \* view[l]: what leader l knows of the cluster, which never changes here

vars == <<now, running, tickets, net, mail, client, view>>

Node == Leader \cup Client

ClientState ==
  [state    : {"IDLE", "LOCKING", "LOCKED", "UNLOCKING"},  \* f_state
   lockDate : Nat,     \* f_lock_timeout_date
   overDate : Nat,     \* f_unlocked_timeout_date
   timer    : Nat,     \* the date process_timeout() is called, 0 when disabled
   tries    : Nat]     \* how often lock() was called

\* cluck::is_locked()
IsLocked(c) == client[c].state = "LOCKED" /\ client[c].lockDate > now

TypeOK ==
  /\ now \in Nat
  /\ running \subseteq Leader
  /\ tickets \in [Leader -> SUBSET Ticket]
  /\ net \in [Node -> [Leader -> Seq(Message)]]
  /\ mail \in [Client -> [Leader -> Seq(Notice)]]
  /\ client \in [Client -> ClientState]
  /\ view = [l \in Leader |-> Whole(l)]

Init ==
  /\ now = 1
  /\ running = Leader
  /\ tickets = [l \in Leader |-> {}]
  /\ net = [n \in Node |-> [l \in Leader |-> <<>>]]
  /\ mail = [c \in Client |-> [l \in Leader |-> <<>>]]
  /\ client = [c \in Client |->
       [state |-> "IDLE", lockDate |-> 0, overDate |-> 0, timer |-> 0, tries |-> 0]]
  /\ view = [l \in Leader |-> Whole(l)]

-----------------------------------------------------------------------------
(* How a leader runs a handler.                                            *)

Arrived(s, l, type) ==
  /\ l \in running
  /\ net[s][l] # <<>>
  /\ Head(net[s][l]).type = type

Received(s, l) == Head(net[s][l])
Here(l) == Start(l, view[l], tickets[l])
Delivered(l, D) == [c \in Client |-> [mail[c] EXCEPT ![l] = @ \o D.mail[c]]]

\* An exception ends the process: main() catches it, logs it and returns 1, and what the
\* handler wrote to its connection goes with it.
Stop(s, l) ==
  /\ running' = running \ {l}
  /\ net' = [net EXCEPT ![s][l] = Tail(@)]
  /\ UNCHANGED <<now, tickets, mail, client, view>>

\* Leader l leaves the handler of a message of s with the context D.
Leave(s, l, D) ==
  /\ tickets' = [tickets EXCEPT ![l] = D.tickets]
  /\ net' = [n \in Node |-> [d \in Leader |->
               IF n = s /\ d = l THEN Tail(net[n][d])
               ELSE IF n = l THEN net[n][d] \o D.out[d] ELSE net[n][d]]]
  /\ mail' = Delivered(l, D)
  /\ UNCHANGED <<now, running, client>>

Return(s, l, D) == Leave(s, l, D) /\ UNCHANGED view
Done(s, l, D) == IF D.stopped THEN Stop(s, l) ELSE Return(s, l, D)

-----------------------------------------------------------------------------
(* Requests of clients.                                                    *)

\* A LOCK that is refused or repeated: late, known already, or one too many.
Known(D, c) == EnteringOf(D, c) # {} \/ ListedOf(D, c) # {}
TooMany(D) == Cardinality({t \in D.tickets : t.entering}) >= MaxEntering
Refused(D, m) == m.value <= now \/ Known(D, m.key.client) \/ TooMany(D)

\* What cluckd::msg_lock() makes of the LOCK m in a leader; a serial number in the message may
\* happen to be the one of the ticket.
Locking(D, m, serial) ==
  LET c == m.key.client
      t == NewTicket(c, D.me, m.value)
      limit == IF now + AliveTimeout < m.value THEN now + AliveTimeout ELSE m.value
      waiting == [t EXCEPT !.alive = limit]
  IN  IF Refused(D, m)
      THEN {TellClient(D, c, Note("LOCK_FAILED"))}
             \cup (IF serial /\ m.value > now /\ EnteringOf(D, c) # {} THEN {D} ELSE {})
      ELSE IF serial
      THEN {Cleanup(TellClient([D EXCEPT !.tickets = @ \cup {waiting}], c, Note("ALIVE")))}
      ELSE IF EnterOverflows(D, t) THEN {Halt(D)}
      ELSE {Cleanup(Enter([D EXCEPT !.tickets = @ \cup {t}], t))}

MsgLock(s, l) ==
  /\ Arrived(s, l, "LOCK")
  /\ \E D \in Locking(Cleanup(Here(l)), Received(s, l), CheckAlive) : Done(s, l, D)

\* The client lives: set_alive_timeout(0), which whoever waits for the ticket sees as well.
MsgAbsolutely(s, l) ==
  /\ Arrived(s, l, "ABSOLUTELY")
  /\ LET c == Received(s, l).key.client
         D == Here(l)
         t == One(EnteringOf(D, c))
         u == [t EXCEPT !.alive = 0]
         old == [client |-> c, until |-> CurrentDate(t)]
         seen(v) == [v EXCEPT !.still =
                       {IF p = old THEN [p EXCEPT !.until = CurrentDate(u)] ELSE p : p \in @}]
         E == [D EXCEPT !.tickets = {seen(v) : v \in (@ \ {t}) \cup {u}}]
     IN  IF EnteringOf(D, c) = {} THEN Done(s, l, D)
         ELSE IF EnterOverflows(E, u) THEN Stop(s, l)
         ELSE Done(s, l, Enter(E, seen(u)))

\* Only f_tickets is searched: a ticket that is still entering stays.
MsgUnlock(s, l) ==
  /\ Arrived(s, l, "UNLOCK")
  /\ LET c == Received(s, l).key.client
         D == Here(l)
         t == First(ListedOf(D, c))
         gone == [t EXCEPT !.listed = FALSE, !.failed = IF @ = "NONE" THEN "UNLOCKING" ELSE @]
     IN  Done(s, l, Cleanup(IF ListedOf(D, c) = {} THEN D
                            ELSE ActivateFirstLock(Update(DropTicket(D, t), t, gone))))

-----------------------------------------------------------------------------
(* The bakery between the leaders.                                         *)

Reply(D, s, m) == Tell(D, s, m)

\* Too late, or to a daemon without enough leaders: no ticket and no answer.
MsgLockEntering(s, l) ==
  /\ Arrived(s, l, "LOCK_ENTERING")
  /\ LET m == Received(s, l)
         c == m.key.client
         D == Here(l)
         E == IF EnteringOf(D, c) # {} THEN D
              ELSE [D EXCEPT !.tickets = @ \cup {NewTicket(c, s, m.value)}]
     IN  Done(s, l, IF m.value <= now \/ ~D.view.ready THEN D
                    ELSE Cleanup(Reply(E, s, Msg("LOCK_ENTERED", m.key))))

MsgLockEntered(s, l) ==
  /\ Arrived(s, l, "LOCK_ENTERED")
  /\ LET D == Here(l)
         S == EnteringOf(D, Received(s, l).key.client)
     IN  Done(s, l, IF S = {} THEN D ELSE Entered(D, One(S)))

MsgGetMaxTicket(s, l) ==
  /\ Arrived(s, l, "GET_MAX_TICKET")
  /\ LET D == Cleanup(Here(l))
     IN  Done(s, l, Reply(D, s, [Msg("MAX_TICKET", Received(s, l).key) EXCEPT !.value = LastTicket(D)]))

MsgMaxTicket(s, l) ==
  /\ Arrived(s, l, "MAX_TICKET")
  /\ LET m == Received(s, l)
         D == Here(l)
         S == EnteringOf(D, m.key.client)
     IN  IF S = {} THEN Done(s, l, D)
         ELSE IF Overflows(One(S), m.value) THEN Stop(s, l)
         ELSE Done(s, l, MaxTicket(D, One(S), m.value))

\* set_ticket_number() throws on a ticket that has a number already
MsgAddTicket(s, l) ==
  /\ Arrived(s, l, "ADD_TICKET")
  /\ LET m == Received(s, l)
         D == Here(l)
         S == EnteringOf(D, m.key.client)
         t == One(S)
         u == Numbered(t, m.key.number)
     IN  IF ListedAs(D, m.key) # {} \/ S = {} THEN Done(s, l, Reply(D, s, Msg("LOCK_FAILED", m.key)))
         ELSE IF t.number # 0 \/ t.added THEN Stop(s, l)
         ELSE Done(s, l, Reply(Update(D, t, u), s, Msg("TICKET_ADDED", m.key)))

MsgTicketAdded(s, l) ==
  /\ Arrived(s, l, "TICKET_ADDED")
  /\ LET D == Here(l)
         S == ListedAs(D, Received(s, l).key)
     IN  Done(s, l, IF S = {} \/ \A t \in D.tickets : ~t.entering THEN D
                    ELSE TicketAdded(D, One(S)))

MsgLockExiting(s, l) ==
  /\ Arrived(s, l, "LOCK_EXITING")
  /\ Done(s, l, LockExiting(Here(l), Received(s, l).key.client))

MsgTicketReady(s, l) ==
  /\ Arrived(s, l, "TICKET_READY")
  /\ LET D == Here(l)
         S == ListedAs(D, Received(s, l).key)
         t == One(S)
     IN  Done(s, l, IF S = {} THEN D ELSE Update(D, t, [t EXCEPT !.ready = TRUE]))

\* Fault: the ticket is not compared with the first one.
MsgActivateLockUnchecked(s, l) ==
  /\ Arrived(s, l, "ACTIVATE_LOCK")
  /\ LET k == Received(s, l).key
         D == ExpireListed(Here(l))
         S == ListedAs(D, k)
         E == IF S = {} THEN D ELSE LockActivated(D, One(S))
     IN  Done(s, l, Cleanup(Reply(E, s, [Msg("LOCK_ACTIVATED", k) EXCEPT !.other = k])))

\* Always answered, with the key of the ticket that comes first here.
MsgActivateLock(s, l) ==
  /\ Arrived(s, l, "ACTIVATE_LOCK")
  /\ LET k == Received(s, l).key
         D == ExpireListed(Here(l))
         none == Listed(D) = {}
         first == IF none THEN NoKey ELSE KeyOf(First(Listed(D)))
         E == IF ~none /\ first = k THEN LockActivated(D, First(Listed(D))) ELSE D
     IN  Done(s, l, Cleanup(Reply(E, s, [Msg("LOCK_ACTIVATED", k) EXCEPT !.other = first])))

MsgLockActivated(s, l) ==
  /\ Arrived(s, l, "LOCK_ACTIVATED")
  /\ LET m == Received(s, l)
         D == Here(l)
         S == ListedAs(D, m.key)
     IN  Done(s, l, IF m.other # m.key \/ S = {} THEN D ELSE LockActivated(D, One(S)))

MsgDropTicket(s, l) ==
  /\ Arrived(s, l, "DROP_TICKET")
  /\ LET k == Received(s, l).key
         D == Here(l)
         dropped == Alive({IF t.listed /\ KeyOf(t) = k THEN [t EXCEPT !.listed = FALSE] ELSE t :
                             t \in D.tickets})
         E == IF Listed(D) = {} THEN D ELSE ActivateFirstLock([D EXCEPT !.tickets = dropped])
         left == Alive({IF t.client = k.client THEN [t EXCEPT !.entering = FALSE] ELSE t :
                          t \in E.tickets})
     IN  Done(s, l, Cleanup([E EXCEPT !.tickets = left]))

\* Another leader refused an ADD_TICKET: only the ticket itself goes, not its entering entry.
MsgLockFailed(s, l) ==
  /\ Arrived(s, l, "LOCK_FAILED")
  /\ LET D == Here(l)
         S == ListedAs(D, Received(s, l).key)
         t == One(S)
         E == TellClient(Update(D, t, [t EXCEPT !.listed = FALSE]), t.client, Note("LOCK_FAILED"))
     IN  Done(s, l, Cleanup(IF S = {} THEN D ELSE IF Listed(E) = {} THEN E
                            ELSE ActivateFirstLock(E)))

\* The timer goes off once a ticket is late.
Timer(l) ==
  /\ l \in running
  /\ \E t \in tickets[l] : TimedOut(t)
  /\ LET D == Cleanup(Here(l))
     IN  IF D.stopped
         THEN running' = running \ {l} /\ UNCHANGED <<now, tickets, net, mail, client, view>>
         ELSE /\ tickets' = [tickets EXCEPT ![l] = D.tickets]
              /\ net' = [net EXCEPT ![l] = [d \in Leader |-> @[d] \o D.out[d]]]
              /\ mail' = Delivered(l, D)
              /\ UNCHANGED <<now, running, client, view>>

-----------------------------------------------------------------------------
(* The clients.  A message to "cluckd" reaches the local daemon, which     *)
(* passes it on to one of the leaders when it is not a leader itself.      *)

Send(c, l, m) == net' = [net EXCEPT ![c][l] = Append(@, m)]
Become(c, state, timer) == client' = [client EXCEPT ![c].state = state, ![c].timer = timer]

\* cluck::lock()
Lock(c, l) ==
  /\ client[c].state = "IDLE" /\ client[c].tries < MaxTries /\ l \in Local[c]
  /\ client' = [client EXCEPT ![c].state = "LOCKING", ![c].timer = now + Obtention,
                              ![c].tries = @ + 1]
  /\ Send(c, l, [Msg("LOCK", EnteringKey(c)) EXCEPT !.value = now + Obtention])
  /\ UNCHANGED <<now, running, tickets, mail, view>>

\* cluck::unlock(), once it found the object locked or locking
SendUnlock(c, l) ==
  /\ client[c].state \in {"LOCKED", "LOCKING"} /\ l \in Local[c]
  /\ client' = [client EXCEPT ![c].state = "UNLOCKING", ![c].timer = now + UnlockWait,
                              ![c].lockDate = 0]
  /\ Send(c, l, Msg("UNLOCK", EnteringKey(c)))

\* The user is done, or does not want to wait any longer.
Unlock(c, l) ==
  /\ client[c].state = "LOCKED" \/ Cancels
  /\ SendUnlock(c, l)
  /\ UNCHANGED <<now, running, tickets, mail, view>>

\* cluck::process_timeout()
ClientTimeout(c) ==
  /\ client[c].timer # 0 /\ client[c].timer <= now
  /\ \/ client[c].state = "LOCKED" /\ \E l \in Leader : SendUnlock(c, l)
     \/ client[c].state \in {"LOCKING", "UNLOCKING"} /\ Become(c, "IDLE", 0) /\ UNCHANGED net
  /\ UNCHANGED <<now, running, tickets, mail, view>>

Hears(c, l, type) ==
  /\ mail[c][l] # <<>> /\ Head(mail[c][l]).type = type
  /\ mail' = [mail EXCEPT ![c][l] = Tail(@)]
  /\ UNCHANGED <<now, running, tickets, view>>

\* Without a lock in progress the object listens to nothing.
Deaf(c, l) ==
  /\ client[c].state = "IDLE"
  /\ \E type \in {"LOCKED", "LOCK_FAILED", "UNLOCKED", "UNLOCKING"} : Hears(c, l, type)
  /\ UNCHANGED <<net, client>>

\* The dispatcher answers in the place of the object, whatever its state.
HearAlive(c, l) ==
  /\ Hears(c, l, "ALIVE")
  /\ Send(c, l, Msg("ABSOLUTELY", EnteringKey(c)))
  /\ UNCHANGED client

\* Fault: the object still listens once it gave up.
HearLockedAlways(c, l) ==
  /\ Hears(c, l, "LOCKED")
  /\ LET date == Head(mail[c][l]).date
     IN  client' = [client EXCEPT ![c].state = "LOCKED", ![c].timer = date,
                                  ![c].lockDate = date, ![c].overDate = date + UnlockDuration]
  /\ UNCHANGED net

\* Whatever the object is waiting for.
HearLocked(c, l) ==
  /\ client[c].state # "IDLE"
  /\ Hears(c, l, "LOCKED")
  /\ LET date == Head(mail[c][l]).date
     IN  client' = [client EXCEPT ![c].state = "LOCKED", ![c].timer = date,
                                  ![c].lockDate = date, ![c].overDate = date + UnlockDuration]
  /\ UNCHANGED net

HearLockFailed(c, l) ==
  /\ client[c].state # "IDLE"
  /\ Hears(c, l, "LOCK_FAILED")
  /\ Become(c, "IDLE", 0)
  /\ UNCHANGED net

HearUnlocked(c, l) ==
  /\ client[c].state # "IDLE"
  /\ Hears(c, l, "UNLOCKED")
  /\ Become(c, "IDLE", 0)
  /\ UNCHANGED net

\* The object gives its lock up, on pain of losing it.
HearUnlocking(c, l) ==
  /\ client[c].state # "IDLE"
  /\ Hears(c, l, "UNLOCKING")
  /\ \/ /\ now >= client[c].overDate
        /\ Become(c, "IDLE", 0) /\ UNCHANGED net
     \/ /\ now < client[c].overDate /\ client[c].state = "UNLOCKING"
        /\ UNCHANGED <<net, client>>
     \/ /\ now < client[c].overDate
        /\ \E d \in Leader : SendUnlock(c, d)

Tick ==
  /\ now < MaxTime
  /\ now' = now + 1
  /\ UNCHANGED <<running, tickets, net, mail, client, view>>

-----------------------------------------------------------------------------
Handle(s, l) ==
  \/ MsgLock(s, l) \/ MsgAbsolutely(s, l) \/ MsgUnlock(s, l)
  \/ MsgLockEntering(s, l) \/ MsgLockEntered(s, l)
  \/ MsgGetMaxTicket(s, l) \/ MsgMaxTicket(s, l)
  \/ MsgAddTicket(s, l) \/ MsgTicketAdded(s, l)
  \/ MsgLockExiting(s, l) \/ MsgTicketReady(s, l)
  \/ MsgActivateLock(s, l) \/ MsgLockActivated(s, l)
  \/ MsgDropTicket(s, l) \/ MsgLockFailed(s, l)

Hear(c, l) ==
  \/ Deaf(c, l) \/ HearAlive(c, l) \/ HearLocked(c, l)
  \/ HearLockFailed(c, l) \/ HearUnlocked(c, l) \/ HearUnlocking(c, l)

Next ==
  \/ \E s \in Node, l \in Leader : Handle(s, l)
  \/ \E l \in Leader : Timer(l)
  \/ \E c \in Client, l \in Leader : Lock(c, l) \/ Unlock(c, l) \/ Hear(c, l)
  \/ \E c \in Client : ClientTimeout(c)
  \/ Tick

Spec == Init /\ [][Next]_vars

\* The daemons read what they get, the clients too, and whoever has the lock gives it up.
\* A handler is enabled by the message that waits for it and by nothing else, so weak fairness
\* is spelled out: as long as there is work, some of it gets done.
Work ==
  \/ \E s \in Node, l \in running : net[s][l] # <<>>
  \/ \E c \in Client, l \in Leader : mail[c][l] # <<>>
  \/ \E c \in Client : client[c].state = "LOCKED"

WorkDone ==
  \/ \E s \in Node, l \in Leader : Len(net'[s][l]) < Len(net[s][l])
  \/ \E c \in Client, l \in Leader : Len(mail'[c][l]) < Len(mail[c][l])
  \/ \E c \in Client : client[c].state = "LOCKED" /\ client'[c].state = "UNLOCKING"

FairSpec == Spec /\ ([]<>~Work \/ []<><<WorkDone>>_vars)

-----------------------------------------------------------------------------
(* Safety.                                                                 *)

\* Two processes never believe at the same time that they have the lock
\* ("a single process running in a computer cluster of any size").
MutualExclusion == \A c, d \in Client : IsLocked(c) /\ IsLocked(d) => c = d

\* No leader's table ever holds two locked tickets: activate_first_lock() grants the
\* first ticket, and nothing may get before a ticket that is locked.
OneGrant ==
  \A l \in Leader : \A t, u \in tickets[l] :
    t.listed /\ t.locked /\ u.listed /\ u.locked => t = u

\* The lock goes to the smallest ticket of the whole cluster: the owner of a ticket grants it
\* by looking at its own table, yet no table has another client's ticket that comes before.
InTurn ==
  \A l \in Leader : \A t \in tickets[l] : t.owner = l /\ t.listed /\ t.locked =>
    \A d \in Leader : \A u \in tickets[d] :
      u.listed /\ u.client # t.client => Before(KeyOf(t), KeyOf(u))

\* A ticket that is not ready waits for at least one ticket that is still entering: a ticket
\* that left f_entering_tickets for good never holds anybody up.
NobodyWaitsForAGhost ==
  \A l \in Leader : \A t \in tickets[l] : t.listed /\ t.quorum /\ ~t.ready =>
    \E p \in t.still : EnteringOf(Here(l), p.client) # {}

Settled ==
  /\ \A n \in Node, l \in Leader : net[n][l] = <<>>
  /\ \A c \in Client, l \in Leader : mail[c][l] = <<>>

\* Once all messages are read, no leader keeps a ticket of a client that has no use for it:
\* what one leader erased (UNLOCK, DROP_TICKET, LOCK_EXITING), all did.
NothingLeft ==
  Settled => \A l \in Leader : \A t \in tickets[l] : client[t.client].state # "IDLE"

\* The exceptions of ticket.cpp never stop a daemon: no ticket gets two numbers
\* (set_ticket_number()), no number wraps around (max_ticket()).
LeadersKeepRunning == running = Leader

-----------------------------------------------------------------------------
(* Liveness and refinement.                                                *)

\* A client that waits for the lock gets it or is told that it does not.
Answered == \A c \in Client : client[c].state = "LOCKING" ~> client[c].state \in {"LOCKED", "IDLE"}

\* A client that waits for the lock gets it.
Served == \A c \in Client : client[c].state = "LOCKING" ~> client[c].state = "LOCKED"

Phase(c) ==
  IF client[c].state = "LOCKING" THEN "waiting" ELSE IF IsLocked(c) THEN "holding" ELSE "idle"
Abstract == INSTANCE CluckLock WITH phase <- [c \in Client |-> Phase(c)]

\* What the clients see of the daemons, tickets and messages is the lock of CluckLock:
\* it is only given to who asked for it and has not given up, and to one at a time.
ImplementsLock == Abstract!Spec
=============================================================================
