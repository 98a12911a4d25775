---------------------------- MODULE CluckTicket ----------------------------
(***************************************************************************)
(* The tickets of one lockable object, as one leader keeps them            *)
(* (daemon/ticket.cpp and the ticket tables of daemon/cluckd.cpp).         *)
(*                                                                         *)
(* In the code a ticket is a shared object found through two maps,         *)
(* f_entering_tickets (by entering key) and f_tickets (by ticket key).     *)
(* Here it is a record of a set, with a flag for each map that holds it;   *)
(* a record in neither map is gone.                                        *)
(*                                                                         *)
(* A handler runs to its end before the daemon reads another message, so   *)
(* what it does is an operator from the daemon's context to a new one: the *)
(* leader, what it knows of the others, its tickets, what it sends to the  *)
(* other leaders and to the clients, and whether an exception stopped it.  *)
(***************************************************************************)
EXTENDS Naturals, Sequences, FiniteSets, SequencesExt

CONSTANTS
  Leader,         \* the elected leaders: one to three daemons
  Client,         \* the processes that ask for the lock, named by their entering key
  MaxNumber,      \* the largest value of a ticket_id_t (2^32 - 1 in the code)
  Duration,       \* how long a lock lasts once obtained
  UnlockDuration, \* how much longer a late client has to acknowledge an UNLOCKING
  AliveTimeout    \* how long a client has to answer an ALIVE

ASSUME LeaderAssumption == IsFiniteSet(Leader) /\ Leader # {}
ASSUME ClientAssumption == IsFiniteSet(Client) /\ Client \subseteq Nat \ {0}
ASSUME DisjointAssumption == Leader \cap Client = {}
ASSUME NumberAssumption ==
  /\ MaxNumber \in Nat \ {0}
  /\ Duration \in Nat \ {0}
  /\ UnlockDuration \in Nat \ {0}
  /\ AliveTimeout \in Nat \ {0}

VARIABLE now      \* the date, the same on all computers (the daemons wait for a stable clock)

-----------------------------------------------------------------------------
(* Keys: an entering key names the client, a ticket key adds the number.   *)

Number == 0..MaxNumber
Key == [number : Number, client : Client]
EnteringKey(c) == [number |-> 0, client |-> c]
NoKey == [number |-> 0, client |-> 0]

\* f_tickets is sorted by ticket key: the number in eight digits, then the client.
Before(k1, k2) ==
  \/ k1.number < k2.number
  \/ k1.number = k2.number /\ k1.client < k2.client

Pending == [client : Client, until : Nat]   \* an entry of f_still_entering

Ticket ==
  [client    : Client,          \* f_entering_key
   owner     : Leader,          \* f_owner
   number    : Number,          \* f_our_ticket, 0 being NO_TICKET
   rank      : Number,          \* the number in f_ticket_key, 0 as long as that is empty
   entering  : BOOLEAN,         \* in f_entering_tickets
   listed    : BOOLEAN,         \* in f_tickets
   maxAsked  : BOOLEAN,         \* f_get_max_ticket
   added     : BOOLEAN,         \* f_added_ticket
   quorum    : BOOLEAN,         \* f_added_ticket_quorum
   still     : SUBSET Pending,  \* f_still_entering
   ready     : BOOLEAN,         \* f_ticket_ready
   locked    : BOOLEAN,         \* f_locked
   failed    : {"NONE", "LOCK", "UNLOCKING"},  \* f_lock_failed
   obtention : Nat,             \* f_obtention_timeout
   alive     : Nat,             \* f_alive_timeout, 0 when not set
   lockDate  : Nat]             \* f_lock_timeout_date

NewTicket(c, owner, obtention) ==
  [client |-> c, owner |-> owner, number |-> 0, rank |-> 0, entering |-> TRUE,
   listed |-> FALSE, maxAsked |-> FALSE, added |-> FALSE, quorum |-> FALSE, still |-> {},
   ready |-> FALSE, locked |-> FALSE, failed |-> "NONE", obtention |-> obtention, alive |-> 0, lockDate |-> 0]

KeyOf(t) == [number |-> t.rank, client |-> t.client]

\* What the leaders and the clients send each other.
Message ==
  [type  : {"LOCK", "UNLOCK", "ABSOLUTELY", "LOCK_ENTERING", "LOCK_ENTERED", "GET_MAX_TICKET",
            "MAX_TICKET", "ADD_TICKET", "TICKET_ADDED", "LOCK_EXITING", "TICKET_READY",
            "ACTIVATE_LOCK", "LOCK_ACTIVATED", "DROP_TICKET", "LOCK_FAILED"},
   key   : Key,
   value : Nat,                 \* a timeout date or a ticket number
   other : Key \cup {NoKey}]    \* LOCK_ACTIVATED: the receiver's first ticket

Msg(type, key) == [type |-> type, key |-> key, value |-> 0, other |-> NoKey]

\* What a client hears from a leader; only a LOCKED has a date.
Notice ==
  [type : {"LOCKED", "LOCK_FAILED", "UNLOCKING", "UNLOCKED", "ALIVE"}, date : Nat]
Note(type) == [type |-> type, date |-> 0]

-----------------------------------------------------------------------------
(* The context of a handler.                                               *)

\* What a daemon knows of the cluster: that it is the only computer, that there are leaders,
\* enough of them for locks (is_daemon_ready()), and to which of them it sends what it has to tell.
View == [alone : BOOLEAN, elected : BOOLEAN, ready : BOOLEAN, others : SUBSET Leader]

\* The view of leader l as long as nothing happens to the leaders.
Whole(l) ==
  [alone |-> Cardinality(Leader) = 1, elected |-> TRUE, ready |-> TRUE, others |-> Leader \ {l}]

Context == [me : Leader, view : View, stopped : BOOLEAN, tickets : SUBSET Ticket,
            out : [Leader -> Seq(Message)], mail : [Client -> Seq(Notice)]]

Start(l, view, tickets) ==
  [me |-> l, view |-> view, stopped |-> FALSE, tickets |-> tickets,
   out |-> [d \in Leader |-> <<>>], mail |-> [c \in Client |-> <<>>]]

\* ticket::one_leader()
OneLeader(D) == D.view.alone

\* The end of the daemon: an exception that nobody catches on the way.
Halt(D) == [D EXCEPT !.stopped = TRUE]

Tell(D, d, m) == [D EXCEPT !.out[d] = Append(@, m)]
TellClient(D, c, n) == [D EXCEPT !.mail[c] = Append(@, n)]

\* ticket::send_message_to_leaders(): get_leader_a() throws as long as there are no leaders
SendAllToLeaders(D, s) ==
  [D EXCEPT !.stopped = @ \/ (s # <<>> /\ ~D.view.elected),
            !.out = [d \in Leader |-> IF d \in D.view.others THEN @[d] \o s ELSE @[d]]]
SendToLeaders(D, m) == SendAllToLeaders(D, <<m>>)

\* A ticket is kept as long as one of the two maps holds it.
Alive(S) == {t \in S : t.entering \/ t.listed}
Update(D, t, u) == [D EXCEPT !.tickets = Alive((@ \ {t}) \cup {u})]

EnteringOf(D, c) == {t \in D.tickets : t.entering /\ t.client = c}
ListedAs(D, k) == {t \in D.tickets : t.listed /\ KeyOf(t) = k}
ListedOf(D, c) == {t \in D.tickets : t.listed /\ t.client = c}
Listed(D) == {t \in D.tickets : t.listed}
One(S) == CHOOSE t \in S : TRUE
First(S) == CHOOSE t \in S : \A u \in S \ {t} : Before(KeyOf(t), KeyOf(u))

\* The largest ticket number of the object, 0 when it has none.
LastTicket(D) ==
  IF Listed(D) = {} THEN 0
  ELSE (CHOOSE t \in Listed(D) : \A u \in Listed(D) : u.number <= t.number).number

-----------------------------------------------------------------------------
(* Timeouts.                                                               *)

CurrentDate(t) ==
  IF t.alive > 0 THEN t.alive ELSE IF t.locked THEN t.lockDate ELSE t.obtention
TimedOut(t) == CurrentDate(t) <= now

\* ticket::lock_failed(): a locked ticket first gets the unlock duration as a respite.
Fail(t) ==
  CASE t.failed = "NONE" ->
         [t EXCEPT !.failed = "LOCK", !.lockDate = IF t.locked THEN @ + UnlockDuration ELSE @]
    [] t.failed = "LOCK" -> [t EXCEPT !.failed = "UNLOCKING"]
    [] OTHER -> t

\* What lock_failed() tells the client: only the owner of the ticket speaks.
FailNotice(me, t) ==
  IF t.owner # me THEN {}
  ELSE IF t.failed = "NONE" THEN
    {Note(IF ~t.locked THEN "LOCK_FAILED"
          ELSE IF TimedOut(Fail(t)) THEN "UNLOCKED" ELSE "UNLOCKING")}
  ELSE IF t.failed = "LOCK" /\ t.locked THEN {Note("UNLOCKED")} ELSE {}

Complaints(D, late) ==
  [c \in Client |->
     D.mail[c] \o SetToSeq(UNION {FailNotice(D.me, t) : t \in {u \in late : u.client = c}})]

\* Fail every late ticket of f_tickets and forget the ones that are late all the same.
ExpireListed(D) ==
  LET late == {t \in Listed(D) : TimedOut(t)}
  IN  [D EXCEPT !.tickets = Alive({IF t \in late
                                   THEN [Fail(t) EXCEPT !.listed = ~TimedOut(Fail(t))]
                                   ELSE t : t \in @}),
                !.mail = Complaints(D, late)]

\* The same for f_entering_tickets.
ExpireEntering(D) ==
  LET late == {t \in D.tickets : t.entering /\ TimedOut(t)}
  IN  [D EXCEPT !.tickets = Alive({IF t \in late
                                   THEN [Fail(t) EXCEPT !.entering = ~TimedOut(Fail(t))]
                                   ELSE t : t \in @}),
                !.mail = Complaints(D, late)]

-----------------------------------------------------------------------------
(* Activation.                                                             *)

\* ticket::lock_activated()
LockActivated(D, t) ==
  IF ~(t.ready /\ ~t.locked /\ t.failed = "NONE") THEN D
  ELSE LET u == [t EXCEPT !.locked = TRUE, !.lockDate = now + Duration]
           E == Update(D, t, u)
       IN  IF t.owner = D.me
           THEN TellClient(E, t.client, [Note("LOCKED") EXCEPT !.date = u.lockDate])
           ELSE E

\* ticket::activate_lock()
ActivateLock(D, t) ==
  IF ~(t.ready /\ ~t.locked /\ t.failed = "NONE") THEN D
  ELSE IF OneLeader(D) THEN LockActivated(D, t)
  ELSE SendToLeaders(D, Msg("ACTIVATE_LOCK", KeyOf(t)))

\* cluckd::activate_first_lock(), find_first_lock() included
ActivateFirstLock(D) ==
  LET E == ExpireListed(D)
  IN  IF Listed(E) = {} THEN E ELSE ActivateLock(E, First(Listed(E)))

\* cluckd::cleanup(), without the cache of early LOCK messages
Cleanup(D) ==
  LET E == ExpireListed(D)
      erased == \E t \in Listed(D) : TimedOut(t) /\ TimedOut(Fail(t))
  IN  ExpireEntering(IF erased THEN ActivateFirstLock(E) ELSE E)

-----------------------------------------------------------------------------
(* The way of a ticket through the bakery, on the leader that owns it.     *)
(* With a single leader each step goes on to the next one at once.         *)

\* ticket::remove_entering(): entries that timed out are dropped only when another one goes
Freed(t, c) == t.quorum /\ ~t.ready /\ \E p \in t.still : p.client = c
RemoveEntering(t, c) ==
  IF ~Freed(t, c) THEN t
  ELSE LET left == {p \in t.still : p.client # c /\ p.until > now}
       IN  [t EXCEPT !.still = left, !.ready = (left = {})]

\* Fault: the tickets that wait are not told that an entering ticket is gone.
LockExitingTellsNobody(D, c) ==
  LET left == Alive({IF t.client = c THEN [t EXCEPT !.entering = FALSE] ELSE t : t \in D.tickets})
  IN  Cleanup(ActivateFirstLock([D EXCEPT !.tickets = left]))

\* cluckd::msg_lock_exiting()
LockExiting(D, c) ==
  IF EnteringOf(D, c) = {} THEN Cleanup(D)
  ELSE
    LET t == One(EnteringOf(D, c))
        E == Update(D, t, [t EXCEPT !.entering = FALSE])
        freed == {u \in Listed(E) : Freed(u, c) /\ RemoveEntering(u, c).ready}
        F == [E EXCEPT !.tickets = {IF u.listed THEN RemoveEntering(u, c) ELSE u : u \in @}]
        G == SendAllToLeaders(F, SetToSeq({Msg("TICKET_READY", KeyOf(u)) : u \in freed}))
    IN  Cleanup(IF Listed(G) = {} THEN G ELSE ActivateFirstLock(G))

\* ticket::ticket_added(): from here on the ticket waits for the tickets now entering
TicketAdded(D, t) ==
  IF t.quorum THEN D
  ELSE
    LET still == {[client |-> u.client, until |-> CurrentDate(u)] :
                    u \in {v \in D.tickets : v.entering}}
        E == Update(D, t, [t EXCEPT !.quorum = TRUE, !.still = still])
    IN  LockExiting(SendToLeaders(E, Msg("LOCK_EXITING", EnteringKey(t.client))), t.client)

\* cluckd::set_ticket(): whatever has the key of t already makes way.
SetTicket(D, t, u) ==
  LET others == {v \in D.tickets \ {t} : v.listed /\ KeyOf(v) = KeyOf(u)}
  IN  [D EXCEPT !.tickets =
         Alive((@ \ (others \cup {t})) \cup {[v EXCEPT !.listed = FALSE] : v \in others} \cup {u})]

\* The ticket gets its number and its key, and goes into f_tickets.
Numbered(t, n) == [t EXCEPT !.number = n, !.rank = n, !.added = TRUE, !.listed = TRUE]

\* Fault: the number is the largest one instead of the one above it.
NextNumberSame(t, n) == IF n > t.number THEN n ELSE t.number

\* ticket::max_ticket() when the next number fits, then add_ticket()
NextNumber(t, n) == (IF n > t.number THEN n ELSE t.number) + 1

\* Fault: every MAX_TICKET gives the ticket a number, not only the first one.
MaxTicketEachTime(D, t, n) ==
  LET u == Numbered(t, NextNumber(t, n))
  IN  SendToLeaders(SetTicket(D, t, u), [Msg("ADD_TICKET", KeyOf(u)) EXCEPT !.value = t.obtention])

MaxTicket(D, t, n) ==
  IF t.added THEN D
  ELSE
    LET u == Numbered(t, NextNumber(t, n))
        E == SendToLeaders(SetTicket(D, t, u),
                           [Msg("ADD_TICKET", KeyOf(u)) EXCEPT !.value = t.obtention])
    IN  IF OneLeader(D) THEN TicketAdded(E, u) ELSE E

\* ticket::entered(): the first acknowledgement is enough
Entered(D, t) ==
  IF t.maxAsked THEN D
  ELSE
    LET u == [t EXCEPT !.maxAsked = TRUE, !.number = LastTicket(D)]
        E == SendToLeaders(Update(D, t, u), Msg("GET_MAX_TICKET", EnteringKey(t.client)))
    IN  IF OneLeader(D) THEN MaxTicket(E, u, u.number) ELSE E

\* ticket::entering()
Enter(D, t) ==
  LET E == SendToLeaders(D, [Msg("LOCK_ENTERING", EnteringKey(t.client)) EXCEPT !.value = t.obtention])
  IN  IF OneLeader(D) THEN Entered(E, t) ELSE E

\* Fault: the wrap is noticed one number too late.
EnterOverflowsLate(D, t) == OneLeader(D) /\ ~t.maxAsked /\ ~t.added /\ LastTicket(D) + 1 > MaxNumber + 1

\* ticket::max_ticket() throws when the number wraps; with one leader entering() gets there.
Overflows(t, n) == ~t.added /\ NextNumber(t, n) > MaxNumber
EnterOverflows(D, t) == OneLeader(D) /\ ~t.maxAsked /\ ~t.added /\ LastTicket(D) + 1 > MaxNumber

\* Fault: the other leaders do not hear of the UNLOCK.
DropTicketAlone(D, t) ==
  IF t.failed = "NONE" THEN TellClient(D, t.client, Note("UNLOCKED")) ELSE D

\* ticket::drop_ticket(): one UNLOCKED at most, and from whoever handles the UNLOCK
DropTicket(D, t) ==
  LET E == SendToLeaders(D, Msg("DROP_TICKET", KeyOf(t)))
  IN  IF t.failed = "NONE" THEN TellClient(E, t.client, Note("UNLOCKED")) ELSE E
=============================================================================
