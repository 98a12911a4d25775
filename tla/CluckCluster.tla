---------------------------- MODULE CluckCluster ----------------------------
(***************************************************************************)
(* The locks and the elections together: the handlers of CluckBakery under *)
(* the daemons of CluckElection, in a cluster that had its election when   *)
(* one of its daemons starts again or one of its computers goes away.      *)
(*                                                                         *)
(* This is where daemon/cluckd.cpp looks from the one half at the other: a *)
(* daemon that is not ready or does not lead treats LOCK and UNLOCK in its *)
(* own way, and new leaders synchronize their tickets.                     *)
(*                                                                         *)
(* No date passes: nothing times out.  All computers hear each other until *)
(* one of them is gone, so is_daemon_ready() never needs to write to a     *)
(* leader that is not connected.                                           *)
(***************************************************************************)
EXTENDS CluckTicket

CONSTANTS
  Obtention, UnlockWait, MaxEntering, CheckAlive, Local, Cancels, MaxTries, MaxTime,
  Identifier,  \* the order of the computers' identifiers, which ranks the leaders
  Holder,      \* Holder[c]: through which leader client c got the lock it has at first
  Mortal,      \* the computers that may go down
  Crashes,     \* bound: how many of them do
  Restarts     \* bound: how many daemons start again, each of them once

ASSUME ClusterAssumption ==
  /\ Leader \subseteq Nat \ {0} /\ Identifier \in [Leader -> Nat]
  /\ DOMAIN Holder \subseteq Client /\ Cardinality(DOMAIN Holder) <= 1
  /\ Range(Holder) \subseteq Leader
  /\ \A c \in Client : Cardinality(Local[c]) = 1 /\ Local[c] \cap Mortal = {}
  /\ Mortal \subseteq Leader /\ Crashes \in Nat /\ Restarts \in Nat

VARIABLES
  running, tickets, net, mail, client,
  daemon, elections,
  down,        \* the computers that went down
  cache        \* cache[l]: f_message_cache, the LOCK messages that daemon l put aside

E == INSTANCE CluckElection WITH
       Computer <- Leader, Off <- {}, Apart <- {}, Waiting <- {}, Losses <- 0,
       apart <- {}, lost <- 0, clients <- {}

\* get_leader_a() and get_leader_b(), by their place among the leaders
Others(d) ==
  LET self(i) == d.leaders[i] = d.me /\ d.former = "NO"
  IN  CASE Len(d.leaders) = 2 -> {d.leaders[IF self(1) THEN 2 ELSE 1]}
        [] Len(d.leaders) = 3 -> {d.leaders[IF self(1) THEN 2 ELSE 1],
                                  d.leaders[IF self(3) THEN 2 ELSE 3]}
        [] OTHER -> {}

ViewOf(d) ==
  [alone |-> Cardinality(d.known) = 1, elected |-> d.leaders # <<>>, ready |-> E!Ready(d),
   others |-> Others(d)]

B == INSTANCE CluckBakery WITH view <- [l \in Leader |-> ViewOf(daemon[l])]

vars == <<now, running, tickets, net, mail, client, daemon, elections, down, cache>>
Node == Leader \cup Client

\* The tickets that a leader tells the new ones about.
LockTickets(lines) == [type |-> "LOCK_TICKETS", lines |-> lines]

IsMessage(m) ==
  \/ m \in Message \cup E!Message
  \/ m.type = "LOCK_TICKETS" /\ m.lines \in Seq(Ticket)

TypeOK ==
  /\ now \in Nat
  /\ running \subseteq Leader
  /\ tickets \in [Leader -> SUBSET Ticket]
  /\ \A n \in Node, l \in Leader : \A i \in DOMAIN net[n][l] : IsMessage(net[n][l][i])
  /\ mail \in [Client -> [Leader -> Seq(Notice)]]
  /\ client \in [Client -> B!ClientState]
  /\ daemon \in [Leader -> E!Daemon]
  /\ elections \in Seq(Leader)
  /\ down \subseteq Mortal
  /\ cache \in [Leader -> Seq(Message)]

\* The cluster after its first election, with nothing locked yet or with one lock granted.
Best == E!Best(Leader)
Granted(c, l) ==
  [NewTicket(c, Holder[c], now + Obtention) EXCEPT
     !.number = 1, !.rank = 1, !.entering = FALSE, !.listed = TRUE, !.added = TRUE,
     !.maxAsked = (l = Holder[c]), !.quorum = (l = Holder[c]),
     !.ready = TRUE, !.locked = TRUE, !.lockDate = now + Duration]
Asked(c) ==
  LET date == now + Duration
  IN  IF c \in DOMAIN Holder
      THEN [state |-> "LOCKED", lockDate |-> date, overDate |-> date + UnlockDuration,
            timer |-> date, tries |-> 1]
      ELSE [state |-> "IDLE", lockDate |-> 0, overDate |-> 0, timer |-> 0, tries |-> 0]

Init ==
  /\ now = 1
  /\ running = Leader
  /\ tickets = [l \in Leader |->
       IF l \in Range(Best) THEN {Granted(c, l) : c \in DOMAIN Holder} ELSE {}]
  /\ net = [n \in Node |-> [l \in Leader |-> <<>>]]
  /\ mail = [c \in Client |-> [l \in Leader |-> <<>>]]
  /\ client = [c \in Client |-> Asked(c)]
  /\ daemon = [l \in Leader |->
       [E!NewDaemon(l, 1) EXCEPT !.count = E!Count, !.known = Leader, !.linked = Leader,
          !.starts = [n \in Leader |-> 1], !.leaders = Best, !.date = 1, !.ready = TRUE, !.up = TRUE]]
  /\ elections = <<CHOOSE l \in Leader : \A n \in Leader : l <= n>>
  /\ down = {}
  /\ cache = [l \in Leader |-> <<>>]

-----------------------------------------------------------------------------
(* Handlers of a daemon that may have other things on its mind than locks. *)

Leads(d) == E!IsLeader(d)
Begin(l, d) == Start(l, ViewOf(d), tickets[l])
Tells(D, n, s) == [D EXCEPT !.out[n] = @ \o s]
Post(D, out) == [D EXCEPT !.out = [n \in Leader |-> @[n] \o out[n]]]

\* msg_lock() of a daemon that is ready: it locks or passes the message on.
LockOrForward(d, D, m, serial) ==
  LET D1 == Cleanup(D)
  IN  IF m.value <= now \/ Leads(d) THEN B!Locking(D1, m, serial)
      ELSE {Tell(D1, k, m) : k \in Range(d.leaders)}

\* One LOCK after the other.
LockAll(d, D, messages, serial) ==
  FoldLeft(LAMBDA S, m : UNION {LockOrForward(d, X, m, serial) : X \in S}, {D}, messages)

-----------------------------------------------------------------------------
(* cluckd::synchronize_leaders()                                           *)

InClientOrder(S) == SetToSortSeq(S, LAMBDA t, u : t.client < u.client)
InTicketOrder(S) == SetToSortSeq(S, LAMBDA t, u : Before(KeyOf(t), KeyOf(u)))
Each(s, Op(_)) == [i \in DOMAIN s |-> Op(s[i])]

\* A ticket whose owner does not lead any more.
Orphan(d, t) == t.owner \notin Range(d.leaders)
FirstLeader(d) == Head(d.leaders)

\* Fault: a lock that was granted is asked for again.
ToRestartAll(d, D) == {t \in Listed(D) : Orphan(d, t)}

\* A ticket of f_tickets that starts again from the beginning, unlike one that has the lock.
ToRestart(d, D) == {t \in Listed(D) : ~t.locked /\ Orphan(d, t)}
ToReenter(d, D) == {t \in D.tickets : t.entering /\ Orphan(d, t)}

\* The LOCK messages of the tickets that start again.
AskAgain(t) == [Msg("LOCK", EnteringKey(t.client)) EXCEPT !.value = t.obtention]
Again(d, D) ==
  Each(InClientOrder(ToReenter(d, D)) \o InTicketOrder(ToRestart(d, D)), AskAgain)

\* Fault: the lock stays with the leader that is gone.
AdoptNothing(d, t) == t

\* A lock that was granted goes to the first leader.
AdoptTicket(d, t) ==
  IF t.listed /\ t.locked /\ Orphan(d, t) THEN [t EXCEPT !.owner = FirstLeader(d)] ELSE t

\* The first leader takes out what it is about to lock again.
TakenOut(d, D, t) ==
  IF d.me # FirstLeader(d) THEN t
  ELSE [t EXCEPT !.entering = @ /\ t \notin ToReenter(d, D),
                 !.listed = @ /\ t \notin ToRestart(d, D)]

\* Fault: the new leaders do not hear of the locks.
ShareNothing(d, D, X) == X

\* ticket::serialize(): as the new ticket of another leader reads it
Serialized(t) == [t EXCEPT !.entering = FALSE, !.listed = TRUE, !.still = {}, !.alive = 0]
Share(d, D, X) ==
  LET locked == InTicketOrder({AdoptTicket(d, t) : t \in {u \in Listed(D) : u.locked}})
  IN  IF locked = <<>> THEN X
      ELSE SendAllToLeaders(X, <<LockTickets(Each(locked, Serialized))>>)

\* The iterator moves on before the serial number is read, maybe past the last ticket.
PastTheEnd(d, D) ==
  \/ \E t \in ToReenter(d, D) : \A u \in D.tickets : u.entering => u.client <= t.client
  \/ \E t \in ToRestart(d, D) : \A u \in Listed(D) \ {t} : Before(KeyOf(u), KeyOf(t))

Synchronizes(d) == Len(d.leaders) > 1 /\ Leads(d)
LocksItself(d) == Synchronizes(d) /\ d.me = FirstLeader(d)

Synchronize(d, D) ==
  LET D1 == [D EXCEPT !.tickets = Alive({AdoptTicket(d, TakenOut(d, D, t)) : t \in @})]
      again == IF E!Ready(d) THEN Again(d, D) ELSE <<>>     \* msg_lock() puts them aside
  IN  IF ~Synchronizes(d) THEN {D}
      ELSE IF LocksItself(d) THEN {Share(d, D, X) : X \in LockAll(d, D1, again, FALSE)}
      ELSE {Share(d, D, Tells(D1, FirstLeader(d), Again(d, D)))}
             \cup (IF PastTheEnd(d, D) THEN {Halt(D)} ELSE {})

\* What msg_lock() puts aside of it.
PutAside(d, D) == IF LocksItself(d) /\ ~E!Ready(d) THEN Again(d, D) ELSE <<>>

-----------------------------------------------------------------------------
(* What a membership handler does to the tickets.                          *)

Alone(d) == [d |-> d, out |-> [n \in Leader |-> <<>>], won |-> <<>>]

Arrived(s, l, type) == l \in running /\ E!Arrived(s, l, type)
Received(s, l) == Head(net[s][l])

\* election_status() on the way of daemon l: whoever elects synchronizes.
Elect(X) ==
  LET D == Post(Begin(X.d.me, X.d), X.out)
  IN  IF X.won = <<>> THEN {D} ELSE Synchronize(X.d, D)

\* check_lock_status(): a daemon that gets ready turns to the messages it put aside.
Status(d) == E!CheckLockStatus(Alone(d), FALSE).d
GetsReady(d) == Status(d).ready /\ ~d.ready
Recall(d, D) == IF GetsReady(d) THEN LockAll(d, D, cache[d.me], CheckAlive) ELSE {D}

\* The daemon of l becomes d and its tickets one of the outcomes S.
Ends(s, l, d, won, S) ==
  LET synchronized == won # <<>> \/ Received(s, l).type = "LOCK_LEADERS"
      aside == IF synchronized THEN PutAside(d, Begin(l, d)) ELSE <<>>
  IN  \E D \in S :
        IF D.stopped THEN UNCHANGED <<daemon, elections, down, cache>> /\ B!Stop(s, l)
        ELSE /\ B!Leave(s, l, D)
             /\ UNCHANGED down
             /\ daemon' = [daemon EXCEPT ![l] = [Status(d) EXCEPT !.cached = @ \/ aside # <<>>]]
             /\ cache' = [cache EXCEPT ![l] = IF GetsReady(d) THEN <<>> ELSE @ \o aside]
             /\ elections' = elections \o won

PostAll(S, out) == {Post(D, out) : D \in S}
ToOthers(l, m) == [n \in Leader |-> IF n = l THEN <<>> ELSE <<m>>]
ToOne(s, m) == [n \in Leader |-> IF n = s THEN <<m>> ELSE <<>>]
RecallAll(d, S) == UNION {Recall(d, D) : D \in S}

\* cluckd::msg_cluster_up()
MsgClusterUp(l) ==
  /\ Arrived(l, l, "CLUSTER_UP")
  /\ LET X == E!ElectionStatus(Alone(E!WithSelf(daemon[l])))
         S == PostAll(Elect(X), ToOthers(l, E!LockStarted(X.d)))
     IN  Ends(l, l, X.d, X.won, RecallAll(X.d, S))

\* cluckd::msg_cluster_down(): the tickets stay
MsgClusterDown(l) ==
  /\ Arrived(l, l, "CLUSTER_DOWN")
  /\ LET d == E!Leaderless(daemon[l])
     IN  Ends(l, l, d, <<>>, {Begin(l, d)})

\* cluckd::msg_lock_leaders()
MsgLockLeaders(s, l) ==
  /\ Arrived(s, l, "LOCK_LEADERS")
  /\ LET d == E!Adopt(daemon[l], Received(s, l))
     IN  Ends(s, l, d, <<>>, RecallAll(d, Synchronize(d, Begin(l, d))))

\* cluckd::msg_lock_started(): the tickets are not part of it
MsgLockStarted(s, l) ==
  /\ Arrived(s, l, "LOCK_STARTED")
  /\ LET d == daemon[l]
         X == E!ElectionStatus(Alone(E!Told(d, s, Received(s, l))))
         S == RecallAll(X.d, Elect(X))
         answer == E!IsNews(d, s, Received(s, l)) \/ Leads(d) # Leads(X.d)
     IN  IF E!Ignored(d, s, Received(s, l)) THEN Ends(s, l, d, <<>>, {Begin(l, d)})
         ELSE Ends(s, l, X.d, X.won,
                   IF answer THEN PostAll(S, ToOne(s, E!LockStarted(Status(X.d)))) ELSE S)

\* cluckd::msg_server_gone()
MsgServerGone(s, l) ==
  /\ Arrived(s, l, "HANGUP")
  /\ LET d == E!Forget(daemon[l], s)
         X == E!ElectionStatus(Alone(d))
     IN  IF s \in Range(daemon[l].leaders) THEN Ends(s, l, X.d, X.won, RecallAll(X.d, Elect(X)))
         ELSE B!Leave(s, l, Begin(l, d)) /\ daemon' = [daemon EXCEPT ![l] = d]
                /\ UNCHANGED <<elections, down, cache>>

-----------------------------------------------------------------------------
(* LOCK_TICKETS                                                            *)

\* ticket::unserialize() of u over t; in f_tickets it stays where it is
Larger(n, m) == IF n > m THEN n ELSE m
Merged(t, u) ==
  [t EXCEPT !.client = u.client, !.owner = u.owner, !.number = u.number, !.obtention = u.obtention,
            !.rank = IF t.listed THEN @ ELSE u.rank,
            !.maxAsked = @ \/ u.maxAsked, !.added = @ \/ u.added, !.quorum = @ \/ u.quorum,
            !.ready = @ \/ u.ready, !.locked = @ \/ u.locked,
            !.lockDate = Larger(@, u.lockDate),
            !.failed = IF u.failed = "UNLOCKING" \/ @ = "NONE" THEN u.failed ELSE @]

\* Whichever line it reads, the daemon looks for the ticket of the first one.
TakeTicket(d, D, c, u) ==
  IF EnteringOf(D, c) # {} THEN Update(D, One(EnteringOf(D, c)), Merged(One(EnteringOf(D, c)), u))
  ELSE IF ListedOf(D, c) # {} THEN Update(D, First(ListedOf(D, c)), Merged(First(ListedOf(D, c)), u))
  ELSE IF u.locked /\ u.owner \in Range(d.leaders) THEN SetTicket(D, u, u) ELSE D

\* cluckd::msg_lock_tickets()
MsgLockTickets(s, l) ==
  /\ Arrived(s, l, "LOCK_TICKETS")
  /\ LET lines == Received(s, l).lines
         take(D, u) == TakeTicket(daemon[l], D, Head(lines).client, u)
     IN  /\ UNCHANGED <<daemon, elections, down, cache>>
         /\ B!Done(s, l, Cleanup(FoldLeft(take, B!Here(l), lines)))

-----------------------------------------------------------------------------
(* The locks.                                                              *)

\* Fault: the daemon does not ask whether it is ready.
MsgLockUnready(s, l) ==
  /\ Arrived(s, l, "LOCK")
  /\ UNCHANGED <<daemon, elections, down, cache>>
  /\ \E D \in B!Locking(Cleanup(B!Here(l)), Received(s, l), CheckAlive) : B!Done(s, l, D)

\* cluckd::msg_lock(): put aside, passed on or handled
MsgLock(s, l) ==
  /\ Arrived(s, l, "LOCK")
  /\ LET m == Received(s, l)
         aside == m.value > now /\ ~E!Ready(daemon[l])
     IN  /\ cache' = [cache EXCEPT ![l] = IF aside THEN Append(@, m) ELSE @]
         /\ daemon' = [daemon EXCEPT ![l].cached = @ \/ aside]
         /\ UNCHANGED <<elections, down>>
         /\ \E D \in IF aside THEN {Cleanup(B!Here(l))}
                     ELSE LockOrForward(daemon[l], B!Here(l), m, CheckAlive) : B!Done(s, l, D)

\* cluckd::msg_unlock(): without effect as long as the daemon is not ready
MsgUnlock(s, l) ==
  /\ Arrived(s, l, "UNLOCK")
  /\ UNCHANGED <<daemon, elections, down, cache>>
  /\ IF ~E!Ready(daemon[l]) THEN B!Done(s, l, B!Here(l))
     ELSE IF Leads(daemon[l]) THEN B!MsgUnlock(s, l)
     ELSE \E k \in Range(daemon[l].leaders) : B!Done(s, l, Tell(B!Here(l), k, Received(s, l)))

\* The other handlers do not ask whether the daemon leads, and only msg_lock_entering() whether
\* it is ready.
Bakery(s, l) ==
  /\ UNCHANGED <<daemon, elections, down, cache>>
  /\ ~E!NewsFirst(l)
  /\ \/ B!MsgAbsolutely(s, l)
     \/ B!MsgLockEntering(s, l) \/ B!MsgLockEntered(s, l)
     \/ B!MsgGetMaxTicket(s, l) \/ B!MsgMaxTicket(s, l)
     \/ B!MsgAddTicket(s, l) \/ B!MsgTicketAdded(s, l)
     \/ B!MsgLockExiting(s, l) \/ B!MsgTicketReady(s, l)
     \/ B!MsgActivateLock(s, l) \/ B!MsgLockActivated(s, l)
     \/ B!MsgDropTicket(s, l) \/ B!MsgLockFailed(s, l)

User(c, l) ==
  /\ UNCHANGED <<daemon, elections, down, cache>>
  /\ B!Lock(c, l) \/ B!Unlock(c, l) \/ B!Hear(c, l)

-----------------------------------------------------------------------------
(* What happens to the daemons.                                            *)

\* What the communicatord of n says of the cluster once the computers in S are down.
Cut(S) == {{n, m} : n \in S, m \in Leader} \ {{n} : n \in S}
News(n, S) == IF E!ClusterIsUp(n, Cut(S)) = E!ClusterIsUp(n, Cut(down)) THEN <<>>
              ELSE <<E!News("CLUSTER_DOWN")>>

\* Computer n goes down, and what was on its way from it or to it is lost.
Crash(n) ==
  /\ n \in Mortal \ down /\ Cardinality(down) < Crashes
  /\ down' = down \cup {n}
  /\ running' = running \ {n}
  /\ net' = [i \in Node |-> [j \in Leader |->
               IF j = n THEN <<>> ELSE IF i = n THEN <<E!News("HANGUP")>>
               ELSE IF i = j THEN net[i][j] \o News(j, down') ELSE net[i][j]]]
  /\ mail' = [c \in Client |-> [mail[c] EXCEPT ![n] = <<>>]]
  /\ UNCHANGED <<now, tickets, client, daemon, elections, cache>>

\* A daemon starts again with nothing it knew; its communicatord tells it about the cluster.
Restart(n) ==
  /\ n \in running /\ daemon[n].start = 1
  /\ Cardinality({l \in Leader : daemon[l].start > 1}) < Restarts
  /\ daemon' = [daemon EXCEPT ![n] = E!NewDaemon(n, 2)]
  /\ tickets' = [tickets EXCEPT ![n] = {}]
  /\ cache' = [cache EXCEPT ![n] = <<>>]
  /\ net' = [i \in Node |-> [net[i] EXCEPT ![n] =
               IF i = n /\ E!ClusterIsUp(n, Cut(down)) THEN <<E!News("CLUSTER_UP")>> ELSE <<>>]]
  /\ UNCHANGED <<now, running, mail, client, elections, down>>

Next ==
  \/ \E l \in Leader : MsgClusterUp(l) \/ MsgClusterDown(l) \/ Crash(l) \/ Restart(l)
  \/ \E s, l \in Leader :
       MsgLockLeaders(s, l) \/ MsgLockStarted(s, l) \/ MsgServerGone(s, l) \/ MsgLockTickets(s, l)
  \/ \E s \in Node, l \in Leader : MsgLock(s, l) \/ MsgUnlock(s, l) \/ Bakery(s, l)
  \/ \E c \in Client, l \in Leader : User(c, l)

Spec == Init /\ [][Next]_vars

-----------------------------------------------------------------------------
(* Properties.                                                             *)

\* What the clients see is still the lock of CluckLock when a daemon starts again with none of
\* the tickets it had, and none of the messages to it: a lock goes to who asked for it, and to
\* one at a time.
ImplementsLock == B!ImplementsLock

\* The order of the tickets survives the restart too: what a leader grants comes before all that
\* any leader has, though one of the tables that numbers come from (max_ticket()) is empty.
InTurn == B!InTurn

\* No handler throws: none writes to other leaders before there are any (get_leader_a()), none
\* walks past its last ticket (synchronize_leaders()), no ticket gets two numbers.
LeadersKeepRunning == running = Leader \ down

\* Everything that was sent, also by clients, has been read.
Settled ==
  /\ \A l \in running, n \in Node : net[n][l] = <<>>
  /\ \A c \in Client, l \in running : mail[c][l] = <<>>

\* Once the new leaders have settled, all of them know the lock that was granted before ("The
\* replacement would have no idea of the old tickets. This function makes sure that such
\* doesn't occur").
HolderKnown ==
  Settled => \A c \in Client : B!IsLocked(c) =>
    \A l \in running : Leads(daemon[l]) => \E t \in tickets[l] : t.client = c /\ t.listed /\ t.locked

\* By then they agree on the leader that speaks for a ticket, which is one of them: a ticket
\* whose owner is gone would expire without a word to its client (lock_failed()).
OwnersAgree ==
  Settled => \A l, k \in {i \in running : Leads(daemon[i])} : \A t \in tickets[l] :
    /\ t.owner \in Range(daemon[l].leaders)
    /\ \A u \in tickets[k] : u.client = t.client => u.owner = t.owner

\* A lock that was granted is not asked for again, which would be refused for being known
\* ("if locked, a ticket is assigned leader0 as its new owner").
NotRefused ==
  \A c \in Client, l \in Leader : \A i \in DOMAIN mail[c][l] : mail[c][l][i].type # "LOCK_FAILED"

\* Once all is settled no leader keeps a ticket of a client that gave its lock up ("The
\* extraction is additive so we can do it any number of times").
NothingLeft ==
  Settled => \A l \in running : \A t \in tickets[l] : client[t.client].state # "IDLE"
=============================================================================
