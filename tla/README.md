# Cluck in TLA+

Specifications, model-checking configurations and proofs for **cluck**, a lock service for a cluster
of computers: a client process asks its local daemon `cluckd` for a named lock, up to three elected
daemons (the leaders) run Lamport's bakery algorithm among themselves, and one client at a time gets
the lock for a limited time.

Paths below are relative to the repository (`src/` is its root, so `daemon/cluckd.cpp` stands for
`src/daemon/cluckd.cpp`).

## 1. The system

| component | state | operations |
|---|---|---|
| **ticket** (`daemon/ticket.cpp`) | one request for a lock: its number and keys, the steps it took (`f_get_max_ticket`, `f_added_ticket`, `f_added_ticket_quorum`, `f_ticket_ready`, `f_locked`, `f_lock_failed`), the entering tickets it waits for (`f_still_entering`), its timeout dates | `entering` → `entered` → `max_ticket` → `add_ticket` → `ticket_added` → `remove_entering` → `activate_lock` → `lock_activated` → `drop_ticket`; `lock_failed` |
| **cluckd, lock service** (`daemon/cluckd.cpp`) | `f_entering_tickets`, `f_tickets` per object, `f_ticket_serial` | one handler per message: LOCK, UNLOCK, ABSOLUTELY from clients; LOCK_ENTERING/ENTERED, GET_MAX_TICKET/MAX_TICKET, ADD_TICKET/TICKET_ADDED, LOCK_EXITING, TICKET_READY, ACTIVATE_LOCK/LOCK_ACTIVATED, DROP_TICKET, LOCK_FAILED between leaders; `cleanup()` from handlers and from the timer |
| **cluckd, membership and election** (`daemon/cluckd.cpp`, `daemon/computer.cpp`, `daemon/message_cache.h`) | `f_computers`, `f_leaders`, `f_election_date`, `f_neighbors_count` and `_quorum`, `f_lock_status`, `f_message_cache`, the daemon's identifier | CLUSTER_UP, CLUSTER_DOWN, LOCK_STARTED, LOCK_LEADERS, HANGUP, DISCONNECTED, STATUS; `election_status()`, `is_daemon_ready()`, `check_lock_status()` |
| **cluckd, change of leaders** (`synchronize_leaders()`, LOCK_TICKETS) | the ticket tables | gives tickets of a leader that is gone to the first leader, sends their LOCKs again, tells the other leaders of the locks that were granted |
| **cluck** (`cluck/cluck.cpp`) | the client's object: `f_state`, its dates, its timer, its callbacks | `lock()`, `unlock()`, `is_locked()`, `process_timeout()`, `lock_failed()`, `finally()`, the handlers of LOCKED, LOCK_FAILED, UNLOCKING, UNLOCKED, TRANSMISSION_REPORT |
| cluck_status, messenger, timer, interrupt, main, tools, manager plugin | flags and connections | glue around the above |

How they interact. Everything is a message; each process has one thread that runs a handler to its
end. Clients talk to "cluckd", that is to the local daemon, which hands a LOCK or UNLOCK to a leader
when it is not one. Leaders broadcast to the other leaders and count the *first* answer of each
broadcast. communicatord (another project) carries all messages and tells the daemons about the
cluster (CLUSTER_UP, CLUSTER_DOWN, HANGUP, STATUS).

What is hard in it:

- *interleavings*: two tickets enter on two leaders at once; a ticket becomes ready while another
  enters; two daemons both believe they are the one that elects;
- *order*: messages of two senders overtake each other, so one about a former lock of a client meets
  the ticket of its next one;
- *timeouts*: a lock runs out on the leaders while the client unlocks it, a client gives up while
  its LOCKED is on the way, an entering ticket expires while another waits for it;
- *callbacks*: the user locks or unlocks again from a callback of the object, a message does not get
  out, a TRANSMISSION_REPORT is about somebody else's lock;
- *limits*: ticket numbers of 32 bits, CLUCK_MAXIMUM_ENTERING_LOCKS;
- *changes of the cluster*: connections lost and found, daemons started again unnoticed, the news of
  communicatord against the messages of other daemons;
- *changes under a lock*: a daemon starts again with an empty table, a leader that has granted a lock
  goes away, LOCK_TICKETS, LOCK, UNLOCK and DROP_TICKET reach the new leaders in any order.

`PROJECT.json` lists these hazards one by one, at the line where each bites, with the properties
that watch over it.

What makes each part correct:

- lock service: no two clients have the lock (MutualExclusion), leaders never grant two tickets
  (OneGrant), the smallest ticket of the *whole cluster* goes first (InTurn), tables of different
  leaders agree once the messages are read (NothingLeft), no ticket waits for one that is gone
  (NobodyWaitsForAGhost), no daemon dies of its own exceptions (LeadersKeepRunning), everyone who
  waits is answered (Answered) and, undisturbed, served (Served);
- client: what it sees is a plain lock (ImplementsLock); each lock it begins ends, and ends once
  (EveryLockEnds, OneFinally), and needs nobody's answer for that (NeverStuck);
- membership: one daemon elects (OneElector), leaders are known computers (LeadersKnown), a daemon
  recognises itself as a leader (KnowsItself), no locks while the cluster is down (DownMeansNoLocks),
  no LOCK stays aside in a ready daemon (NothingForgotten), the newest election wins
  (NewestElectionWins), all become ready (EventuallyReady);
- change of leaders: a granted lock is known to all who lead afterwards (HolderKnown), who agree on
  the leader that speaks for it (OwnersAgree) and do not refuse it to its own client (NotRefused); no
  handler relies on leaders that are not there (LeadersKeepRunning); what the clients see is a plain
  lock as before (ImplementsLock, InTurn).

## 2. The modules

| module | what it is |
|---|---|
| `CluckLock` | the abstract specification: clients ask, are granted, give up, release |
| `CluckTicket` | one object's tickets on one leader: `ticket.cpp` and the tables of `cluckd.cpp`, as operators |
| `CluckBakery` | fixed leaders, clients and the messages between them: one action per handler |
| `CluckElection` | the daemons of a cluster that find each other and elect, in an idle cluster |
| `CluckCluster` | the two together: `CluckBakery` under the daemons of `CluckElection`, leaders that change, a daemon that starts again, computers that go down |
| `CluckClient` | the `cluck` object in full, against all it may hear |
| `MCBakery`, `MCElection`, `MCCluster` | symmetry and constants for TLC |
| `CluckBakeryProofs` | lemmas: every operator of `CluckTicket` keeps tables and messages well-typed, and what the clients see of each action; `TypeCorrect` |
| `CluckNumberProofs` | `NoExceptionStopsALeader`: the numbers of the tickets, between any number of leaders |
| `CluckLoneLeaderProofs` | `LoneLeaderGrantsOnce`, `LoneLeaderInTurn`, `LoneLeaderExcludes`, `LoneLeaderImplementsLock` |
| `CluckTwoLeaderOpenProofs`, `CluckTwoLeaderNumberProofs`, `CluckTwoLeaderProofs` | `TwoLeadersExclude`, `TwoLeadersInTurn`, `TwoLeadersImplementLock`, `TwoLeadersWaitForNoGhost`, `TwoLeadersLeaveNothing`: one invariant, a third of the handlers in each |
| `CluckElectionProofs` | `WhoIsGoneLeadsNoMore`, `SmallestElects`, `TypeCorrect` of the elections, `NoLocksWithoutCluster`, `NoLockForgotten`, `NewestElectionLasts`, `LeaderKnowsItself` |
| `CluckClientProofs` | `EachLockEndsOnce`, `TimerAlwaysRuns`, `TypeCorrect` of the object |

`CluckBakery` implements `CluckLock` (`ImplementsLock`, with the phase of a client and the holder as
refinement mapping). `CluckCluster` instantiates `CluckBakery` and `CluckElection` over its own
variables, so its states are states of both, and implements `CluckLock` through the first.

### CluckTicket and CluckBakery

In the code a ticket is a shared object that sits in `f_entering_tickets` under its entering key
("server/pid") and, later, in `f_tickets` under its ticket key (number and entering key). Here it is
a record of the set `tickets[l]` with two flags, `entering` and `listed`, one per map; a record in
neither is dropped (`Alive`). A key is a record of a number and a client; `EnteringKey(c)` has number
0. The three time-out fields and `get_current_timeout_date()` are `obtention`, `alive`, `lockDate` and
`CurrentDate`.

A handler is an operator from the daemon's context (`Context`: its name, what it takes for the leaders,
its tickets, what it has sent) to a new one. What it takes for the leaders is a parameter, `view[l]`:
whether it is alone, whether there are leaders, whether it is ready and who the others are, as
`one_leader()`, `get_leader_a()`, `is_daemon_ready()` and `get_leader_b()` tell. Between fixed leaders
that is all of them (`Whole`), in `CluckCluster` what the daemon believes at the time; `get_leader_a()`
throws where there are none, so sending to the leaders then stops the daemon (`Halt`), and
`msg_lock_entering()` drops its message in a daemon that is not ready.

An action of `CluckBakery` takes the message off its queue, applies the handler with every `cleanup()` and
`activate_first_lock()` of the code, and puts what was sent on the queues (`Done`). Where
`ticket.cpp` throws and nobody catches, the leader stops (`Stop`): numbers that wrap in
`max_ticket()`, a second number in `set_ticket_number()`.

`net[n][l]` is a queue per pair of processes, `mail[c][l]` one per leader and client. A client sends
to a leader of `Local[c]`; where that is any leader, it stands for its local daemon choosing one. A
LOCK with a serial number, which `cluck::lock()` always sends (`cluck/cluck.cpp:902`), makes the daemon ask the client
with an ALIVE first (`CheckAlive`); the comment at `daemon/cluckd.cpp:3060-3063` thinks of such a
LOCK as one of a leader only. `Cancels` lets the user call `unlock()` before the lock is obtained.
The serial number itself is not kept: a repeated LOCK may be ignored or refused.

The client's `f_state` has the states of the code without the ones that only last inside a call
(FAILED and UNLOCKED, of which `finally()` makes IDLE; only a LOCK that cannot be sent leaves FAILED
behind, which `CluckClient` has). An object in IDLE has taken its handlers out
of the dispatcher (`Deaf`).

### CluckClient

The object has the fields of the code that decide anything; `open` and `turn` are history variables,
that count the locks begun and ended. Dates are kept as the time left until then, so that time may
pass for ever in a finite state space. `lock_failed()`, `finally()` and `lock_obtained()` call the user,
who may call `lock()` or `unlock()` from there, and `send_message()` may fail, so these operators yield
the *set* of objects that may come out, and an action takes one of them. `Mistaken` are messages with
the tag of the object and another name, which `is_cluck_msg()` finds out. `service` is what the object's
daemon makes of it: nothing, a ticket that waits, a lock, a lock that is late. It need not
answer, and messages of a former lock are never taken back.

### CluckElection

`daemon[n]` has the fields of `cluckd` that matter here. A computer is a number, smaller numbers being
smaller IP addresses; `Identifier` gives the order of the identifiers (priority, then random). The
date of an election is its place in the history `elections`, which remembers who held it.
`former` records that the daemon's entry in `f_leaders` is an object with an identifier it had before:
`msg_cluster_up()` makes a new `computer` object each time, whose identifier differs while the name is
the same, and `is_leader()` compares identifiers. `up` is a history variable, the last news of the
cluster. `pace` stands for `f_pace_lockstarted` (at most one LOCK_STARTED to an absent leader in five
seconds): either outcome is possible wherever `is_daemon_ready()` is called.

Of communicatord (external): it declares a cluster up when it is connected to a quorum; it passes
messages on, so a LOCK_STARTED gets wherever connections lead (`CutOff`, `Passed`); when a connection
is lost both sides get a HANGUP, when it comes back a STATUS; it tells its daemon of a connection
before messages that came over it (`NewsFirst`), except for the very first CLUSTER_UP, which answers
a question of the daemon.

### CluckCluster

`CluckElection` describes what membership does to a daemon, `CluckBakery` what locks do to its tickets.
The code joins them in three places, and these are what `CluckCluster` adds:

- `msg_lock()` puts a LOCK aside while the daemon is not ready (`cache`, `f_message_cache`) and passes it
  on when the daemon does not lead; `msg_unlock()` ignores or passes on. `msg_lock_entering()` drops
  a LOCK_ENTERING while the daemon is not ready, with no ticket and no LOCK_ENTERED, and nobody sends it
  again. The other handlers of the bakery ask neither question (`Bakery`).
- `check_lock_status()` runs the LOCK messages that were put aside once the daemon is ready (`Recall`).
- `election_status()` and `msg_lock_leaders()` call `synchronize_leaders()` (`Synchronize`), and
  LOCK_TICKETS carries locks from leader to leader (`Serialized`, `TakeTicket`, `Merged`).

A membership handler first runs the operators of `CluckElection` on the daemon (`E!Told`, `E!Forget`,
`E!ElectionStatus`), then what follows for its tickets, and ends both at once (`Ends`).
`synchronize_leaders()` is split the way it is read: the tickets that start again (`ToReenter` from
`f_entering_tickets`, `ToRestart` from `f_tickets`), their LOCK messages (`Again`), what stays in the
tables (`TakenOut`, `AdoptTicket`), what the others are told (`Share`). The first leader handles the
LOCK messages itself, the others send them to it, and there the iterator moves on before the serial
number is read (`PastTheEnd`): past the last ticket that is undefined, so both outcomes are possible,
going on and a crash.

The cluster starts after an election, with no lock or with one that is granted (`Holder`, through
which leader). `Crash` takes a computer down with all messages from and to it, after which the others
get its HANGUP and, where their communicatord has lost its quorum, a CLUSTER_DOWN. `Restart` is a
daemon that starts again on a computer that stays connected: nobody but its own communicatord tells it anything. No date
passes here, so nothing times out and a crashed client is not an issue; dates are what
`two_leaders_timed`, `lone_leader` and `client` are for.

## 3. The checks

Each run is one question. Every run ends within three minutes with two workers.

| run | instance | shows |
|---|---|---|
| `two_leaders` | 2 leaders, 2 clients, 2 attempts each, one date, FairSpec | MutualExclusion, InTurn, NothingLeft, NobodyWaitsForAGhost; Answered; ImplementsLock |
| `two_leaders_timed` | 2 leaders, 2 clients, dates 1 to 3, all durations 1 | MutualExclusion, InTurn, ImplementsLock while locks run out, clients time out, LOCKs are late |
| `lone_leader` | 1 leader, 3 clients, at most 2 entering, dates 1 to 3, numbers up to 2 | TypeOK (numbers run out), OneGrant, MutualExclusion, InTurn, ImplementsLock |
| `three_leaders` | 3 leaders, 1 client, FairSpec | LeadersKeepRunning, Served |
| `election_two` | 2 computers, 2 lost connections, 1 restart each, a LOCK at each | TypeOK, LeadersKnown, NothingForgotten, DownMeansNoLocks, NewestElectionWins |
| `election_three` | 3 computers, 1 and 2 not connected at first, FairSpec | OneElector, KnowsItself, EventuallyReady |
| `client` | 1 object, any number of locks, all durations 1, 2 messages each way, FairSpec | TypeOK, OneFinally, NeverStuck; EveryLockEnds |
| `cluster_restart` | 2 computers, 1 client at each, 2 attempts each, one daemon starts again at any time | InTurn, LeadersKeepRunning, ImplementsLock while a daemon puts LOCKs aside, drops LOCK_ENTERINGs and ignores UNLOCKs |
| `takeover` | 4 computers of which 3 lead, a client at the fourth has the lock through leader 1; computers 1 and 2 go down, both or either, in any order | TypeOK, LeadersKeepRunning, HolderKnown, OwnersAgree, NotRefused |
| `three_leaders_exclusion` | 3 leaders, 2 clients, 1 attempt each | violated: MutualExclusion |
| `three_leaders_renumber` | 3 leaders, 1 client, 2 attempts | violated: LeadersKeepRunning |
| `takeover_unlock` | as `takeover`, any one leader goes down | violated: NothingLeft |

Why the bounds are enough. Two clients are what exclusion and order are about, and a second attempt
brings the messages of a former lock; two leaders have every message of the protocol, three are the
most the code elects and the first number at which "the first answer" may come from different ones.
Durations of one date and three dates let a lock be obtained at one date, run out at the next and be
lost for good at the third. Numbers run out (`MaxNumber`) in `lone_leader`. Three computers are the
least with one that is not a neighbour of another and a quorum that differs from the whole; four let
two of them reach a quorum apart, and are the least at which the loss of a leader brings a new one
that has never heard of the lock; two losses of four end the quorum, which lets CLUSTER_DOWN meet a
change of leaders. In `takeover` the client can do nothing but unlock: with more (a second attempt, a
lock that is asked for while the leaders change) the properties do not hold, see below. So no ticket
starts again in it, and the iterator of `synchronize_leaders()` that moves on too early (`PastTheEnd`)
is reached by none of its behaviours: with a ticket that does, LeadersKeepRunning fails. OneElector is
checked with three computers, where it is about connections that are missing at first; with four it
fails. In `client` two messages each way are one of this lock and one of a former one, and nothing else
is bounded. Symmetry is over leaders only, and only in runs without liveness.

`CHECK_DEADLOCK FALSE` is in every configuration but `client`: with the attempts, dates, losses and
restarts used up and all messages read, nothing is left to do.

**Fairness.** Handlers run when a message is there, and each is enabled by the message at the head of
a queue and by nothing else; the event loop reads whatever is on a connection. Weak fairness of every
queue is spelled out as one formula: infinitely often nothing is to be done, or infinitely often some
of it is done (`Work`, `WorkDone`). It is implied by weak fairness of each handler and cheaper to
check; since every message has a finite number of consequences here it is all the liveness needs. In
`CluckBakery` the work includes that whoever has the lock unlocks it (the timer of the object does,
at the latest); in `CluckElection` that communicatord connects again what it lost (it retries for
ever). Nothing obliges a client to ask, a connection to fail, a LOCK to time out or time to pass.

In `CluckClient` it is the other way around: `WF_vars(Tick)` and `WF_vars(Timeout)`, time passes and the
event loop of the process calls `process_timeout()` on time, which is the loop's purpose, while no
message ever needs to arrive or be answered. `EveryLockEnds` has to follow from the timer alone.

In `cluster_restart` a dropped LOCK_ENTERING is the one whose answer the other leader awaits: the request
stands still until the client's own timer ends it, for which there are dates in `client`. (With a third
leader, which answers, the ADD_TICKET to the one that dropped it would be refused.) Such a cluster need
not answer, so the run has safety properties only.

### What the violations show

- `three_leaders_exclusion`: a client's ticket is entering on leaders 1 and 2 and its LOCK_ENTERING still on
  the way to 3, through which another client asks. Leader 2 answers both. It tells 3 the largest
  ticket number before it has the one of the first client, so both get number 1, and grants the
  second client's ticket as the first one listed, although the first client's is entering there. Leader
  3 waits for the entering tickets of its own table only, where there are none. When the first ticket
  is listed on leader 2 it comes before the other, and is granted too. (`README.md:234-239` of the repository
  knows the algorithm is not 100% safe, because answers of different leaders count alike; here all
  of them are of leader 2.)
- `three_leaders_renumber`: a LOCK_ENTERING of the client's former lock, late on the way from one
  leader to another, makes an entering ticket that the next lock finds; it gets an ADD_TICKET for
  each lock, and the second one runs into the exception of `set_ticket_number()`, which `main()`
  answers by ending the daemon.
- `takeover_unlock`: after an election every leader tells the others of the locks it knows. One that
  has handled the UNLOCK tells them with a DROP_TICKET; if the LOCK_TICKETS of another leader, sent
  before that, comes later, `msg_lock_tickets()` puts the ticket back in as new. The comment above it
  holds that it may be done any number of times. The lock is free again when the ticket times out.

Met on the way, at other bounds than the ones above (the properties are the ones of the modules, so
a configuration with these constants shows them). `CluckBakery`:

| property | constants | what happens |
|---|---|---|
| MutualExclusion | 1 leader, 2 clients, `Cancels` | a client unlocks while it waits, and `msg_locked()` takes the LOCKED that was on its way, in any state |
| ImplementsLock | 1 leader, 1 client, 2 attempts, dates to 4 | a late UNLOCKING of a former lock makes `msg_unlocking()` unlock an object that is locking; the LOCKED is taken afterwards |
| NobodyWaitsForAGhost | 1 leader, 2 clients, dates 1 to 3 | `cleanup()` erases the entering ticket of a client that did not answer an ALIVE and calls no `remove_entering()`; a ticket that waits for it keeps it in `f_still_entering` until some other ticket leaves |
| NobodyWaitsForAGhost | 2 leaders, `Cancels` | `msg_drop_ticket()` erases an entering ticket without `remove_entering()` |
| NothingLeft, Answered | 3 leaders, 2 attempts | a leftover entering ticket on the third leader |

`CluckElection`:

| property | constants | what happens |
|---|---|---|
| OneElector | 4 computers, all connected | three are a quorum, so 1 and 2, which know 3 and 4 and not yet each other, are each the smallest they know, and both elect; `README.md:93` says there can be only one, `TODO.md:16-30` foresees two |
| NewestElectionWins | the same | `msg_lock_leaders()` takes the date and leaders of any LOCK_LEADERS, unlike `msg_lock_started()`, which compares the dates, so the one with the newer result goes back to the older one; `README.md:95-96` says the largest date wins |
| DownMeansNoLocks | 4 computers, 1 and 4 apart, 1 loss | CLUSTER_DOWN is handled before the HANGUP; a LOCK_STARTED of a third computer makes the daemon elect again |
| NothingForgotten | 4 computers, 4 being off, 1 loss, a LOCK at 1 | `msg_server_gone()` calls `check_lock_status()` for leaders only; the quorum is gone, LOCK_READY stays |
| NothingForgotten | 3 computers, 3 losses, a LOCK at 2 | the same with three: 1 is cut off while 2 and 3 lead and comes back as somebody who does not lead; the HANGUP of 1 then leaves 2 ready with two of three computers |
| EventuallyReady | 3 computers, 1 loss; or 2 computers, 1 restart | nobody says LOCK_STARTED when a connection comes back and the cluster stayed up (`msg_status()`, which its documentation says does); or a leader with a new identifier |
| KnowsItself | 2 computers, 1 restart | a daemon hears of itself as a leader before its CLUSTER_UP, which then draws another identifier |

`CluckClient` (constants of `client`):

| property | what happens |
|---|---|
| GivenUpMeansGone | `unlock()` while the lock is being obtained crosses the LOCKED, which `msg_locked()` takes in the state UNLOCKING: the object believes in a lock that its UNLOCK then ends |
| BusyMeansLocking | `lock()` sends nothing and leaves the state FAILED, so the object is busy with nothing and only unlocking or locking gets it out; where `unlock()` cannot send, FAILED is set before `lock_failed()`, which then calls no callback |

`CluckCluster`:

| property | constants | what happens |
|---|---|---|
| LeadersKeepRunning | `takeover` with `Holder <- Nobody`, only leader 1 goes down | LOCK_ENTERING reached leader 3, then leader 1, which owns the ticket, is gone; 2 elects and is first, and 3 sends it the LOCK again, for which `synchronize_leaders()` reads the serial number (`daemon/cluckd.cpp:1505-1506`, as 1586 for listed tickets) through an iterator that is past the last ticket |
| LeadersKeepRunning | computers 1 and 2, 1 goes down, the client is at 2 and asks for the lock | an ABSOLUTELY comes after CLUSTER_DOWN cleared the leaders, `msg_absolutely()` does not ask for them, and `get_leader_a()` throws where its documentation (`daemon/cluckd.cpp:694-696`) has it return a null pointer |
| ImplementsLock, exclusion | 2 computers, both daemons start again | nobody is left who knows the lock |
| LeadersKeepRunning | 2 computers, 1 restart, a client whose messages go to either (`Local`, which ClusterAssumption does not allow) | the daemon that started again refuses the ADD_TICKET of the entering ticket it lost; `msg_lock_failed()` erases the listed ticket only, and the entering one that stays gets a second number when the client locks again through the other daemon |
| NotRefused, HolderKnown | `takeover` with `Holder <- Nobody`, only leader 1 goes down | a LOCK that was asked again is known to the first leader already and refused; a lock granted in between is not told |
| HolderKnown, NothingLeft | 2 computers, 1 restart | the leaders stay the same, so nobody sends the daemon that started again its LOCK_TICKETS |
| NothingLeft | `takeover` | an UNLOCK reaches a new leader before the LOCK_TICKETS and finds no ticket, or a daemon that is not ready |

And one that no property states: `one_leader()` counts `f_computers`. When the HANGUPs of all others are
handled before the CLUSTER_DOWN, the last daemon takes itself for the only leader.

With two leaders the wait for entering tickets and the comparison in `msg_activate_lock()` back each
other up: as long as no date passes, either of them can be taken out and exclusion still holds.

## 4. The proofs

### Types of the lock service (`CluckBakeryProofs`)

`TypeCorrect == Spec => []TypeOK`, for any finite sets of leaders and clients, any
durations and any bounds, with every leader seeing all of them. It is more than a formality: a ticket
number is at most `MaxNumber`, keys in answers are keys somebody asked with, and every `One(...)` and
`First(...)` of the handlers picks from a set that is not empty. TypeOK is not inductive; `TypeInv`
adds that

- clients send nothing but LOCK, UNLOCK and ABSOLUTELY (`ClientsAsk`: their other handlers would
  answer a client as if it were a leader),
- tables are finite and no two listed tickets have the same key (`Tables`, as `f_tickets` is a map:
  without it `First` has no meaning, since there must be *one* smallest ticket),
- a leader sends itself nothing (`NoEcho`).

Each operator of `CluckTicket` is shown to keep a *sound* context sound (`...Sound`); each
handler then follows from its operators (`Msg...Types`), and `NextTypes` collects them.

### A single leader (`CluckLoneLeaderProofs`)

`LoneLeaderGrantsOnce` and `LoneLeaderInTurn`, `ASSUME Cardinality(Leader) = 1 PROVE Spec => []OneGrant`
and `... []InTurn`: with a single leader the table never holds two locked tickets and the smallest
ticket goes first, for any number of clients, any durations and any interleaving of time-outs,
ALIVEs and unlocks, given up locks included. OneGrant alone is not
inductive. Steady tables are: what the code shows of a number is its number (`NumberShown`), a locked
ticket comes before all that are listed (`LockedFirst`), a client enters once (`EntersOnce`), and,
between handlers of a single leader, an entering ticket is still fresh (`Fresh`), since
`entering()` runs through to `ticket_added()` in one call. That a locked ticket stays first rests on
`max_ticket()` giving a number above all listed ones.

`LoneLeaderExcludes`, `ASSUME Cardinality(Leader) = 1, MaxTries <= 1, ~Cancels PROVE Spec =>
[]MutualExclusion`: no two processes believe at the same time that they have the lock, with all the
messages that are on their way in between. That a table has one locked ticket says nothing of the
clients, who hear of it later; `LoneInv` ties the two together. Whoever believes in the lock, or will
because a LOCKED is in its mail, has a ticket in the leader's table that is locked and lasts at least as
long as the date it was told; a client gets one LOCKED, and sends its UNLOCK after it. OneGrant then
leaves room for one of them. `lock_failed()` makes a locked ticket outlast its date, so the
table errs on the safe side.

`LoneLeaderImplementsLock`, under the same assumptions: `Spec => ImplementsLock`. Every step of
the leader is a stutter of `CluckLock`, HearLocked is a Grant, and Tick is the Release of the one
holder whose date has come. Both assumptions are needed: a client that cancels breaks
MutualExclusion and a second attempt breaks ImplementsLock (tables in section 3).

### Two leaders (`CluckTwoLeaderOpenProofs`, `CluckTwoLeaderNumberProofs`, `CluckTwoLeaderProofs`)

Five theorems `ASSUME TwoLeaders PROVE Spec => ...`, for any number of clients, each locking any number of
times, at either leader, with or without ALIVE, unlocking at the same leader or at the other:

- `TwoLeadersInTurn` (`[]InTurn`): the leader that grants a lock looks at its own table, and yet neither
  table has another client's ticket that comes before the one it grants;
- `TwoLeadersExclude` (`[]MutualExclusion`) and `TwoLeadersImplementLock` (`ImplementsLock`);
- `TwoLeadersWaitForNoGhost` (`[]NobodyWaitsForAGhost`) and `TwoLeadersLeaveNothing` (`[]NothingLeft`).

`TwoLeaders` says that there are two leaders, that no client calls `unlock()` before it has the lock
(`~Cancels`), and that no timeout of the code is shorter than the time there is (`MaxTime`): messages
are as late and as much out of order between queues as they like, but nothing runs out meanwhile. All
of it is needed: three leaders break MutualExclusion, and clients that cancel or tickets that time out
break NobodyWaitsForAGhost (section 3). The run `two_leaders` is an instance.

The inductive invariant is `PairInv`. It says that each client c has a leader `home[c]` and a stage `g[c]`,
which is the type of the message its request waits for (`Stage`; the client's `f_state` shows a part
of it, `Shows`), so that:

- `Own`: the request *is* one message after the other. There is at most one between client and leaders
  (`Talks`) and one between the leaders (`Moves`), of the type of the stage. The stage decides what the
  tables have (`Keeps`): nothing, or the ticket of the home (`AtHome`: which of its flags are set) and
  that of the other leader (`AtOther`), with the same number from TICKET_ADDED on. What is left of the
  *former* request may still be there, a ticket in the other table whose DROP_TICKET is on its way
  (`Gone`, `Rid`), and is read before it can be mistaken for the new one (`InOrder`): the queues keep the
  order, so the DROP_TICKET goes ahead of the next LOCK_ENTERING;
- `Waits`: the bakery. A ticket t with the quorum has, for every other client d, d in its
  `f_still_entering` (and d really has an entering ticket there), or d's request will come after t
  (`Later`: it is numbered above t already, or will be by a table that has t). A locked ticket comes
  before all listed ones of either table (`Clear`);
- `Sure`: TICKET_READY, ACTIVATE_LOCK and LOCK_ACTIVATED are only believed when they are true. No
  leader calls a ticket ready that is not so at home, and an ACTIVATE_LOCK or its answer is on
  its way only while the ticket is first in the tables that were looked at;
- `Quits`: once a ticket left `f_entering_tickets` nothing puts it back.

That the second leader's answer is current when it arrives is the heart of it: between the
ACTIVATE_LOCK and the grant new tickets may be listed in both tables, but every one is numbered after a
GET_MAX_TICKET that saw the waiting ticket, or belongs to a client the ticket would still wait for, and
then it would not be ready. `Waits` of one client speaks of the requests of all others, so each handler
is proved in two halves: what it does for its own client (`OwnSame` and `SureSame` carry the rest over),
and that it gets before nobody (`Courteous`, `Fair`, `Yields`). A handler works on a *world* (`Now`, `After`):
tables and queues as if it had returned. `Timely` is `TypeInv`'s companion for dates: all that were given
out are past the last one, from which `cleanup()` changes nothing (`Prompt`).

### Ticket numbers (`CluckNumberProofs`)

`NoExceptionStopsALeader == ASSUME MaxTries <= 1, Cardinality(Client) <= MaxNumber PROVE Spec =>
[]LeadersKeepRunning`, for **any number of leaders** and clients, any durations, given up locks
included. A daemon ends when `set_ticket_number()` meets a ticket that has a number, or when
`max_ticket()` wraps around; neither happens. The invariant (`NumberInv`) gives each client a leader,
its home, and keeps a set W of the clients that have no number yet:

- `Placed`: the messages a ticket is made and numbered with go the way they should: LOCK and
  ABSOLUTELY from the client to its home, LOCK_ENTERING, GET_MAX_TICKET and ADD_TICKET away from home,
  LOCK_ENTERED and MAX_TICKET back. All of the client's tickets name the home as their owner, and no
  number anywhere exceeds `Given(W)`, how many clients have theirs;
- `Once`: as long as the one LOCK is not read, nobody knows of the client;
- `Added`: the other leaders have entries without a number until the home's ticket has one, after
  which *one* ADD_TICKET is on its way to each, and the entry it meets is still without.

`max_ticket()` adds one to the largest number known: to at most `Given(W)`, while the client leaves W.
So there are never more numbers than clients. A handler is in the middle of its work while this does
not look so simple, so it is stated of a *world* (`Now`, or `Around` a handler: what it has not read
yet, its context and what it has sent, `Fit`). Most operators do nothing about numbers: they are *tame*
(`Tame`), and a tame step keeps all of it at once (`TameCalmer`, `KeepFit`). Each of the few others has
a lemma (`AddFit`, `EnterFit`, `EnteredFit`, `MaxFit`, `SetFit`, `AwayFit`), and each handler follows
(`Msg...Numbers`). With a second attempt the theorem is false: the run `three_leaders_renumber`.

### The client's object (`CluckClientProofs`)

`TypeCorrect == Spec => []TypeOK`, `EachLockEndsOnce == Spec => []OneFinally` and `TimerAlwaysRuns ==
Spec => []NeverStuck`, for any durations and any number of messages. A *good* object (`Good`) is
well-typed, and listens exactly while one lock is open, which is then being obtained, held or released
under a timer that runs; the three theorems follow from it. The operators of the object
yield sets of outcomes and call each other through the callbacks of the user, and in the middle of a
handler an object is not good; so each operator has a lemma about all outcomes from the objects it is
called with (`LockGood`, `FinallyGood`, `FailedGood`, `UnlockGood`, `LockObtainedGood`), and each
action follows from these.

### Elections (`CluckElectionProofs`)

`WhoIsGoneLeadsNoMore == Spec => []LeadersKnown`, `SmallestElects == ASSUME Count <= 3 PROVE Spec =>
[]OneElector` and `TypeCorrect == Spec => []TypeOK`, for any number of computers,
lost connections and restarts. The three hold together: a daemon that forgets a computer erases *one*
place of its leaders (`Without`), after which the computer leads no more only if it had no second
place, so the invariant `IInv` has the types of the messages too, which say that nobody is named
twice. That an election gives three different candidates at most is `BestLeaders`, for which
`LowestIn` finds the lowest identifier of a set. A daemon is *steady* (`Steady`) when it is well-typed and
knows its leaders, what a handler works on is *sound* (`Sound`) when its daemon is steady, and each
operator keeps it so. `SmallestElects` is where the rule for small clusters pays: with up to three
computers a quorum is less than three, `election_status()` then asks for all computers, and a daemon
that knows all of them sees that it is not the smallest (`ElectorRightful`). With four this fails, see
above.

### Readiness (`CluckElectionProofs`)

Four properties of small or quiet clusters, each false in the next larger ones (section 3), so the
assumptions are part of the result:

- `NoLocksWithoutCluster == ASSUME Count <= 3 PROVE Spec => []DownMeansNoLocks`. Between a CLUSTER_DOWN
  and the next CLUSTER_UP a daemon without quorum, in such a cluster, is connected to nobody
  (`Alone`), hears nothing but HANGUPs, and stays without leaders (`Idle`); the news of its
  communicatord comes in turn (`NewsInTurn`).
- `NoLockForgotten == ASSUME Count <= 2 PROVE Spec => []NothingForgotten`. A daemon that has told its
  clients of its locks keeps no LOCK aside (`Attentive`): with two computers whoever goes away was a
  leader, so `msg_server_gone()` looks at the status. With three this is false.
- `NewestElectionLasts == ASSUME Count <= 2 PROVE Spec => NewestElectionWins`, an action property: a daemon
  goes back to an older election only by starting again. One computer holds all the elections, and
  what it says of them comes in order (`NewestInv`: the dates in each queue ascend from the one the
  receiver has, `Ordered`).
- `LeaderKnowsItself == ASSUME Losses = 0, Restarts = 0 PROVE Spec => []KnowsItself`, for **any number of
  computers**, found in any order: CLUSTER_UP, which draws the identifier that `is_leader()` looks
  for, comes once, and no message names a leader that did not have it yet (`KnowsInv`).

### The abstract lock (`CluckBakeryProofs`)

To implement `CluckLock`, the lemma `NextMoves` asks little: all steps but
HearLocked are harmless, so it is enough that nobody hears LOCKED who does not wait, and that
MutualExclusion holds before and after. `LoneLeaderImplementsLock` and `TwoLeadersImplementLock` both
follow in this way.

### What the proofs assume, and what they leave out

Assumptions: the ASSUMEs of `CluckTicket`, `CluckBakery`, `CluckElection` and `CluckClient` (finite sets of
leaders, clients and computers, clients and computers being positive numbers, identifiers that
differ, positive durations), which TLC evaluates on every run.

Bounds on constants are hypotheses of the theorem that needs them, never assumptions of a module.

Only model-checked: what two leaders do while tickets time out (`two_leaders_timed`: MutualExclusion,
InTurn and ImplementsLock there need an invariant that knows what `cleanup()` takes out of one table and
not yet out of the other); a single leader whose clients lock more than once; all of `CluckCluster`,
whose handlers fold over lists of messages and sort tables, which would take induction over data; and
liveness (Answered, Served, EventuallyReady, EveryLockEnds). The last two are out of the prover's
reach. With three leaders MutualExclusion is false.

## 5. What is not modelled

- Change of leaders while dates pass, and more than one lock in it: the list of LOCK_TICKETS has one
  line at most in the instances, though the module has lists.
- Answers that travel back through a daemon that passed a LOCK on: they go to the client directly.
- Messages lost between daemons that stay connected.
- A daemon that starts again while connections are lost; what is modelled is the one or the other.
- STOP and QUITTING, the interrupt; READY and the wait for a stable clock (`msg_clock_stable()`).
- Locks other than read-write: `f_type` is sent and never read by the daemon. INFO and LIST_TICKETS,
  which print.
- cluck_status, the daemon's messenger, the tools and the plugin of the manager: flags, registration
  of handlers and user interface, without a decision of their own about locks.
- The random part of an identifier drawn anew keeps its place in the order (`former`), and dates of
  elections increase: clocks of the computers agree, which is what the daemons wait for.
- A connection comes back only after both daemons handled its loss.
- One lockable object: tickets of different objects never meet.
- The reason of a failure (`f_reason`), which only callbacks read.

## 6. Where it stands

The parts of the program that decide about locks are modelled, each for itself and together. With a
single leader and clients that lock once, exclusion, order and the refinement of the abstract lock
are proved with all timeouts; between two leaders, with clients that lock again and again, they are
proved as long as nothing times out, together with what the tables keep; between any number of leaders,
that none of them stops. What could follow: timeouts in the invariant of two leaders, and a larger
`takeover` with dates once the violations listed above are settled in the code, since they end each
wider run early.
