---------------------------- MODULE CluckElection ----------------------------
(***************************************************************************)
(* How the cluckd daemons find each other, elect the leaders and decide    *)
(* that they are ready (daemon/cluckd.cpp, daemon/computer.cpp).  The      *)
(* daemon with the smallest IP address elects, the others hear of it.      *)
(*                                                                         *)
(* The cluster is idle: no leader has a ticket, so synchronize_leaders()   *)
(* has nothing to send.                                                    *)
(***************************************************************************)
EXTENDS Naturals, Sequences, FiniteSets, SequencesExt

CONSTANTS
  Computer,     \* the computers of the cluster, in the order of their IP addresses
  Identifier,   \* the order of their identifiers: priority, then a random number
  Off,          \* those with a candidate priority of 15
  Apart,        \* the pairs that are not connected at first
  Waiting,      \* where a client sends a LOCK, at any time
  Losses,       \* bound: how often a connection between two computers is lost
  Restarts      \* bound: how often a daemon starts again

ASSUME ComputerAssumption ==
  /\ IsFiniteSet(Computer) /\ Computer \subseteq Nat \ {0} /\ Computer # {}
  /\ Identifier \in [Computer -> Nat]
  /\ \A n, m \in Computer : Identifier[n] = Identifier[m] => n = m
  /\ Off \subseteq Computer /\ Waiting \subseteq Computer
  /\ Losses \in Nat /\ Restarts \in Nat

Pairs == {{n, m} : n, m \in Computer} \ {{n} : n \in Computer}
ASSUME ApartAssumption == Apart \subseteq Pairs

VARIABLES
  daemon,      \* daemon[n]: the daemon of computer n
  net,         \* net[n][m]: the messages on their way from n to m, from m's communicatord if n = m
  apart,       \* the pairs of computers that are not connected
  elections,   \* who held the elections so far; the date of an election is its place
  lost,        \* how many connections were lost so far
  clients      \* where a client has not sent its LOCK yet

vars == <<daemon, net, apart, elections, lost, clients>>

Count == Cardinality(Computer)
\* Three computers at most, none of them twice.
Leaders == UNION {Injection(1..k, Computer) : k \in 0..3}

Daemon ==
  [me       : Computer,
   count    : {0, Count},          \* f_neighbors_count, 0 until a first CLUSTER_UP
   start    : Nat,                 \* f_start_time
   known    : SUBSET Computer,     \* f_computers
   linked   : SUBSET Computer,     \* those of f_computers that are connected
   starts   : [Computer -> Nat],   \* their start times, 0 as long as not known
   leaders  : Leaders,             \* f_leaders
   former   : {"NO", "LINKED", "UNLINKED"},
                                   \* f_leaders holds a computer that this daemon was before
   date     : Nat,                 \* f_election_date
   ready    : BOOLEAN,             \* f_lock_status
   cached   : BOOLEAN,             \* f_message_cache is not empty
   up       : BOOLEAN]             \* the last news of the cluster; no field of the code has it

Message ==
  [type    : {"CLUSTER_UP", "CLUSTER_DOWN", "HANGUP", "LOCK_STARTED", "LOCK_LEADERS"},
   valid   : BOOLEAN,              \* LOCK_STARTED: lock_id is an identifier, not empty
   start   : Nat,
   date    : Nat,                  \* 0 without leaders
   leaders : Leaders]

News(type) == [type |-> type, valid |-> FALSE, start |-> 0, date |-> 0, leaders |-> <<>>]

NewDaemon(n, start) ==
  [me |-> n, count |-> 0, start |-> start, known |-> {}, linked |-> {},
   starts |-> [m \in Computer |-> 0], leaders |-> <<>>, former |-> "NO", date |-> 0,
   ready |-> FALSE, cached |-> FALSE, up |-> FALSE]

\* The communicatord declares a cluster up as soon as it is connected to a quorum.
Quorum == Count \div 2 + 1
Reach(n, cut) == {m \in Computer : {n, m} \notin cut}
ClusterIsUp(n, cut) == Cardinality(Reach(n, cut)) >= Quorum

TypeOK ==
  /\ daemon \in [Computer -> Daemon]
  /\ net \in [Computer -> [Computer -> Seq(Message)]]
  /\ apart \subseteq Pairs
  /\ elections \in Seq(Computer)
  /\ lost \in 0..Losses /\ clients \subseteq Waiting

Init ==
  /\ daemon = [n \in Computer |-> NewDaemon(n, 1)]
  /\ apart = Apart
  /\ net = [n \in Computer |-> [m \in Computer |->
              IF n = m /\ ClusterIsUp(n, Apart) THEN <<News("CLUSTER_UP")>> ELSE <<>>]]
  /\ elections = <<>>
  /\ lost = 0
  /\ clients = Waiting
-----------------------------------------------------------------------------
(* What a handler works on: its daemon, what it sends and whom it elects.  *)

Here(n) == [d |-> daemon[n], out |-> [m \in Computer |-> <<>>], won |-> <<>>]

Tell(X, m, msg) == [X EXCEPT !.out[m] = Append(@, msg)]
TellAll(X, msg) ==
  [X EXCEPT !.out = [m \in Computer |-> IF m = X.d.me THEN @[m] ELSE Append(@[m], msg)]]

\* f_neighbors_quorum
QuorumOf(d) == IF d.count = 0 THEN 0 ELSE d.count \div 2 + 1

\* A cluster of one to three computers has to be complete.
Quorate(d) ==
  /\ QuorumOf(d) < 3 => Cardinality(d.known) >= d.count
  /\ Cardinality(d.known) >= QuorumOf(d)

\* cluckd::is_leader() about itself: the identifier is drawn anew on every CLUSTER_UP
IsLeader(d) == d.count # 0 /\ d.me \in Range(d.leaders) /\ d.former = "NO"

Connected(d, l) ==
  IF l = d.me /\ d.former # "NO" THEN d.former = "LINKED" ELSE l \in d.linked

\* The places of the leaders that are not connected.
Absent(d) == {i \in DOMAIN d.leaders : ~Connected(d, d.leaders[i])}

EnoughLeaders(d) ==
  d.leaders # <<>> /\ (Len(d.leaders) = 1 => d.count = 1) /\ Quorate(d)

\* cluckd::is_daemon_ready(), with a registered messenger and a stable clock
Ready(d) ==
  /\ EnoughLeaders(d)
  /\ \/ Len(d.leaders) - Cardinality(Absent(d)) >= 2
     \/ Absent(d) = {}

\* cluckd::send_lock_started()
LockStarted(d) ==
  [type |-> "LOCK_STARTED", valid |-> d.count # 0, start |-> d.start,
   date |-> IF d.leaders = <<>> THEN 0 ELSE d.date, leaders |-> d.leaders]

\* is_daemon_ready() writes to a leader that is not connected, every five seconds at most.
Knock(X, pace) ==
  LET d == X.d
      first == d.leaders[Min(Absent(d))]
  IN  IF pace /\ EnoughLeaders(d) /\ Absent(d) # {} /\ first # d.me
      THEN Tell(X, first, LockStarted(d)) ELSE X

\* Fault: the LOCK messages that were put aside stay there.
CheckLockStatusOnly(X, pace) == [Knock(X, pace) EXCEPT !.d.ready = Ready(X.d)]

\* cluckd::check_lock_status()
CheckLockStatus(X, pace) ==
  LET now == Ready(X.d)
      Y == Knock(X, pace)
  IN  IF now = X.d.ready THEN Y
      ELSE [Y EXCEPT !.d.ready = now, !.d.cached = @ /\ ~now]

-----------------------------------------------------------------------------
(* The election.                                                           *)

Settled(d) ==
  /\ d.leaders # <<>>
  /\ Len(d.leaders) = 3 \/ (d.count < 3 /\ Len(d.leaders) = d.count)

\* Fault: whoever has a quorum elects, whatever its IP address.
MayElectAnyone(d) == ~Settled(d) /\ d.count # 0 /\ Quorate(d)

MayElect(d) ==
  /\ ~Settled(d) /\ d.count # 0 /\ Quorate(d)
  /\ \A m \in d.known : m >= d.me

Candidates(d) == d.known \ Off

\* With too many computers off, or a single candidate, there is no election.
TooManyOff(d) ==
  /\ Cardinality(d.known) >= d.count
  /\ IF Cardinality(d.known) <= 3 THEN d.known \cap Off # {}
     ELSE Cardinality(Candidates(d)) < 3
TooFewCandidates(d) ==
  Cardinality(Candidates(d)) < 2 /\ Candidates(d) # d.known

\* The first three by identifier, each the lowest of those that are left.
AddBest(S, best) ==
  LET left == S \ Range(best)
  IN  IF left = {} THEN best
      ELSE Append(best, CHOOSE n \in left : \A m \in left : Identifier[n] <= Identifier[m])
Best(S) == AddBest(S, AddBest(S, AddBest(S, <<>>)))

Elected(d, best, date) ==
  [d EXCEPT !.leaders = best, !.former = "NO", !.date = date]

\* cluckd::election_status()
ElectionStatus(X) ==
  LET d == X.d
      best == Best(Candidates(d))
      date == Len(elections) + 1
      result == [News("LOCK_LEADERS") EXCEPT !.date = date, !.leaders = best]
  IN  IF ~MayElect(d) \/ TooManyOff(d) \/ TooFewCandidates(d) THEN X
      ELSE TellAll([X EXCEPT !.d = Elected(d, best, date), !.won = <<d.me>>], result)

\* Fault: the list is not cleared first.
LearnToo(d, leaders) ==
  [d EXCEPT !.leaders = @ \o leaders, !.former = "NO", !.known = @ \cup Range(leaders)]

\* The leaders of a message; the ones not known yet are not connected.
Learn(d, leaders) ==
  [d EXCEPT !.leaders = leaders, !.former = "NO", !.known = @ \cup Range(leaders)]

-----------------------------------------------------------------------------
(* The handlers.                                                           *)

\* What comes over a new connection comes after the CLUSTER_UP it brings; only the first one
\* is the answer to a question of the daemon, and takes its time.
NewsFirst(n) == daemon[n].count # 0 /\ net[n][n] # <<>> /\ Head(net[n][n]).type = "CLUSTER_UP"

Arrived(s, n, type) ==
  /\ net[s][n] # <<>> /\ Head(net[s][n]).type = type
  /\ s # n => ~NewsFirst(n)
Received(s, n) == Head(net[s][n])

\* The communicatords pass on what is not for them, so it gets wherever connections lead.
CutOff(n, m, cut) ==
  \E S \in SUBSET Computer :
    n \in S /\ m \notin S /\ \A i \in S, j \in Computer \ S : {i, j} \in cut
Passed(n, m, s) == IF CutOff(n, m, apart) THEN <<>> ELSE s

Sent(X, rest) ==
  /\ daemon' = [daemon EXCEPT ![X.d.me] = X.d]
  /\ net' = [rest EXCEPT ![X.d.me] =
               [m \in Computer |-> @[m] \o Passed(X.d.me, m, X.out[m])]]
  /\ elections' = elections \o X.won

Done(s, n, X) ==
  /\ Sent(X, [net EXCEPT ![s][n] = Tail(@)])
  /\ UNCHANGED <<apart, lost, clients>>

\* A daemon adds itself to its computers, with a new identifier every time.
WithSelf(d) ==
  LET n == d.me
      former == IF n \notin Range(d.leaders) \/ d.former # "NO" THEN d.former
                ELSE IF n \in d.linked THEN "LINKED" ELSE "UNLINKED"
  IN  [d EXCEPT !.count = Count, !.known = @ \cup {n}, !.linked = @ \cup {n},
                !.starts[n] = d.start, !.former = former, !.up = TRUE]

\* cluckd::msg_cluster_up()
MsgClusterUp(n) ==
  /\ Arrived(n, n, "CLUSTER_UP")
  /\ LET X == ElectionStatus([Here(n) EXCEPT !.d = WithSelf(@)])
         Y == TellAll(X, LockStarted(X.d))
     IN  \E pace \in BOOLEAN : Done(n, n, CheckLockStatus(Y, pace))

\* Fault: the leaders are kept.
MsgClusterDownOnly(n) ==
  /\ Arrived(n, n, "CLUSTER_DOWN")
  /\ Done(n, n, CheckLockStatus([Here(n) EXCEPT !.d.up = FALSE], FALSE))

\* Without a cluster there are no leaders.
Leaderless(d) == [d EXCEPT !.leaders = <<>>, !.former = "NO", !.up = FALSE]

\* cluckd::msg_cluster_down()
MsgClusterDown(n) ==
  /\ Arrived(n, n, "CLUSTER_DOWN")
  /\ Done(n, n, CheckLockStatus([Here(n) EXCEPT !.d = Leaderless(@)], FALSE))

\* The election of a LOCK_LEADERS replaces whatever was there.
Adopt(d, m) == [Learn(d, m.leaders) EXCEPT !.date = m.date]

\* Fault: the daemon has leaders and does not notice that it is ready.
MsgLockLeadersOnly(s, n) ==
  /\ Arrived(s, n, "LOCK_LEADERS")
  /\ Done(s, n, [Here(n) EXCEPT !.d = Adopt(@, Received(s, n))])

\* cluckd::msg_lock_leaders()
MsgLockLeaders(s, n) ==
  /\ Arrived(s, n, "LOCK_LEADERS")
  /\ LET X == [Here(n) EXCEPT !.d = Adopt(@, Received(s, n))]
     IN  \E pace \in BOOLEAN : Done(s, n, CheckLockStatus(X, pace))

\* A computer that is new here, or started again.
IsNews(d, s, m) == s \notin d.linked \/ d.starts[s] # m.start

\* Fault: a daemon that waits for its CLUSTER_UP counts as well.
IgnoredNever(d, s, m) == FALSE

\* A computer without an identifier is not one yet, unless it is known already.
Ignored(d, s, m) == s \notin d.known /\ ~m.valid

\* Fault: any other election wins.
ToldOther(d, s, m) ==
  LET met == [d EXCEPT !.known = @ \cup {s}, !.linked = @ \cup {s}, !.starts[s] = m.start]
      newer == IF m.date # d.date
               THEN [met EXCEPT !.date = m.date, !.leaders = <<>>, !.former = "NO"] ELSE met
  IN  IF newer.leaders = <<>> THEN Learn(newer, m.leaders) ELSE newer

\* The newer election wins, the other one is for whoever has none.
Told(d, s, m) ==
  LET met == [d EXCEPT !.known = @ \cup {s}, !.linked = @ \cup {s}, !.starts[s] = m.start]
      newer == IF m.date > d.date
               THEN [met EXCEPT !.date = m.date, !.leaders = <<>>, !.former = "NO"] ELSE met
  IN  IF newer.leaders = <<>> THEN Learn(newer, m.leaders) ELSE newer

\* cluckd::msg_lock_started()
MsgLockStarted(s, n) ==
  /\ Arrived(s, n, "LOCK_STARTED")
  /\ LET m == Received(s, n)
         d == daemon[n]
         X == ElectionStatus([Here(n) EXCEPT !.d = Told(d, s, m)])
         answer == IsNews(d, s, m) \/ IsLeader(d) # IsLeader(X.d)
         reply(Y) == IF answer THEN Tell(Y, s, LockStarted(Y.d)) ELSE Y
     IN  IF Ignored(d, s, m) THEN Done(s, n, Here(n))
         ELSE \E pace \in BOOLEAN : Done(s, n, reply(CheckLockStatus(X, pace)))

\* Fault: a leader that is gone still leads.
ForgetOnly(d, s) == [d EXCEPT !.known = @ \ {s}, !.linked = @ \ {s}, !.starts[s] = 0]

\* The first place of s among the leaders is erased.
Without(leaders, s) ==
  IF s \notin Range(leaders) THEN leaders
  ELSE RemoveAt(leaders, CHOOSE i \in DOMAIN leaders : leaders[i] = s)

Forget(d, s) ==
  [d EXCEPT !.known = @ \ {s}, !.linked = @ \ {s}, !.starts[s] = 0,
            !.leaders = Without(@, s)]

\* cluckd::msg_server_gone(), for a HANGUP as for a DISCONNECTED or a STATUS "down"
MsgServerGone(s, n) ==
  /\ Arrived(s, n, "HANGUP")
  /\ LET d == daemon[n]
         X == [Here(n) EXCEPT !.d = Forget(d, s)]
     IN  IF s \in Range(d.leaders)
         THEN \E pace \in BOOLEAN : Done(s, n, CheckLockStatus(ElectionStatus(X), pace))
         ELSE Done(s, n, X)

\* cluckd::msg_lock() as long as the daemon is not ready: the LOCK is put aside
MsgLock(n) ==
  /\ n \in clients
  /\ clients' = clients \ {n}
  /\ \E pace \in BOOLEAN :
       Sent(Knock([Here(n) EXCEPT !.d.cached = @ \/ ~Ready(daemon[n])], pace), net)
  /\ UNCHANGED <<apart, lost>>

\* cluckd::cleanup(): a LOCK that was put aside times out
CacheTimeout(n) ==
  /\ daemon[n].cached
  /\ daemon' = [daemon EXCEPT ![n].cached = FALSE]
  /\ UNCHANGED <<net, apart, elections, lost, clients>>

-----------------------------------------------------------------------------
(* What happens to the daemons.                                            *)

\* The communicatord tells its daemon when the quorum is lost or found.
ClusterNews(n, cut) ==
  IF ClusterIsUp(n, cut) = ClusterIsUp(n, apart) THEN <<>>
  ELSE <<News(IF ClusterIsUp(n, cut) THEN "CLUSTER_UP" ELSE "CLUSTER_DOWN")>>

\* Of what was on its way the HANGUP is left, which there is one of at most.
Left(s) == IF \E i \in DOMAIN s : s[i].type = "HANGUP" THEN <<News("HANGUP")>> ELSE <<>>

\* Two computers lose their connection, and what was on its way with it.
LoseConnection(n, m) ==
  /\ n < m /\ {n, m} \notin apart /\ lost < Losses
  /\ apart' = apart \cup {{n, m}}
  /\ net' = [i \in Computer |-> [j \in Computer |->
               CASE {i, j} = {n, m} -> <<News("HANGUP")>>
                 [] i = j -> net[i][j] \o ClusterNews(i, apart')
                 [] OTHER -> IF CutOff(i, j, apart') THEN Left(net[i][j]) ELSE net[i][j]]]
  /\ lost' = lost + 1
  /\ UNCHANGED <<daemon, elections, clients>>

\* They are connected again: a STATUS "up", of which msg_status() makes nothing.  By then
\* both daemons know that they had lost each other.
Reconnect(n, m) ==
  /\ n < m /\ {n, m} \in apart
  /\ \A i, j \in {n, m} :
       net[i][j] # <<>> => Head(net[i][j]).type \in {"LOCK_STARTED", "LOCK_LEADERS"}
  /\ apart' = apart \ {{n, m}}
  /\ net' = [i \in Computer |-> [net[i] EXCEPT ![i] = @ \o ClusterNews(i, apart')]]
  /\ UNCHANGED <<daemon, elections, lost, clients>>

\* A daemon starts again, which nobody notices; its communicatord tells it about the cluster.
Restart(n) ==
  /\ daemon[n].start <= Restarts
  /\ daemon' = [daemon EXCEPT ![n] = NewDaemon(n, daemon[n].start + 1)]
  /\ net' = [i \in Computer |-> [net[i] EXCEPT ![n] =
               IF i = n /\ ClusterIsUp(n, apart) THEN <<News("CLUSTER_UP")>> ELSE <<>>]]
  /\ UNCHANGED <<apart, elections, lost, clients>>

Handle(s, n) == MsgLockLeaders(s, n) \/ MsgLockStarted(s, n) \/ MsgServerGone(s, n)
Hear(n) == MsgClusterUp(n) \/ MsgClusterDown(n)

Next ==
  \/ \E s, n \in Computer : Handle(s, n)
  \/ \E n \in Computer : Hear(n) \/ MsgLock(n) \/ CacheTimeout(n) \/ Restart(n)
  \/ \E n, m \in Computer : LoseConnection(n, m) \/ Reconnect(n, m)

Spec == Init /\ [][Next]_vars

\* The daemons read what they get and connections come back.  A message enables its handler
\* and nothing else does, so weak fairness is spelled out: as long as there is work, some of
\* it gets done.
Work == apart # {} \/ \E n, m \in Computer : net[n][m] # <<>>
WorkDone ==
  \/ Cardinality(apart') < Cardinality(apart)
  \/ \E n, m \in Computer : Len(net'[n][m]) < Len(net[n][m])

FairSpec == Spec /\ ([]<>~Work \/ []<><<WorkDone>>_vars)

-----------------------------------------------------------------------------
(* Properties.                                                             *)

\* A leader is one of the computers that the daemon knows: whoever went away leads no more
\* (msg_server_gone() takes it out of both lists, LOCK_LEADERS and LOCK_STARTED add to both).
LeadersKnown == \A n \in Computer : Range(daemon[n].leaders) \subseteq daemon[n].known

\* Only the computer with the smallest IP address ever elects
\* ("There can be only one such node within the cluckd quorum").
OneElector == \A i \in DOMAIN elections : \A m \in Computer : m >= elections[i]

\* From the LOCK_READY to the NO_LOCK that a daemon sends its clients no LOCK is put aside, and
\* none stays aside (check_lock_status() handles them all).
NothingForgotten == \A n \in Computer : daemon[n].ready => ~daemon[n].cached

\* A daemon that is one of its own leaders knows it: is_leader() compares identifiers.
KnowsItself == \A n \in Computer : n \in Range(daemon[n].leaders) => IsLeader(daemon[n])

\* Between a CLUSTER_DOWN and the next CLUSTER_UP there are no locks, whatever the other
\* computers send in between ("We need to stop offering locks at that point").
DownMeansNoLocks ==
  \A n \in Computer : daemon[n].ready /\ daemon[n].count # 0 => daemon[n].up

\* A daemon never goes back to an older election, unless it starts again
\* ("The election with the largest election date wins").
NewestElectionWins ==
  [][\A n \in Computer :
       daemon'[n].start = daemon[n].start => daemon'[n].date >= daemon[n].date]_vars

\* In the end every daemon is ready, has said so, and has its leaders.
EventuallyReady ==
  <>[](\A n \in Computer : daemon[n].ready /\ Ready(daemon[n]))
=============================================================================
