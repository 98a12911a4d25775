------------------------ MODULE CluckElectionProofs -------------------------
(***************************************************************************)
(* Who leads, when a daemon offers locks, and which election it follows.   *)
(* Whoever goes away leads no more, in a cluster of any size, however many *)
(* connections are lost and daemons start again (WhoIsGoneLeadsNoMore).    *)
(* This rests on the types: the leaders of a daemon or of a message are    *)
(* three at most and none of them twice, so that erasing one place erases  *)
(* the computer.  In a cluster of up to three computers a daemon offers no *)
(* locks between a CLUSTER_DOWN and the next CLUSTER_UP                    *)
(* (NoLocksWithoutCluster), because a computer without a quorum is alone,  *)
(* and all it hears of the others is that they are gone.  In a cluster of  *)
(* two no LOCK stays aside in a daemon that is ready (NoLockForgotten) and *)
(* no daemon goes back to an older election (NewestElectionLasts).  In a   *)
(* cluster of any size a leader knows that it is one, as long as nothing is*)
(* lost and no daemon starts again (LeaderKnowsItself).                    *)
(***************************************************************************)
EXTENDS CluckElection, FiniteSetTheorems, SequenceTheorems, WellFoundedInduction, TLAPS

-----------------------------------------------------------------------------
(* Lists of leaders.                                                       *)

LEMMA LeadersAre ==
  \A s : s \in Leaders <=> s \in Seq(Computer) /\ Len(s) <= 3 /\ IsInjective(s)
<1> TAKE s
<1>1. ASSUME s \in Leaders PROVE s \in Seq(Computer) /\ Len(s) <= 3 /\ IsInjective(s)
  <2>1. PICK k \in 0..3 : s \in [1..k -> Computer] /\ IsInjective(s)
    BY <1>1 DEF Leaders, Injection
  <2>2. s \in Seq(Computer) /\ Len(s) = k
    BY <2>1
  <2> QED
    BY <2>1, <2>2
<1>2. ASSUME s \in Seq(Computer), Len(s) <= 3, IsInjective(s) PROVE s \in Leaders
  <2>1. s \in [1..Len(s) -> Computer] /\ Len(s) \in Nat
    BY <1>2, LenProperties
  <2>2. Len(s) \in 0..3
    BY <1>2, <2>1
  <2>3. s \in Injection(1..Len(s), Computer)
    BY <1>2, <2>1 DEF Injection
  <2> QED
    BY <2>2, <2>3 DEF Leaders
<1> QED
  BY <1>1, <1>2

LEMMA NoLeaders == <<>> \in Leaders /\ Range(<<>>) = {}
<1>1. DOMAIN <<>> = {}
  OBVIOUS
<1>2. IsInjective(<<>>) /\ Range(<<>>) = {}
  BY <1>1 DEF IsInjective, Range
<1>3. <<>> \in Seq(Computer) /\ Len(<<>>) <= 3
  BY EmptySeq
<1> QED
  BY <1>2, <1>3, LeadersAre

\* A set of natural numbers has a smallest one.
LEMMA SmallestNumber ==
  ASSUME NEW S, S \subseteq Nat, S # {}
  PROVE  \E n \in S : \A m \in S : n <= m
<1>1. PICK n \in S : \A m \in S : <<m, n>> \notin OpToRel(<, Nat)
  BY NatLessThanWellFounded, WFMin
<1>2. \A m \in S : ~(m < n)
  BY <1>1 DEF OpToRel
<1> QED
  BY <1>2

\* Some computer of a set has the lowest identifier.
LEMMA LowestIn ==
  ASSUME NEW S, S \subseteq Computer, S # {}
  PROVE  (CHOOSE n \in S : \A m \in S : Identifier[n] <= Identifier[m]) \in S
<1> DEFINE T == {Identifier[n] : n \in S}
<1>1. Identifier \in [Computer -> Nat]
  BY ComputerAssumption
<1>2. T \subseteq Nat /\ T # {}
  BY <1>1
<1>3. PICK x \in T : \A y \in T : x <= y
  <2> HIDE DEF T
  <2> QED
    BY <1>2, SmallestNumber
<1>4. PICK n \in S : x = Identifier[n]
  BY <1>3
<1>5. \A m \in S : Identifier[n] <= Identifier[m]
  BY <1>3, <1>4
<1> QED
  BY <1>5

\* One more leader is one that is not in the list yet.
LEMMA AddBestLeaders ==
  ASSUME NEW S, S \subseteq Computer,
         NEW s \in Seq(Computer), IsInjective(s), Range(s) \subseteq S
  PROVE  /\ AddBest(S, s) \in Seq(Computer) /\ IsInjective(AddBest(S, s))
         /\ Range(AddBest(S, s)) \subseteq S /\ Len(AddBest(S, s)) <= Len(s) + 1
<1> DEFINE left == S \ Range(s)
<1>1. CASE left = {}
  BY <1>1 DEF AddBest
<1>2. CASE left # {}
  <2> DEFINE n == CHOOSE i \in left : \A j \in left : Identifier[i] <= Identifier[j]
             t == Append(s, n)
  <2>1. n \in S /\ n \notin Range(s)
    BY <1>2, LowestIn, left \subseteq Computer
  <2>2. AddBest(S, s) = t
    BY <1>2 DEF AddBest
  <2> HIDE DEF n
  <2>3. /\ t \in Seq(Computer) /\ Len(t) = Len(s) + 1 /\ DOMAIN t = 1..(Len(s) + 1)
        /\ \A i \in 1..Len(s) : t[i] = s[i]
        /\ t[Len(s) + 1] = n
    BY <2>1
  <2> HIDE DEF t
  <2>4. DOMAIN s = 1..Len(s) /\ Len(s) \in Nat
    BY LenProperties
  <2>5. \A i \in 1..Len(s) : s[i] \in Range(s)
    BY <2>4 DEF Range
  <2>6. IsInjective(t)
    BY <2>1, <2>3, <2>4, <2>5 DEF IsInjective
  <2>7. Range(t) \subseteq S
    BY <2>1, <2>3, <2>4, <2>5 DEF Range
  <2> QED
    BY <2>2, <2>3, <2>6, <2>7
<1> QED
  BY <1>1, <1>2

\* The result of an election: three different candidates at most.
LEMMA BestLeaders ==
  ASSUME NEW S, S \subseteq Computer
  PROVE  Best(S) \in Leaders /\ Range(Best(S)) \subseteq S
<1> DEFINE Good(s, n) == /\ s \in Seq(Computer) /\ IsInjective(s)
                         /\ Range(s) \subseteq S /\ Len(s) <= n
<1>1. Good(<<>>, 0)
  BY NoLeaders, LeadersAre, EmptySeq
<1>2. ASSUME NEW s, NEW n \in Nat, Good(s, n) PROVE Good(AddBest(S, s), n + 1)
  <2>1. Len(s) \in Nat /\ Len(AddBest(S, s)) \in Nat
    BY <1>2, AddBestLeaders, LenProperties
  <2> QED
    BY <1>2, <2>1, AddBestLeaders
<1> HIDE DEF Good
<1>3. Good(Best(S), 3)
  <2>1. Good(AddBest(S, <<>>), 1)
    BY <1>1, <1>2, 0 + 1 = 1
  <2>2. Good(AddBest(S, AddBest(S, <<>>)), 2)
    BY <1>2, <2>1, 1 + 1 = 2
  <2> QED
    BY <1>2, <2>2, 2 + 1 = 3 DEF Best
<1> QED
  BY <1>3, LeadersAre DEF Good

\* Erasing a leader leaves the others, and does not leave it anywhere else.
LEMMA WithoutLeaders ==
  ASSUME NEW s \in Leaders, NEW x
  PROVE  Without(s, x) \in Leaders /\ Range(Without(s, x)) \subseteq Range(s) \ {x}
<1>1. s \in Seq(Computer) /\ Len(s) <= 3 /\ IsInjective(s)
  BY LeadersAre
<1>2. CASE x \notin Range(s)
  BY <1>2 DEF Without
<1>3. CASE x \in Range(s)
  <2> DEFINE i == CHOOSE j \in DOMAIN s : s[j] = x
             t == SubSeq(s, 1, i - 1) \o SubSeq(s, i + 1, Len(s))
  <2>1. i \in 1..Len(s) /\ s[i] = x
    BY <1>1, <1>3 DEF Range
  <2>2. Without(s, x) = t
    BY <1>3 DEF Without, RemoveAt
  <2> HIDE DEF i
  <2>3. /\ t \in Seq(Computer) /\ Len(t) = Len(s) - 1
        /\ \A j \in 1..Len(t) : t[j] = IF j < i THEN s[j] ELSE s[j + 1]
    <3> DEFINE p == SubSeq(s, 1, i - 1)
               q == SubSeq(s, i + 1, Len(s))
    <3>1. Len(s) \in Nat /\ s \in [1..Len(s) -> Computer]
      BY <1>1, LenProperties
    <3>2. p \in Seq(Computer) /\ Len(p) = i - 1 /\ \A j \in 1..(i - 1) : p[j] = s[j]
      BY <2>1, <3>1
    <3>3. q \in Seq(Computer) /\ Len(q) = Len(s) - i
      <4>1. \A j \in (i + 1)..Len(s) : s[j] \in Computer
        BY <2>1, <3>1
      <4>2. q \in Seq(Computer) /\ Len(q) = IF i + 1 <= Len(s) THEN Len(s) - (i + 1) + 1 ELSE 0
        BY <2>1, <3>1, <4>1, SubSeqProperties
      <4>3. CASE i + 1 <= Len(s)
        <5>1. Len(s) - (i + 1) + 1 = Len(s) - i
          BY <2>1, <3>1
        <5> QED
          BY <4>2, <4>3, <5>1
      <4>4. CASE ~(i + 1 <= Len(s))
        <5>1. i \in Nat /\ Len(s) \in Nat /\ i <= Len(s)
          BY <2>1, <3>1
        <5>2. Len(s) - i = 0
          BY <4>4, <5>1
        <5> QED
          BY <4>2, <4>4, <5>2
      <4> HIDE DEF q
      <4> QED
        BY <4>3, <4>4
    <3>4. \A j \in 1..(Len(s) - i) : q[j] = s[i + j]
      <4>1. \A j \in (i + 1)..Len(s) : s[j] \in Computer
        BY <2>1, <3>1
      <4>2. \A j \in 1..(Len(s) - (i + 1) + 1) : q[j] = s[(i + 1) + j - 1]
        BY <2>1, <3>1, <4>1, SubSeqProperties
      <4>3. \A j \in 1..(Len(s) - i) : (i + 1) + j - 1 = i + j /\ j \in 1..(Len(s) - (i + 1) + 1)
        BY <2>1, <3>1
      <4> QED
        BY <4>2, <4>3
    <3> HIDE DEF p, q
    <3>5. /\ p \o q \in Seq(Computer) /\ Len(p \o q) = Len(s) - 1
          /\ \A j \in 1..(Len(s) - 1) : (p \o q)[j] = IF j < i THEN p[j] ELSE q[j - (i - 1)]
      <4>1. /\ p \o q \in Seq(Computer) /\ Len(p \o q) = Len(p) + Len(q)
            /\ \A j \in 1..(Len(p) + Len(q)) :
                 (p \o q)[j] = IF j <= Len(p) THEN p[j] ELSE q[j - Len(p)]
        BY <3>2, <3>3, ConcatProperties
      <4>2. Len(p) + Len(q) = Len(s) - 1
        BY <2>1, <3>1, <3>2, <3>3
      <4>3. \A j \in 1..(Len(s) - 1) : j <= Len(p) <=> j < i
        BY <2>1, <3>1, <3>2
      <4> QED
        BY <3>2, <4>1, <4>2, <4>3
    <3>6. ASSUME NEW j \in 1..(Len(s) - 1) PROVE (p \o q)[j] = IF j < i THEN s[j] ELSE s[j + 1]
      <4>1. CASE j < i
        BY <2>1, <3>1, <3>2, <3>5, <4>1
      <4>2. CASE ~(j < i)
        <5>1. j - (i - 1) \in 1..(Len(s) - i) /\ i + (j - (i - 1)) = j + 1
          BY <2>1, <3>1, <4>2
        <5> QED
          BY <2>1, <3>1, <3>4, <3>5, <4>2, <5>1
      <4> QED
        BY <4>1, <4>2
    <3> QED
      BY <3>5, <3>6 DEF p, q
  <2> HIDE DEF t
  <2>4. IsInjective(t)
    BY <1>1, <2>1, <2>3 DEF IsInjective
  <2>5. \A j \in 1..Len(t) : t[j] \in Range(s) /\ t[j] # x
    BY <1>1, <2>1, <2>3 DEF IsInjective, Range
  <2> QED
    BY <1>1, <2>2, <2>3, <2>4, <2>5, LeadersAre DEF Range
<1> QED
  BY <1>2, <1>3

-----------------------------------------------------------------------------
(* What a handler does to its daemon.                                      *)

\* The daemon of n, whose leaders are known.
Steady(n, d) == d \in Daemon /\ d.me = n /\ Range(d.leaders) \subseteq d.known

\* In a small cluster, which has to be complete, the smallest computer elects.
Rightful(elected) ==
  Count <= 3 => \A i \in DOMAIN elected : \A m \in Computer : m >= elected[i]

Sound(n, X) ==
  /\ X \in [d : Daemon, out : [Computer -> Seq(Message)], won : Seq(Computer)]
  /\ Steady(n, X.d) /\ Rightful(X.won)

LEMMA CountIs == Count \in Nat
BY ComputerAssumption, FS_CardinalityType DEF Count

LEMMA NewsTyped ==
  ASSUME NEW type \in {"CLUSTER_UP", "CLUSTER_DOWN", "HANGUP", "LOCK_STARTED", "LOCK_LEADERS"}
  PROVE  News(type) \in Message
BY NoLeaders DEF News, Message

LEMMA NewDaemonSteady ==
  ASSUME NEW n \in Computer, NEW start \in Nat
  PROVE  Steady(n, NewDaemon(n, start))
BY NoLeaders DEF NewDaemon, Steady, Daemon

LEMMA LockStartedTyped == \A d \in Daemon : LockStarted(d) \in Message
BY NoLeaders DEF LockStarted, Message, Daemon

LEMMA TellSound ==
  ASSUME NEW n, NEW X, Sound(n, X), NEW m, NEW msg \in Message
  PROVE  Sound(n, Tell(X, m, msg)) /\ Tell(X, m, msg).d = X.d
<1> DEFINE out == [X.out EXCEPT ![m] = Append(@, msg)]
<1>1. X.out \in [Computer -> Seq(Message)]
  BY DEF Sound
<1>2. out \in [Computer -> Seq(Message)]
  <2>1. m \in Computer => Append(X.out[m], msg) \in Seq(Message)
    BY <1>1
  <2> QED
    BY <1>1, <2>1
<1>3. Tell(X, m, msg) = [X EXCEPT !.out = out]
  BY DEF Sound, Tell
<1> HIDE DEF out
<1> QED
  BY <1>2, <1>3 DEF Sound

LEMMA TellAllSound ==
  ASSUME NEW n, NEW X, Sound(n, X), NEW msg \in Message
  PROVE  Sound(n, TellAll(X, msg)) /\ TellAll(X, msg).d = X.d
<1> DEFINE out == [m \in Computer |-> IF m = X.d.me THEN X.out[m] ELSE Append(X.out[m], msg)]
<1>1. X.out \in [Computer -> Seq(Message)]
  BY DEF Sound
<1>2. out \in [Computer -> Seq(Message)]
  BY <1>1
<1>3. TellAll(X, msg) = [X EXCEPT !.out = out]
  BY DEF Sound, TellAll
<1> HIDE DEF out
<1> QED
  BY <1>2, <1>3 DEF Sound

LEMMA KnockSound ==
  ASSUME NEW n, NEW X, Sound(n, X), NEW pace
  PROVE  Sound(n, Knock(X, pace)) /\ Knock(X, pace).d = X.d
<1>1. LockStarted(X.d) \in Message
  BY LockStartedTyped DEF Sound
<1> QED
  BY <1>1, TellSound DEF Knock

\* check_lock_status() leaves the leaders alone.
LEMMA CheckLockStatusSound ==
  ASSUME NEW n, NEW X, Sound(n, X), NEW pace
  PROVE  Sound(n, CheckLockStatus(X, pace))
<1> DEFINE Y == Knock(X, pace)
           now == Ready(X.d)
           Z == [Y EXCEPT !.d.ready = now, !.d.cached = @ /\ ~now]
<1>1. Sound(n, Y)
  BY KnockSound
<1>2. now \in BOOLEAN
  BY DEF Ready
<1> HIDE DEF Y, now
<1>3. Sound(n, Z)
  BY <1>1, <1>2 DEF Sound, Steady, Daemon
<1>4. CheckLockStatus(X, pace) = IF now = X.d.ready THEN Y ELSE Z
  BY DEF CheckLockStatus, now, Y
<1> QED
  BY <1>1, <1>3, <1>4

LEMMA NobodyRightful == Rightful(<<>>)
<1>1. DOMAIN <<>> = {}
  OBVIOUS
<1> QED
  BY <1>1 DEF Rightful

\* With up to three computers a quorum is all of them, and the one that elects knows all.
LEMMA ElectorRightful ==
  ASSUME NEW n, NEW d, Steady(n, d), MayElect(d)
  PROVE  Rightful(<<d.me>>)
<1> SUFFICES ASSUME Count <= 3, NEW m \in Computer PROVE m >= d.me
  BY DEF Rightful
<1>1. d.count = Count /\ d.count # 0 /\ d.known \subseteq Computer
  BY DEF Steady, Daemon, MayElect
<1>2. Count \in 1..3
  BY <1>1, CountIs
<1>3. QuorumOf(d) < 3
  <2>1. 1 \div 2 + 1 < 3 /\ 2 \div 2 + 1 < 3 /\ 3 \div 2 + 1 < 3
    OBVIOUS
  <2>2. Count = 1 \/ Count = 2 \/ Count = 3
    BY <1>2
  <2> QED
    BY <1>1, <2>1, <2>2 DEF QuorumOf
<1>4. Cardinality(d.known) >= Cardinality(Computer)
  BY <1>1, <1>3 DEF MayElect, Quorate, Count
<1>5. IsFiniteSet(Computer)
  BY ComputerAssumption
<1>6. /\ IsFiniteSet(d.known) /\ Cardinality(d.known) <= Cardinality(Computer)
      /\ Cardinality(d.known) = Cardinality(Computer) => d.known = Computer
  BY <1>1, <1>5, FS_Subset
<1>7. d.known = Computer
  <2>1. Cardinality(d.known) \in Nat /\ Cardinality(Computer) \in Nat
    BY <1>5, <1>6, FS_CardinalityType
  <2> QED
    BY <1>4, <1>6, <2>1
<1> QED
  BY <1>7 DEF MayElect

\* Whoever is elected is known: candidates are computers that answered.
LEMMA ElectionStatusSound ==
  ASSUME NEW n, NEW X, Sound(n, X), elections \in Seq(Computer)
  PROVE  Sound(n, ElectionStatus(X))
<1> DEFINE best == Best(Candidates(X.d))
           date == Len(elections) + 1
           result == [News("LOCK_LEADERS") EXCEPT !.date = date, !.leaders = best]
           Y == [X EXCEPT !.d = Elected(X.d, best, date), !.won = <<X.d.me>>]
<1>1. Candidates(X.d) \subseteq X.d.known /\ X.d.known \subseteq Computer
  BY DEF Candidates, Sound, Daemon
<1>2. best \in Leaders /\ Range(best) \subseteq X.d.known
  BY <1>1, BestLeaders
<1>3. date \in Nat
  BY LenProperties
<1>4. ElectionStatus(X) = X \/ (MayElect(X.d) /\ ElectionStatus(X) = TellAll(Y, result))
  BY DEF ElectionStatus
<1> HIDE DEF best, date
<1>5. result \in Message
  BY <1>2, <1>3, NewsTyped DEF Message
<1>6. <<X.d.me>> \in Seq(Computer)
  BY DEF Sound, Daemon
<1>7. Steady(n, Elected(X.d, best, date))
  BY <1>2, <1>3 DEF Elected, Sound, Steady, Daemon
<1>8. MayElect(X.d) => Sound(n, Y)
  <2>1. MayElect(X.d) => Rightful(<<X.d.me>>)
    BY ElectorRightful DEF Sound
  <2> QED
    BY <1>6, <1>7, <2>1 DEF Sound, Steady
<1> HIDE DEF Y, result
<1> QED
  BY <1>4, <1>5, <1>8, TellAllSound

\* Learned leaders become known, whoever they are.
LEMMA LearnSteady ==
  ASSUME NEW n, NEW d, d \in Daemon, d.me = n, NEW leaders \in Leaders
  PROVE  Steady(n, Learn(d, leaders))
<1>1. Range(leaders) \subseteq Computer
  BY LeadersAre, RangeOfSeq
<1> QED
  BY <1>1 DEF Learn, Steady, Daemon

LEMMA WithSelfSteady ==
  ASSUME NEW n \in Computer, NEW d, Steady(n, d)
  PROVE  Steady(n, WithSelf(d))
BY DEF WithSelf, Steady, Daemon

LEMMA LeaderlessSteady ==
  ASSUME NEW n, NEW d, Steady(n, d)
  PROVE  Steady(n, Leaderless(d))
BY NoLeaders DEF Leaderless, Steady, Daemon

LEMMA AdoptSteady ==
  ASSUME NEW n, NEW d, Steady(n, d), NEW m \in Message
  PROVE  Steady(n, Adopt(d, m))
<1>1. m.leaders \in Leaders /\ m.date \in Nat
  BY DEF Message
<1>2. Steady(n, Learn(d, m.leaders))
  BY <1>1, LearnSteady DEF Steady
<1> QED
  BY <1>1, <1>2 DEF Adopt, Steady, Daemon

LEMMA ToldSteady ==
  ASSUME NEW n, NEW d, Steady(n, d), NEW s \in Computer, NEW m \in Message
  PROVE  Steady(n, Told(d, s, m))
<1> DEFINE met == [d EXCEPT !.known = @ \cup {s}, !.linked = @ \cup {s}, !.starts[s] = m.start]
           newer == IF m.date > d.date
                    THEN [met EXCEPT !.date = m.date, !.leaders = <<>>, !.former = "NO"] ELSE met
<1>1. m.leaders \in Leaders /\ m.date \in Nat /\ m.start \in Nat
  BY DEF Message
<1>2. Steady(n, met)
  BY <1>1 DEF Steady, Daemon
<1> HIDE DEF met
<1>3. Steady(n, newer)
  BY <1>1, <1>2, NoLeaders DEF Steady, Daemon
<1>4. Told(d, s, m) = IF newer.leaders = <<>> THEN Learn(newer, m.leaders) ELSE newer
  BY DEF Told, met
<1> HIDE DEF newer
<1> QED
  BY <1>1, <1>3, <1>4, LearnSteady DEF Steady

\* Who goes away is taken out of both lists.
LEMMA ForgetSteady ==
  ASSUME NEW n, NEW d, Steady(n, d), NEW s \in Computer
  PROVE  Steady(n, Forget(d, s))
<1>1. /\ Without(d.leaders, s) \in Leaders
      /\ Range(Without(d.leaders, s)) \subseteq Range(d.leaders) \ {s}
  BY WithoutLeaders DEF Steady, Daemon
<1> QED
  BY <1>1 DEF Forget, Steady, Daemon

-----------------------------------------------------------------------------
(* The invariant.                                                          *)

IInv == TypeOK /\ Rightful(elections) /\ \A n \in Computer : Steady(n, daemon[n])

Net == [Computer -> [Computer -> Seq(Message)]]

LEMMA InitSteady == Init => IInv
<1> SUFFICES ASSUME Init PROVE IInv
  OBVIOUS
<1>1. \A n \in Computer : Steady(n, NewDaemon(n, 1))
  BY NewDaemonSteady
<1>2. daemon \in [Computer -> Daemon] /\ \A n \in Computer : Steady(n, daemon[n])
  BY <1>1 DEF Init, Steady
<1>3. net \in [Computer -> [Computer -> Seq(Message)]]
  <2>1. <<News("CLUSTER_UP")>> \in Seq(Message) /\ <<>> \in Seq(Message)
    BY NewsTyped
  <2> QED
    BY <2>1 DEF Init
<1>4. apart \subseteq Pairs /\ elections \in Seq(Computer) /\ lost \in 0..Losses /\ clients \subseteq Waiting
  BY ApartAssumption, ComputerAssumption DEF Init
<1>5. Rightful(elections)
  BY NobodyRightful DEF Init
<1> QED
  BY <1>2, <1>3, <1>4, <1>5 DEF IInv, TypeOK

LEMMA HereSound ==
  ASSUME IInv, NEW n \in Computer, NEW d, Steady(n, d)
  PROVE  Sound(n, [Here(n) EXCEPT !.d = d]) /\ Sound(n, Here(n))
<1>1. [m \in Computer |-> <<>>] \in [Computer -> Seq(Message)] /\ <<>> \in Seq(Computer)
  OBVIOUS
<1>2. Steady(n, daemon[n])
  BY DEF IInv
<1> QED
  BY <1>1, <1>2, NobodyRightful DEF Here, Sound, Steady

LEMMA PassedTyped ==
  ASSUME NEW n, NEW m, NEW s \in Seq(Message)
  PROVE  Passed(n, m, s) \in Seq(Message)
BY EmptySeq DEF Passed

\* What a handler leaves behind.
LEMMA SentKeeps ==
  ASSUME IInv, NEW n \in Computer, NEW X, Sound(n, X), NEW rest \in Net, Sent(X, rest)
  PROVE  /\ daemon' \in [Computer -> Daemon] /\ \A m \in Computer : Steady(m, daemon'[m])
         /\ net' \in Net /\ elections' \in Seq(Computer) /\ Rightful(elections')
<1>1. X.d.me = n /\ X.d \in Daemon /\ Steady(n, X.d)
  BY DEF Sound, Steady
<1>2. daemon' = [daemon EXCEPT ![n] = X.d] /\ elections' = elections \o X.won
  BY <1>1 DEF Sent
<1>3. daemon' \in [Computer -> Daemon] /\ \A m \in Computer : Steady(m, daemon'[m])
  BY <1>1, <1>2 DEF IInv, TypeOK
<1>4. net' \in Net
  <2> DEFINE row == [m \in Computer |-> rest[n][m] \o Passed(n, m, X.out[m])]
  <2>1. ASSUME NEW m \in Computer PROVE rest[n][m] \o Passed(n, m, X.out[m]) \in Seq(Message)
    <3>1. rest[n][m] \in Seq(Message)
      BY DEF Net
    <3>2. Passed(n, m, X.out[m]) \in Seq(Message)
      BY PassedTyped DEF Sound
    <3> QED
      BY <3>1, <3>2, ConcatProperties
  <2>2. row \in [Computer -> Seq(Message)]
    BY <2>1
  <2>3. net' = [rest EXCEPT ![n] = row]
    BY <1>1 DEF Sent, Net
  <2> HIDE DEF row
  <2> QED
    BY <2>2, <2>3 DEF Net
<1>5. elections' \in Seq(Computer) /\ Rightful(elections')
  <2> DEFINE e == elections \o X.won
  <2>1. elections \in Seq(Computer) /\ X.won \in Seq(Computer)
    BY DEF IInv, TypeOK, Sound
  <2>2. /\ e \in Seq(Computer) /\ Len(e) = Len(elections) + Len(X.won)
        /\ \A i \in 1..(Len(elections) + Len(X.won)) :
             e[i] = IF i <= Len(elections) THEN elections[i] ELSE X.won[i - Len(elections)]
    BY <2>1, ConcatProperties
  <2>3. Rightful(elections) /\ Rightful(X.won)
    BY DEF IInv, Sound
  <2>4. /\ Len(elections) \in Nat /\ Len(X.won) \in Nat
        /\ DOMAIN elections = 1..Len(elections) /\ DOMAIN X.won = 1..Len(X.won)
    BY <2>1, LenProperties
  <2> HIDE DEF e
  <2>5. DOMAIN e = 1..(Len(elections) + Len(X.won))
    BY <2>2, LenProperties
  <2>6. Rightful(e)
    <3> SUFFICES ASSUME Count <= 3, NEW i \in DOMAIN e, NEW m \in Computer PROVE m >= e[i]
      BY DEF Rightful
    <3>1. CASE i <= Len(elections)
      <4>1. e[i] = elections[i] /\ i \in DOMAIN elections
        BY <2>2, <2>4, <2>5, <3>1
      <4> QED
        BY <2>3, <4>1 DEF Rightful
    <3>2. CASE ~(i <= Len(elections))
      <4>1. e[i] = X.won[i - Len(elections)] /\ i - Len(elections) \in DOMAIN X.won
        BY <2>2, <2>4, <2>5, <3>2
      <4> QED
        BY <2>3, <4>1 DEF Rightful
    <3> QED
      BY <3>1, <3>2
  <2> QED
    BY <1>2, <2>2, <2>6 DEF e
<1> QED
  BY <1>3, <1>4, <1>5

LEMMA DoneKeeps ==
  ASSUME IInv, NEW s \in Computer, NEW n \in Computer, net[s][n] # <<>>,
         NEW X, Sound(n, X), Done(s, n, X)
  PROVE  IInv'
<1> DEFINE rest == [net EXCEPT ![s][n] = Tail(@)]
<1>1. rest \in Net
  <2>1. net \in Net
    BY DEF IInv, TypeOK, Net
  <2>2. Tail(net[s][n]) \in Seq(Message)
    BY <2>1 DEF Net
  <2> QED
    BY <2>1, <2>2 DEF Net
<1>2. Sent(X, rest)
  BY DEF Done
<1> HIDE DEF rest
<1>3. /\ daemon' \in [Computer -> Daemon] /\ \A m \in Computer : Steady(m, daemon'[m])
      /\ net' \in Net /\ elections' \in Seq(Computer) /\ Rightful(elections')
  BY <1>1, <1>2, SentKeeps
<1> QED
  BY <1>3 DEF Done, IInv, TypeOK, Net

\* What arrives is a message.
LEMMA ReceivedTyped ==
  ASSUME IInv, NEW s \in Computer, NEW n \in Computer, net[s][n] # <<>>
  PROVE  Received(s, n) \in Message
<1>1. net[s][n] \in Seq(Message)
  BY DEF IInv, TypeOK
<1> QED
  BY <1>1 DEF Received

-----------------------------------------------------------------------------
(* The handlers.                                                           *)

LEMMA MsgClusterUpKeeps ==
  ASSUME IInv, NEW n \in Computer, MsgClusterUp(n)
  PROVE  IInv'
<1> DEFINE X == ElectionStatus([Here(n) EXCEPT !.d = WithSelf(daemon[n])])
           Y == TellAll(X, LockStarted(X.d))
<1>1. net[n][n] # <<>>
  BY DEF MsgClusterUp, Arrived
<1>2. PICK pace \in BOOLEAN : Done(n, n, CheckLockStatus(Y, pace))
  BY DEF MsgClusterUp, Here
<1>3. Steady(n, WithSelf(daemon[n]))
  BY WithSelfSteady DEF IInv
<1>4. Sound(n, X)
  BY <1>3, HereSound, ElectionStatusSound DEF IInv, TypeOK
<1> HIDE DEF X
<1>5. Sound(n, Y)
  BY <1>4, TellAllSound, LockStartedTyped DEF Sound
<1> HIDE DEF Y
<1> QED
  BY <1>1, <1>2, <1>5, CheckLockStatusSound, DoneKeeps

LEMMA MsgClusterDownKeeps ==
  ASSUME IInv, NEW n \in Computer, MsgClusterDown(n)
  PROVE  IInv'
<1> DEFINE X == [Here(n) EXCEPT !.d = Leaderless(daemon[n])]
<1>1. net[n][n] # <<>> /\ Done(n, n, CheckLockStatus(X, FALSE))
  BY DEF MsgClusterDown, Arrived, Here
<1>2. Sound(n, X)
  BY LeaderlessSteady, HereSound DEF IInv
<1> HIDE DEF X
<1> QED
  BY <1>1, <1>2, CheckLockStatusSound, DoneKeeps

LEMMA MsgLockLeadersKeeps ==
  ASSUME IInv, NEW s \in Computer, NEW n \in Computer, MsgLockLeaders(s, n)
  PROVE  IInv'
<1> DEFINE X == [Here(n) EXCEPT !.d = Adopt(daemon[n], Received(s, n))]
<1>1. net[s][n] # <<>>
  BY DEF MsgLockLeaders, Arrived
<1>2. PICK pace \in BOOLEAN : Done(s, n, CheckLockStatus(X, pace))
  BY DEF MsgLockLeaders, Here
<1>3. Steady(n, Adopt(daemon[n], Received(s, n)))
  BY <1>1, AdoptSteady, ReceivedTyped DEF IInv
<1>4. Sound(n, X)
  BY <1>3, HereSound
<1> HIDE DEF X
<1> QED
  BY <1>1, <1>2, <1>4, CheckLockStatusSound, DoneKeeps

LEMMA MsgLockStartedKeeps ==
  ASSUME IInv, NEW s \in Computer, NEW n \in Computer, MsgLockStarted(s, n)
  PROVE  IInv'
<1> DEFINE m == Received(s, n)
           X == ElectionStatus([Here(n) EXCEPT !.d = Told(daemon[n], s, m)])
           answer == IsNews(daemon[n], s, m) \/ IsLeader(daemon[n]) # IsLeader(X.d)
           reply(Y) == IF answer THEN Tell(Y, s, LockStarted(Y.d)) ELSE Y
<1>1. net[s][n] # <<>>
  BY DEF MsgLockStarted, Arrived
<1>2. m \in Message /\ Steady(n, daemon[n])
  BY <1>1, ReceivedTyped DEF IInv
<1>3. \/ Done(s, n, Here(n))
      \/ \E pace \in BOOLEAN : Done(s, n, reply(CheckLockStatus(X, pace)))
  BY DEF MsgLockStarted, Here
<1>4. CASE Done(s, n, Here(n))
  BY <1>1, <1>2, <1>4, HereSound, DoneKeeps
<1>5. CASE \E pace \in BOOLEAN : Done(s, n, reply(CheckLockStatus(X, pace)))
  <2>1. PICK pace \in BOOLEAN : Done(s, n, reply(CheckLockStatus(X, pace)))
    BY <1>5
  <2>2. Steady(n, Told(daemon[n], s, m))
    BY <1>2, ToldSteady
  <2>3. Sound(n, X)
    BY <2>2, HereSound, ElectionStatusSound DEF IInv, TypeOK
  <2> HIDE DEF X, answer
  <2> DEFINE Y == CheckLockStatus(X, pace)
  <2>4. Sound(n, Y) /\ LockStarted(Y.d) \in Message
    BY <2>3, CheckLockStatusSound, LockStartedTyped DEF Sound
  <2> HIDE DEF Y
  <2>5. Sound(n, reply(Y))
    BY <2>4, TellSound
  <2> QED
    BY <1>1, <2>1, <2>5, DoneKeeps DEF Y
<1> QED
  BY <1>3, <1>4, <1>5

LEMMA MsgServerGoneKeeps ==
  ASSUME IInv, NEW s \in Computer, NEW n \in Computer, MsgServerGone(s, n)
  PROVE  IInv'
<1> DEFINE X == [Here(n) EXCEPT !.d = Forget(daemon[n], s)]
<1>1. net[s][n] # <<>>
  BY DEF MsgServerGone, Arrived
<1>2. Sound(n, X) /\ Sound(n, ElectionStatus(X))
  BY ForgetSteady, HereSound, ElectionStatusSound DEF IInv, TypeOK
<1>3. \/ \E pace \in BOOLEAN : Done(s, n, CheckLockStatus(ElectionStatus(X), pace))
      \/ Done(s, n, X)
  BY DEF MsgServerGone
<1> HIDE DEF X
<1> QED
  BY <1>1, <1>2, <1>3, CheckLockStatusSound, DoneKeeps

LEMMA CachedSteady ==
  ASSUME NEW n, NEW d, Steady(n, d), NEW cached \in BOOLEAN
  PROVE  Steady(n, [d EXCEPT !.cached = cached])
BY DEF Steady, Daemon

LEMMA MsgLockKeeps ==
  ASSUME IInv, NEW n \in Computer, MsgLock(n)
  PROVE  IInv'
<1> DEFINE cached == daemon[n].cached \/ ~Ready(daemon[n])
           d == [daemon[n] EXCEPT !.cached = cached]
           X == [Here(n) EXCEPT !.d = d]
<1>1. PICK pace \in BOOLEAN : Sent(Knock(X, pace), net)
  BY DEF MsgLock, Here
<1>2. cached \in BOOLEAN
  OBVIOUS
<1> HIDE DEF cached
<1>3. Steady(n, d)
  BY <1>2, CachedSteady DEF IInv
<1> HIDE DEF d
<1>4. Sound(n, X)
  BY <1>3, HereSound
<1> HIDE DEF X
<1>5. Sound(n, Knock(X, pace)) /\ net \in Net
  BY <1>4, KnockSound DEF IInv, TypeOK, Net
<1>6. /\ daemon' \in [Computer -> Daemon] /\ \A m \in Computer : Steady(m, daemon'[m])
      /\ net' \in Net /\ elections' \in Seq(Computer) /\ Rightful(elections')
  BY <1>1, <1>5, SentKeeps
<1> QED
  BY <1>6 DEF MsgLock, IInv, TypeOK, Net

LEMMA CacheTimeoutKeeps ==
  ASSUME IInv, NEW n \in Computer, CacheTimeout(n)
  PROVE  IInv'
<1> DEFINE d == [daemon[n] EXCEPT !.cached = FALSE]
<1>1. Steady(n, d)
  BY CachedSteady DEF IInv
<1>2. daemon' = [daemon EXCEPT ![n] = d]
  BY DEF CacheTimeout
<1> HIDE DEF d
<1>3. daemon' \in [Computer -> Daemon] /\ \A m \in Computer : Steady(m, daemon'[m])
  BY <1>1, <1>2 DEF IInv, TypeOK, Steady
<1> QED
  BY <1>3 DEF CacheTimeout, IInv, TypeOK

-----------------------------------------------------------------------------
(* The cluster.                                                            *)

LEMMA LeftTyped == \A s \in Seq(Message) : Left(s) \in Seq(Message)
BY NewsTyped DEF Left

LEMMA ClusterNewsTyped == \A n, cut : ClusterNews(n, cut) \in Seq(Message)
<1> TAKE n, cut
<1>1. <<News("CLUSTER_UP")>> \in Seq(Message) /\ <<News("CLUSTER_DOWN")>> \in Seq(Message)
      /\ <<>> \in Seq(Message)
  BY NewsTyped
<1> QED
  BY <1>1 DEF ClusterNews

LEMMA LoseConnectionKeeps ==
  ASSUME IInv, NEW n \in Computer, NEW m \in Computer, LoseConnection(n, m)
  PROVE  IInv'
<1>0. n # m
  <2>1. n \in Nat /\ m \in Nat
    BY ComputerAssumption
  <2> QED
    BY <2>1 DEF LoseConnection
<1>1. net' \in Net
  <2>1. ASSUME NEW i \in Computer, NEW j \in Computer
        PROVE  (CASE {i, j} = {n, m} -> <<News("HANGUP")>>
                  [] i = j -> net[i][j] \o ClusterNews(i, apart')
                  [] OTHER -> IF CutOff(i, j, apart') THEN Left(net[i][j]) ELSE net[i][j])
               \in Seq(Message)
    <3>1. net[i][j] \in Seq(Message)
      BY DEF IInv, TypeOK
    <3>2. <<News("HANGUP")>> \in Seq(Message)
      BY NewsTyped
    <3>3. net[i][j] \o ClusterNews(i, apart') \in Seq(Message)
      BY <3>1, ClusterNewsTyped, ConcatProperties
    <3>4. Left(net[i][j]) \in Seq(Message)
      BY <3>1, LeftTyped
    <3>5. {i, j} = {n, m} => i # j
      BY <1>0
    <3> QED
      BY <3>1, <3>2, <3>3, <3>4, <3>5
  <2> QED
    BY <2>1 DEF LoseConnection, Net
<1>2. apart' \subseteq Pairs
  <2>1. {n, m} \in Pairs
    BY <1>0 DEF Pairs
  <2> QED
    BY <2>1 DEF LoseConnection, IInv, TypeOK
<1>3. lost' \in 0..Losses
  <2>1. Losses \in Nat /\ lost \in 0..Losses
    BY ComputerAssumption DEF IInv, TypeOK
  <2>2. lost < Losses /\ lost' = lost + 1
    BY DEF LoseConnection
  <2> QED
    BY <2>1, <2>2
<1> QED
  BY <1>1, <1>2, <1>3 DEF LoseConnection, IInv, TypeOK, Net

LEMMA ReconnectKeeps ==
  ASSUME IInv, NEW n \in Computer, NEW m \in Computer, Reconnect(n, m)
  PROVE  IInv'
<1>1. net' \in Net
  <2>1. ASSUME NEW i \in Computer
        PROVE  [net[i] EXCEPT ![i] = @ \o ClusterNews(i, apart')] \in [Computer -> Seq(Message)]
    <3>1. net[i] \in [Computer -> Seq(Message)] /\ net[i][i] \in Seq(Message)
      BY DEF IInv, TypeOK
    <3>2. net[i][i] \o ClusterNews(i, apart') \in Seq(Message)
      BY <3>1, ClusterNewsTyped, ConcatProperties
    <3> QED
      BY <3>1, <3>2
  <2> QED
    BY <2>1 DEF Reconnect, Net
<1> QED
  BY <1>1 DEF Reconnect, IInv, TypeOK, Net

LEMMA RestartKeeps ==
  ASSUME IInv, NEW n \in Computer, Restart(n)
  PROVE  IInv'
<1>1. Steady(n, NewDaemon(n, daemon[n].start + 1))
  <2>1. daemon[n].start \in Nat
    BY DEF IInv, TypeOK, Daemon
  <2> QED
    BY <2>1, NewDaemonSteady
<1>2. daemon' \in [Computer -> Daemon] /\ \A m \in Computer : Steady(m, daemon'[m])
  BY <1>1 DEF Restart, IInv, TypeOK, Steady
<1>3. net' \in Net
  <2>1. ASSUME NEW i \in Computer
        PROVE  [net[i] EXCEPT ![n] = IF i = n /\ ClusterIsUp(n, apart)
                                     THEN <<News("CLUSTER_UP")>> ELSE <<>>]
               \in [Computer -> Seq(Message)]
    <3>1. <<News("CLUSTER_UP")>> \in Seq(Message) /\ <<>> \in Seq(Message)
      BY NewsTyped
    <3> QED
      BY <3>1 DEF IInv, TypeOK
  <2> QED
    BY <2>1 DEF Restart, Net
<1> QED
  BY <1>2, <1>3 DEF Restart, IInv, TypeOK, Net

LEMMA NextKeeps == IInv /\ [Next]_vars => IInv'
<1> SUFFICES ASSUME IInv, [Next]_vars PROVE IInv'
  OBVIOUS
<1>1. CASE \E s, n \in Computer : Handle(s, n)
  BY <1>1, MsgLockLeadersKeeps, MsgLockStartedKeeps, MsgServerGoneKeeps DEF Handle
<1>2. CASE \E n \in Computer : Hear(n) \/ MsgLock(n) \/ CacheTimeout(n) \/ Restart(n)
  BY <1>2, MsgClusterUpKeeps, MsgClusterDownKeeps, MsgLockKeeps, CacheTimeoutKeeps, RestartKeeps
     DEF Hear
<1>3. CASE \E n, m \in Computer : LoseConnection(n, m) \/ Reconnect(n, m)
  BY <1>3, LoseConnectionKeeps, ReconnectKeeps
<1>4. CASE UNCHANGED vars
  BY <1>4 DEF vars, IInv, TypeOK, Steady, Rightful
<1> QED
  BY <1>1, <1>2, <1>3, <1>4 DEF Next

\* In every execution, whatever connections are lost and daemons start again, a daemon and a
\* message name three leaders at most, and none of them twice.
THEOREM TypeCorrect == Spec => []TypeOK
<1>1. IInv => TypeOK
  BY DEF IInv
<1> QED
  BY <1>1, InitSteady, NextKeeps, PTL DEF Spec

\* In every execution, the leaders of a daemon are computers that it knows: whoever went away
\* leads no more.
THEOREM WhoIsGoneLeadsNoMore == Spec => []LeadersKnown
<1>1. IInv => LeadersKnown
  BY DEF IInv, Steady, LeadersKnown
<1> QED
  BY <1>1, InitSteady, NextKeeps, PTL DEF Spec

\* In every execution of a cluster of up to three computers, only the one with the smallest IP
\* address elects: the others may not before they know it.
THEOREM SmallestElects ==
  ASSUME Count <= 3
  PROVE  Spec => []OneElector
<1>1. IInv => OneElector
  BY DEF IInv, Rightful, OneElector
<1> QED
  BY <1>1, InitSteady, NextKeeps, PTL DEF Spec

-----------------------------------------------------------------------------
(* Queues.                                                                 *)

LEMMA HeadAndTail ==
  ASSUME NEW S, NEW s \in Seq(S), s # <<>>
  PROVE  Head(s) \in Range(s) /\ Range(Tail(s)) \subseteq Range(s)
<1>1. DOMAIN s = 1..Len(s) /\ Len(s) \in Nat \ {0} /\ Head(s) = s[1]
  BY LenProperties, EmptySeq
<1>2. /\ Tail(s) \in Seq(S) /\ Len(Tail(s)) = Len(s) - 1
      /\ \A i \in 1..Len(Tail(s)) : Tail(s)[i] = s[i + 1]
  BY HeadTailProperties
<1>3. DOMAIN Tail(s) = 1..(Len(s) - 1)
  BY <1>2, LenProperties
<1>4. \A i \in DOMAIN Tail(s) : Tail(s)[i] = s[i + 1] /\ i + 1 \in DOMAIN s
  BY <1>1, <1>2, <1>3
<1> QED
  BY <1>1, <1>4 DEF Range

LEMMA BothParts ==
  ASSUME NEW S, NEW s \in Seq(S), NEW t \in Seq(S)
  PROVE  Range(s \o t) = Range(s) \cup Range(t)
<1> DEFINE c == s \o t
<1>1. /\ c \in Seq(S) /\ Len(c) = Len(s) + Len(t)
      /\ \A i \in 1..(Len(s) + Len(t)) : c[i] = IF i <= Len(s) THEN s[i] ELSE t[i - Len(s)]
  BY ConcatProperties
<1> HIDE DEF c
<1>2. /\ Len(s) \in Nat /\ DOMAIN s = 1..Len(s) /\ Len(t) \in Nat /\ DOMAIN t = 1..Len(t)
      /\ DOMAIN c = 1..(Len(s) + Len(t))
  BY <1>1, LenProperties
<1>3. ASSUME NEW x \in Range(c) PROVE x \in Range(s) \cup Range(t)
  <2>1. PICK i \in DOMAIN c : x = c[i]
    BY DEF Range
  <2>2. CASE i <= Len(s)
    BY <1>1, <1>2, <2>1, <2>2 DEF Range
  <2>3. CASE ~(i <= Len(s))
    <3>1. i - Len(s) \in DOMAIN t /\ x = t[i - Len(s)]
      BY <1>1, <1>2, <2>1, <2>3
    <3> QED
      BY <3>1 DEF Range
  <2> QED
    BY <2>2, <2>3
<1>4. ASSUME NEW x \in Range(s) PROVE x \in Range(c)
  <2>1. PICK i \in DOMAIN s : x = s[i]
    BY DEF Range
  <2>2. i \in DOMAIN c /\ c[i] = x
    BY <1>1, <1>2, <2>1
  <2> QED
    BY <2>2 DEF Range
<1>5. ASSUME NEW x \in Range(t) PROVE x \in Range(c)
  <2>1. PICK i \in DOMAIN t : x = t[i]
    BY DEF Range
  <2>2. i + Len(s) \in DOMAIN c /\ c[i + Len(s)] = x
    BY <1>1, <1>2, <2>1
  <2> QED
    BY <2>2 DEF Range
<1> QED
  BY <1>3, <1>4, <1>5 DEF c

LEMMA RangeOfNews == \A m : Range(<<m>>) = {m}
<1> TAKE m
<1>1. DOMAIN <<m>> = {1} /\ <<m>>[1] = m
  OBVIOUS
<1> QED
  BY <1>1 DEF Range

-----------------------------------------------------------------------------
(* The news of the cluster.                                                *)

\* What the communicatord says of the cluster goes to and fro: the daemon, for which it is up
\* or not, has not heard the first of it, and the last is what holds now.
Alternates(q, up, now) ==
  /\ \A i \in DOMAIN q : q[i].type \in {"CLUSTER_UP", "CLUSTER_DOWN"}
  /\ \A i \in 1..(Len(q) - 1) : q[i].type # q[i + 1].type
  /\ q = <<>> => (up <=> now)
  /\ q # <<>> => /\ q[1].type = "CLUSTER_UP" <=> ~up
                 /\ q[Len(q)].type = "CLUSTER_UP" <=> now

LEMMA AlternatesTail ==
  ASSUME NEW S, NEW q \in Seq(S), q # <<>>, NEW up, NEW now, Alternates(q, up, now)
  PROVE  Alternates(Tail(q), Head(q).type = "CLUSTER_UP", now)
<1> DEFINE t == Tail(q)
<1>1. DOMAIN q = 1..Len(q) /\ Len(q) \in Nat \ {0} /\ Head(q) = q[1]
  BY LenProperties, EmptySeq
<1>2. /\ t \in Seq(S) /\ Len(t) = Len(q) - 1
      /\ \A i \in 1..Len(t) : t[i] = q[i + 1]
  BY HeadTailProperties
<1> HIDE DEF t
<1>3. DOMAIN t = 1..(Len(q) - 1) /\ (t = <<>> <=> Len(q) = 1)
  BY <1>1, <1>2, LenProperties, EmptySeq
<1>4. \A i \in DOMAIN t : t[i].type \in {"CLUSTER_UP", "CLUSTER_DOWN"}
  <2>1. \A i \in DOMAIN t : t[i] = q[i + 1] /\ i + 1 \in DOMAIN q
    BY <1>1, <1>2, <1>3
  <2> QED
    BY <2>1 DEF Alternates
<1>5. \A i \in 1..(Len(t) - 1) : t[i].type # t[i + 1].type
  <2> TAKE i \in 1..(Len(t) - 1)
  <2>1. t[i] = q[i + 1] /\ t[i + 1] = q[(i + 1) + 1] /\ i + 1 \in 1..(Len(q) - 1)
    BY <1>1, <1>2
  <2> QED
    BY <2>1 DEF Alternates
<1>6. t # <<>> => /\ t[1].type = "CLUSTER_UP" <=> Head(q).type # "CLUSTER_UP"
                  /\ t[Len(t)].type = "CLUSTER_UP" <=> now
  <2> SUFFICES ASSUME t # <<>>
               PROVE  /\ t[1].type = "CLUSTER_UP" <=> Head(q).type # "CLUSTER_UP"
                      /\ t[Len(t)].type = "CLUSTER_UP" <=> now
    OBVIOUS
  <2>1. Len(q) >= 2 /\ t[1] = q[2] /\ t[Len(t)] = q[Len(q)] /\ 1 \in 1..(Len(q) - 1)
    BY <1>1, <1>2, <1>3
  <2>2. q[1].type # q[1 + 1].type /\ 1 + 1 = 2 /\ 1 \in DOMAIN q /\ 2 \in DOMAIN q
    BY <1>1, <2>1 DEF Alternates
  <2> QED
    BY <1>1, <2>1, <2>2 DEF Alternates
<1>7. t = <<>> => (Head(q).type = "CLUSTER_UP" <=> now)
  BY <1>1, <1>3 DEF Alternates
<1> QED
  BY <1>4, <1>5, <1>6, <1>7 DEF t, Alternates

LEMMA AlternatesMore ==
  ASSUME NEW q \in Seq(Message), NEW up, NEW now \in BOOLEAN, NEW next \in BOOLEAN, next # now,
         Alternates(q, up, now)
  PROVE  Alternates(q \o <<News(IF next THEN "CLUSTER_UP" ELSE "CLUSTER_DOWN")>>, up, next)
<1> DEFINE m == News(IF next THEN "CLUSTER_UP" ELSE "CLUSTER_DOWN")
           c == q \o <<m>>
<1>1. m \in Message /\ m.type = IF next THEN "CLUSTER_UP" ELSE "CLUSTER_DOWN"
  BY NewsTyped DEF News
<1> HIDE DEF m
<1>2. /\ c \in Seq(Message) /\ Len(c) = Len(q) + 1
      /\ \A i \in 1..Len(q) : c[i] = q[i]
      /\ c[Len(q) + 1] = m
  BY <1>1
<1> HIDE DEF c
<1>3. /\ Len(q) \in Nat /\ DOMAIN q = 1..Len(q) /\ DOMAIN c = 1..(Len(q) + 1) /\ c # <<>>
      /\ q = <<>> <=> Len(q) = 0
  BY <1>2, LenProperties, EmptySeq
<1>4. \A i \in DOMAIN c : c[i].type \in {"CLUSTER_UP", "CLUSTER_DOWN"}
  <2> TAKE i \in DOMAIN c
  <2>1. i \in DOMAIN q \/ i = Len(q) + 1
    BY <1>3
  <2> QED
    BY <1>1, <1>2, <1>3, <2>1 DEF Alternates
<1>5. \A i \in 1..(Len(c) - 1) : c[i].type # c[i + 1].type
  <2> TAKE i \in 1..(Len(c) - 1)
  <2>1. CASE i = Len(q)
    <3>1. c[i] = q[Len(q)] /\ c[i + 1] = m /\ q # <<>>
      BY <1>2, <1>3, <2>1
    <3>2. q[Len(q)].type = "CLUSTER_UP" <=> now
      BY <3>1 DEF Alternates
    <3> QED
      BY <1>1, <3>1, <3>2
  <2>2. CASE i # Len(q)
    <3>0. Len(q) \in Nat /\ i \in 1..Len(q)
      BY <1>2, <1>3
    <3>1. i \in 1..(Len(q) - 1) /\ i \in 1..Len(q) /\ i + 1 \in 1..Len(q)
      BY <2>2, <3>0
    <3>2. c[i] = q[i] /\ c[i + 1] = q[i + 1]
      BY <1>2, <3>1
    <3> QED
      BY <3>1, <3>2 DEF Alternates
  <2> QED
    BY <2>1, <2>2
<1>6. c[Len(c)].type = "CLUSTER_UP" <=> next
  BY <1>1, <1>2
<1>7. c[1].type = "CLUSTER_UP" <=> ~up
  <2>1. CASE q = <<>>
    BY <1>1, <1>2, <1>3, <2>1 DEF Alternates
  <2>2. CASE q # <<>>
    BY <1>2, <1>3, <2>2 DEF Alternates
  <2> QED
    BY <2>1, <2>2
<1> QED
  BY <1>3, <1>4, <1>5, <1>6, <1>7 DEF Alternates, c, m

-----------------------------------------------------------------------------
(* A computer without a quorum.                                            *)

\* In a cluster of three, whoever has no quorum is connected to nobody.
LEMMA Isolation ==
  ASSUME Count <= 3, NEW cut, cut \subseteq Pairs,
         NEW n \in Computer, ~ClusterIsUp(n, cut), NEW m \in Computer \ {n}
  PROVE  {m, n} \in cut /\ CutOff(m, n, cut)
<1>1. n \in Reach(n, cut)
  BY DEF Reach, Pairs
<1>2. IsFiniteSet(Reach(n, cut)) /\ Cardinality(Reach(n, cut)) \in Nat
  BY ComputerAssumption, FS_Subset, FS_CardinalityType DEF Reach
<1>3. Cardinality(Reach(n, cut)) < 2
  <2>1. Count \in 0..3
    BY CountIs
  <2>2. Quorum <= 2
    <3>1. 0 \div 2 + 1 = 1 /\ 1 \div 2 + 1 = 1 /\ 2 \div 2 + 1 = 2 /\ 3 \div 2 + 1 = 2
      OBVIOUS
    <3>2. Count = 0 \/ Count = 1 \/ Count = 2 \/ Count = 3
      BY <2>1
    <3> QED
      BY <3>1, <3>2 DEF Quorum
  <2>3. Quorum \in Int
    BY CountIs DEF Quorum
  <2> QED
    BY <1>2, <2>2, <2>3 DEF ClusterIsUp
<1>4. Reach(n, cut) = {n}
  <2>1. IsFiniteSet({n}) /\ Cardinality({n}) = 1
    BY FS_Singleton
  <2>2. {n} \subseteq Reach(n, cut)
    BY <1>1
  <2>3. /\ Cardinality({n}) <= Cardinality(Reach(n, cut))
        /\ Cardinality({n}) = Cardinality(Reach(n, cut)) => {n} = Reach(n, cut)
    BY <1>2, <2>2, FS_Subset
  <2> QED
    BY <1>2, <1>3, <2>1, <2>3
<1>5. \A i \in Computer \ {n} : {i, n} \in cut /\ {n, i} \in cut
  BY <1>4 DEF Reach
<1>6. CutOff(m, n, cut)
  <2> DEFINE S == Computer \ {n}
  <2>1. S \in SUBSET Computer /\ m \in S /\ n \notin S
    OBVIOUS
  <2>2. \A i \in S, j \in Computer \ S : {i, j} \in cut
    BY <1>5
  <2> QED
    BY <2>1, <2>2 DEF CutOff
<1> QED
  BY <1>5, <1>6

-----------------------------------------------------------------------------
(* What a handler says, and what it leaves as it was.                      *)

\* A daemon sends nothing to itself.
Mute(n, X) == Sound(n, X) /\ X.out[n] = <<>>

\* Only the news of the cluster change what a daemon thinks of it.
SameCluster(d, e) == e.up = d.up /\ e.count = d.count

\* What a handler does before it looks at the status of the locks.
SameStatus(d, e) == e.ready = d.ready /\ e.cached = d.cached

LEMMA TellMute ==
  ASSUME NEW n, NEW X, Mute(n, X), NEW m, m # n, NEW msg \in Message
  PROVE  Mute(n, Tell(X, m, msg)) /\ Tell(X, m, msg).d = X.d
<1>1. Sound(n, Tell(X, m, msg)) /\ Tell(X, m, msg).d = X.d
  BY TellSound DEF Mute
<1>2. Tell(X, m, msg).out[n] = X.out[n]
  BY DEF Tell, Mute, Sound
<1> QED
  BY <1>1, <1>2 DEF Mute

LEMMA TellAllMute ==
  ASSUME NEW n \in Computer, NEW X, Mute(n, X), NEW msg \in Message
  PROVE  Mute(n, TellAll(X, msg)) /\ TellAll(X, msg).d = X.d
<1>1. Sound(n, TellAll(X, msg)) /\ TellAll(X, msg).d = X.d
  BY TellAllSound DEF Mute
<1>2. TellAll(X, msg).out[n] = X.out[n]
  BY DEF TellAll, Mute, Sound, Steady
<1> QED
  BY <1>1, <1>2 DEF Mute

LEMMA KnockMute ==
  ASSUME NEW n, NEW X, Mute(n, X), NEW pace
  PROVE  Mute(n, Knock(X, pace)) /\ Knock(X, pace).d = X.d
<1>1. LockStarted(X.d) \in Message /\ X.d.me = n
  BY LockStartedTyped DEF Mute, Sound, Steady
<1> QED
  BY <1>1, TellMute DEF Knock

\* check_lock_status() sets the status, and looks after what was put aside.
LEMMA CheckLockStatusMute ==
  ASSUME NEW n, NEW X, Mute(n, X), NEW pace
  PROVE  /\ Mute(n, CheckLockStatus(X, pace))
         /\ CheckLockStatus(X, pace).d =
              [X.d EXCEPT !.ready = Ready(X.d),
                          !.cached = IF Ready(X.d) = X.d.ready THEN X.d.cached
                                     ELSE X.d.cached /\ ~Ready(X.d)]
<1> DEFINE Y == Knock(X, pace)
           now == Ready(X.d)
           Z == [Y EXCEPT !.d.ready = now, !.d.cached = @ /\ ~now]
           d == [X.d EXCEPT !.ready = now,
                            !.cached = IF now = X.d.ready THEN X.d.cached ELSE X.d.cached /\ ~now]
<1>1. Mute(n, Y) /\ Y.d = X.d
  BY KnockMute
<1>2. CheckLockStatus(X, pace) = IF now = X.d.ready THEN Y ELSE Z
  BY DEF CheckLockStatus
<1>3. Sound(n, CheckLockStatus(X, pace))
  BY CheckLockStatusSound DEF Mute
<1> HIDE DEF Y, now
<1>4. CASE now = X.d.ready
  <2>1. X.d = d
    BY <1>4 DEF Mute, Sound, Daemon
  <2> QED
    BY <1>1, <1>2, <1>4, <2>1 DEF now
<1>5. CASE now # X.d.ready
  <2>1. Z.d = d /\ Z.out = Y.out
    BY <1>1, <1>5 DEF Mute, Sound, Daemon
  <2>2. CheckLockStatus(X, pace) = Z
    BY <1>2, <1>5
  <2> HIDE DEF Z, d
  <2>3. Mute(n, CheckLockStatus(X, pace))
    BY <1>1, <1>3, <2>1, <2>2 DEF Mute
  <2>4. CheckLockStatus(X, pace).d = d
    BY <2>1, <2>2
  <2> QED
    BY <2>3, <2>4 DEF d, now
<1> QED
  BY <1>4, <1>5

LEMMA ElectionStatusMute ==
  ASSUME NEW n \in Computer, NEW X, Mute(n, X), elections \in Seq(Computer)
  PROVE  /\ Mute(n, ElectionStatus(X)) /\ SameCluster(X.d, ElectionStatus(X).d)
         /\ SameStatus(X.d, ElectionStatus(X).d)
<1> DEFINE best == Best(Candidates(X.d))
           date == Len(elections) + 1
           result == [News("LOCK_LEADERS") EXCEPT !.date = date, !.leaders = best]
           Y == [X EXCEPT !.d = Elected(X.d, best, date), !.won = <<X.d.me>>]
<1>1. Sound(n, ElectionStatus(X)) /\ X.d.me = n
  BY ElectionStatusSound DEF Mute, Sound, Steady
<1>2. ElectionStatus(X) = X \/ ElectionStatus(X) = TellAll(Y, result)
  BY DEF ElectionStatus
<1> HIDE DEF best, date, result
<1>3. Y.out = X.out /\ Y.d.me = n /\ SameCluster(X.d, Y.d) /\ SameStatus(X.d, Y.d)
  BY <1>1 DEF Mute, Sound, Elected, SameCluster, SameStatus, Daemon
<1> HIDE DEF Y
<1>4. TellAll(Y, result).d = Y.d /\ TellAll(Y, result).out[n] = X.out[n]
  <2>1. Y \in [d : {Y.d}, out : {Y.out}, won : {Y.won}]
    BY DEF Y, Mute, Sound
  <2> QED
    BY <1>3, <2>1 DEF TellAll
<1> QED
  BY <1>1, <1>2, <1>3, <1>4 DEF Mute, SameCluster, SameStatus

LEMMA ToldSameStatus ==
  ASSUME NEW d \in Daemon, NEW s, NEW m
  PROVE  SameStatus(d, Told(d, s, m)) /\ SameCluster(d, Told(d, s, m))
<1> DEFINE met == [d EXCEPT !.known = @ \cup {s}, !.linked = @ \cup {s}, !.starts[s] = m.start]
           newer == IF m.date > d.date
                    THEN [met EXCEPT !.date = m.date, !.leaders = <<>>, !.former = "NO"] ELSE met
           learned == Learn(newer, m.leaders)
<1>1. SameStatus(d, newer) /\ SameCluster(d, newer)
  BY DEF SameStatus, SameCluster, Daemon
<1>2. SameStatus(d, learned) /\ SameCluster(d, learned)
  BY <1>1 DEF Learn, SameStatus, SameCluster, Daemon
<1>3. Told(d, s, m) = IF newer.leaders = <<>> THEN learned ELSE newer
  BY DEF Told
<1> HIDE DEF newer, learned
<1> QED
  BY <1>1, <1>2, <1>3

\* The message that a handler reads is the first of its queue.
LEMMA TailTaken ==
  ASSUME IInv, NEW s \in Computer, NEW n \in Computer, net[s][n] # <<>>
  PROVE  LET rest == [net EXCEPT ![s][n] = Tail(@)]
         IN  /\ rest \in Net
             /\ \A i, j \in Computer :
                  rest[i][j] = IF i = s /\ j = n THEN Tail(net[s][n]) ELSE net[i][j]
<1>1. net \in Net /\ net[s][n] \in Seq(Message)
  BY DEF IInv, TypeOK, Net
<1>2. Tail(net[s][n]) \in Seq(Message)
  BY <1>1
<1> QED
  BY <1>1, <1>2 DEF Net

\* Where the messages are after a handler.
LEMMA SentQueues ==
  ASSUME NEW n \in Computer, NEW X, Mute(n, X), NEW rest \in Net, Sent(X, rest)
  PROVE  /\ \A i, j \in Computer :
              net'[i][j] = IF i = n THEN rest[i][j] \o Passed(i, j, X.out[j]) ELSE rest[i][j]
         /\ \A i \in Computer : net'[i][i] = rest[i][i]
<1> DEFINE row == [j \in Computer |-> rest[n][j] \o Passed(n, j, X.out[j])]
<1>1. X.d.me = n
  BY DEF Mute, Sound, Steady
<1>2. net' = [rest EXCEPT ![n] = row]
  BY <1>1 DEF Sent, Net
<1>3. \A i, j \in Computer :
        net'[i][j] = IF i = n THEN rest[i][j] \o Passed(i, j, X.out[j]) ELSE rest[i][j]
  BY <1>2 DEF Net
<1>4. rest[n][n] \o Passed(n, n, X.out[n]) = rest[n][n]
  <2>1. rest[n][n] \in Seq(Message)
    BY DEF Net
  <2>2. Passed(n, n, X.out[n]) = <<>>
    BY DEF Passed, Mute
  <2> QED
    BY <2>1, <2>2, ConcatEmptySeq
<1> QED
  BY <1>3, <1>4

-----------------------------------------------------------------------------
(* Without a cluster there are no locks.                                   *)

NewsInTurn(n) == Alternates(net[n][n], daemon[n].up, ClusterIsUp(n, apart))

\* Without a quorum a computer hears nothing but HANGUPs.
OnlyHangups(s) == \A m \in Range(s) : m.type = "HANGUP"
Alone(n) ==
  ~ClusterIsUp(n, apart) => \A m \in Computer \ {n} : OnlyHangups(net[m][n])

\* Without a cluster there are no leaders, and no locks.
Idle(d) == d.count # 0 /\ ~d.up => d.leaders = <<>> /\ ~d.ready

DownInv == IInv /\ \A n \in Computer : NewsInTurn(n) /\ Alone(n) /\ Idle(daemon[n])

\* Without leaders a daemon is not ready.
LEMMA LeaderlessNotReady == \A d : d.leaders = <<>> => Ready(d) = FALSE
BY DEF Ready, EnoughLeaders

LEMMA CheckLockStatusIdle ==
  ASSUME NEW n, NEW X, Mute(n, X), NEW pace, Idle(X.d) \/ X.d.leaders = <<>>
  PROVE  /\ Idle(CheckLockStatus(X, pace).d)
         /\ SameCluster(X.d, CheckLockStatus(X, pace).d)
<1> DEFINE now == Ready(X.d)
           kept == IF now = X.d.ready THEN X.d.cached ELSE X.d.cached /\ ~now
<1>1. CheckLockStatus(X, pace).d = [X.d EXCEPT !.ready = now, !.cached = kept]
  BY CheckLockStatusMute
<1>2. X.d.leaders = <<>> => now = FALSE
  BY LeaderlessNotReady
<1> HIDE DEF now, kept
<1> QED
  BY <1>1, <1>2 DEF Idle, SameCluster, Mute, Sound, Daemon

\* A daemon without a cluster hears only that the others are gone.
LEMMA HearsHangups ==
  ASSUME Count <= 3, DownInv, NEW n \in Computer, daemon[n].count # 0, ~daemon[n].up,
         NEW s \in Computer, NEW type, Arrived(s, n, type), s # n
  PROVE  type = "HANGUP"
<1>1. net[n][n] = <<>> \/ net[n][n][1].type = "CLUSTER_UP"
  BY DEF DownInv, NewsInTurn, Alternates
<1>2. net[n][n] = <<>>
  <2>1. net[n][n] \in Seq(Message)
    BY DEF DownInv, IInv, TypeOK
  <2>2. net[n][n] # <<>> => Head(net[n][n]) = net[n][n][1]
    BY <2>1
  <2> QED
    BY <1>1, <2>2 DEF Arrived, NewsFirst
<1>3. ~ClusterIsUp(n, apart)
  BY <1>2 DEF DownInv, NewsInTurn, Alternates
<1>4. OnlyHangups(net[s][n])
  BY <1>3 DEF DownInv, Alone
<1>5. Head(net[s][n]) \in Range(net[s][n])
  <2>1. net[s][n] \in Seq(Message) /\ net[s][n] # <<>>
    BY DEF DownInv, IInv, TypeOK, Arrived
  <2> QED
    BY <2>1, HeadAndTail
<1> QED
  BY <1>4, <1>5 DEF OnlyHangups, Arrived

\* What a handler leaves of the messages.  Those of the communicatord about the cluster are
\* read one by one.
LEMMA SentAlone ==
  ASSUME Count <= 3, DownInv, NEW n \in Computer, NEW X, Mute(n, X), NEW rest \in Net,
         Sent(X, rest), UNCHANGED apart,
         \A i, j \in Computer : Range(rest[i][j]) \subseteq Range(net[i][j])
  PROVE  \A j \in Computer : Alone(j)'
<1> SUFFICES ASSUME NEW j \in Computer, ~ClusterIsUp(j, apart), NEW i \in Computer \ {j}
             PROVE  OnlyHangups(net'[i][j])
  BY DEF Alone, ClusterIsUp, Reach
<1>1. OnlyHangups(rest[i][j])
  BY DEF DownInv, Alone, OnlyHangups
<1>2. net'[i][j] = rest[i][j] \/ net'[i][j] = rest[i][j] \o <<>>
  <2>1. CutOff(i, j, apart)
    <3>1. apart \subseteq Pairs
      BY DEF DownInv, IInv, TypeOK
    <3> QED
      BY <3>1, Isolation
  <2>2. Passed(i, j, X.out[j]) = <<>>
    BY <2>1 DEF Passed
  <2>3. net'[i][j] = IF i = n THEN rest[i][j] \o Passed(i, j, X.out[j]) ELSE rest[i][j]
    BY SentQueues
  <2> QED
    BY <2>2, <2>3
<1>3. rest[i][j] \o <<>> = rest[i][j]
  <2>1. rest[i][j] \in Seq(Message)
    BY DEF Net
  <2> QED
    BY <2>1, ConcatEmptySeq
<1> QED
  BY <1>1, <1>2, <1>3

\* What a handler leaves behind: s says what it says, n is where it was said.
LEMMA DoneDown ==
  ASSUME Count <= 3, DownInv, NEW s \in Computer, NEW n \in Computer, net[s][n] # <<>>,
         NEW X, Mute(n, X), Done(s, n, X), Idle(X.d),
         IF s = n THEN X.d.up <=> Head(net[n][n]).type = "CLUSTER_UP" ELSE X.d.up = daemon[n].up
  PROVE  DownInv'
<1> DEFINE rest == [net EXCEPT ![s][n] = Tail(@)]
<1>1. net[s][n] \in Seq(Message)
  BY DEF DownInv, IInv, TypeOK
<1>2. /\ rest \in Net
      /\ \A i, j \in Computer :
           rest[i][j] = IF i = s /\ j = n THEN Tail(net[s][n]) ELSE net[i][j]
  BY TailTaken DEF DownInv
<1>3. Sent(X, rest) /\ UNCHANGED apart
  BY DEF Done
<1> HIDE DEF rest
<1>4. \A i, j \in Computer : Range(rest[i][j]) \subseteq Range(net[i][j])
  BY <1>1, <1>2, HeadAndTail
<1>5. \A j \in Computer : Alone(j)'
  BY <1>2, <1>3, <1>4, SentAlone
<1>6. IInv'
  BY DoneKeeps DEF DownInv, Mute
<1>7. daemon' = [daemon EXCEPT ![n] = X.d]
  BY <1>3 DEF Sent, Mute, Sound, Steady
<1>8. \A i \in Computer : daemon'[i] = IF i = n THEN X.d ELSE daemon[i]
  BY <1>7 DEF DownInv, IInv, TypeOK
<1>9. ASSUME NEW i \in Computer PROVE NewsInTurn(i)'
  <2>1. ClusterIsUp(i, apart)' = ClusterIsUp(i, apart) /\ ClusterIsUp(i, apart) \in BOOLEAN
    BY <1>3 DEF ClusterIsUp, Reach
  <2>2. net'[i][i] = rest[i][i]
    BY <1>2, <1>3, SentQueues
  <2>3. Alternates(net[i][i], daemon[i].up, ClusterIsUp(i, apart))
    BY DEF DownInv, NewsInTurn
  <2>4. CASE i = s /\ s = n
    <3>1. Alternates(Tail(net[n][n]), Head(net[n][n]).type = "CLUSTER_UP", ClusterIsUp(n, apart))
      BY <1>1, <2>3, <2>4, AlternatesTail
    <3>2. X.d.up = (Head(net[n][n]).type = "CLUSTER_UP")
      BY <2>4 DEF Mute, Sound, Daemon
    <3> QED
      BY <1>2, <1>8, <2>1, <2>2, <2>4, <3>1, <3>2 DEF NewsInTurn
  <2>5. CASE ~(i = s /\ s = n)
    <3>1. net'[i][i] = net[i][i] /\ daemon'[i].up = daemon[i].up
      BY <1>2, <1>8, <2>2, <2>5
    <3> QED
      BY <2>1, <2>3, <3>1 DEF NewsInTurn
  <2> QED
    BY <2>4, <2>5
<1> QED
  BY <1>5, <1>6, <1>8, <1>9 DEF DownInv

LEMMA HereMute ==
  ASSUME IInv, NEW n \in Computer, NEW d, Steady(n, d)
  PROVE  /\ Mute(n, [Here(n) EXCEPT !.d = d]) /\ [Here(n) EXCEPT !.d = d].d = d
         /\ Mute(n, Here(n)) /\ Here(n).d = daemon[n]
<1>1. Sound(n, [Here(n) EXCEPT !.d = d]) /\ Sound(n, Here(n))
  BY HereSound
<1> QED
  BY <1>1 DEF Mute, Here

\* What the communicatord sends is about the cluster.
LEMMA OnlyNews ==
  ASSUME DownInv, NEW n \in Computer, NEW type, Arrived(n, n, type)
  PROVE  /\ type \in {"CLUSTER_UP", "CLUSTER_DOWN"} /\ Head(net[n][n]).type = type
         /\ net[n][n] # <<>>
<1>1. net[n][n] \in Seq(Message) /\ net[n][n] # <<>>
  BY DEF DownInv, IInv, TypeOK, Arrived
<1>2. Head(net[n][n]) = net[n][n][1] /\ 1 \in DOMAIN net[n][n]
  BY <1>1, LenProperties, EmptySeq
<1> QED
  BY <1>1, <1>2 DEF DownInv, NewsInTurn, Alternates, Arrived

LEMMA MsgClusterUpDown ==
  ASSUME Count <= 3, DownInv, NEW n \in Computer, MsgClusterUp(n)
  PROVE  DownInv'
<1> DEFINE W == [Here(n) EXCEPT !.d = WithSelf(daemon[n])]
           X == ElectionStatus(W)
           Y == TellAll(X, LockStarted(X.d))
<1>0. IInv
  BY DEF DownInv
<1>1. net[n][n] # <<>> /\ Head(net[n][n]).type = "CLUSTER_UP"
  BY DEF MsgClusterUp, Arrived
<1>2. PICK pace \in BOOLEAN : Done(n, n, CheckLockStatus(Y, pace))
  BY DEF MsgClusterUp, Here
<1>3. Mute(n, W) /\ W.d.up
  <2>1. Steady(n, daemon[n]) /\ Steady(n, WithSelf(daemon[n]))
    BY <1>0, WithSelfSteady DEF IInv
  <2>2. WithSelf(daemon[n]).up
    BY <2>1 DEF WithSelf, Steady, Daemon
  <2> QED
    BY <1>0, <2>1, <2>2, HereMute
<1> HIDE DEF W
<1>4. Mute(n, X) /\ X.d.up
  BY <1>0, <1>3, ElectionStatusMute DEF IInv, TypeOK, SameCluster
<1> HIDE DEF X
<1>5. Mute(n, Y) /\ Y.d = X.d
  BY <1>4, TellAllMute, LockStartedTyped DEF Mute, Sound
<1> HIDE DEF Y
<1> DEFINE Z == CheckLockStatus(Y, pace)
<1>6. Idle(Y.d)
  BY <1>4, <1>5 DEF Idle
<1>7. Mute(n, Z) /\ Idle(Z.d) /\ SameCluster(Y.d, Z.d)
  BY <1>5, <1>6, CheckLockStatusMute, CheckLockStatusIdle
<1> HIDE DEF Z
<1>8. Z.d.up
  BY <1>4, <1>5, <1>7 DEF SameCluster
<1> QED
  BY <1>1, <1>2, <1>7, <1>8, DoneDown DEF Z

LEMMA MsgClusterDownDown ==
  ASSUME Count <= 3, DownInv, NEW n \in Computer, MsgClusterDown(n)
  PROVE  DownInv'
<1> DEFINE X == [Here(n) EXCEPT !.d = Leaderless(daemon[n])]
           Z == CheckLockStatus(X, FALSE)
<1>0. IInv
  BY DEF DownInv
<1>1. net[n][n] # <<>> /\ Head(net[n][n]).type = "CLUSTER_DOWN" /\ Done(n, n, Z)
  BY DEF MsgClusterDown, Arrived, Here
<1>2. Mute(n, X) /\ X.d.leaders = <<>> /\ ~X.d.up
  <2>1. Steady(n, daemon[n]) /\ Steady(n, Leaderless(daemon[n]))
    BY <1>0, LeaderlessSteady DEF IInv
  <2>2. Leaderless(daemon[n]).leaders = <<>> /\ ~Leaderless(daemon[n]).up
    BY <2>1 DEF Leaderless, Steady, Daemon
  <2> QED
    BY <1>0, <2>1, <2>2, HereMute
<1> HIDE DEF X
<1>3. Mute(n, Z) /\ Idle(Z.d) /\ SameCluster(X.d, Z.d)
  BY <1>2, CheckLockStatusMute, CheckLockStatusIdle
<1> HIDE DEF Z
<1> QED
  BY <1>1, <1>2, <1>3, DoneDown DEF SameCluster

\* A handler that another computer's message starts, when the cluster is there.
LEMMA OthersDown ==
  ASSUME Count <= 3, DownInv, NEW s \in Computer, NEW n \in Computer, NEW type,
         Arrived(s, n, type), type \notin {"CLUSTER_UP", "CLUSTER_DOWN"},
         NEW X, Mute(n, X), Done(s, n, X), SameCluster(daemon[n], X.d), Idle(X.d)
  PROVE  DownInv'
<1>1. s # n /\ net[s][n] # <<>>
  BY OnlyNews DEF Arrived
<1> QED
  BY <1>1, DoneDown DEF SameCluster

LEMMA HasCluster ==
  ASSUME Count <= 3, DownInv, NEW s \in Computer, NEW n \in Computer, NEW type,
         Arrived(s, n, type), type \in {"LOCK_LEADERS", "LOCK_STARTED"}
  PROVE  daemon[n].count = 0 \/ daemon[n].up
BY OnlyNews, HearsHangups

LEMMA MsgLockLeadersDown ==
  ASSUME Count <= 3, DownInv, NEW s \in Computer, NEW n \in Computer, MsgLockLeaders(s, n)
  PROVE  DownInv'
<1> DEFINE d == Adopt(daemon[n], Received(s, n))
           X == [Here(n) EXCEPT !.d = d]
<1>0. IInv
  BY DEF DownInv
<1>1. Arrived(s, n, "LOCK_LEADERS") /\ net[s][n] # <<>>
  BY DEF MsgLockLeaders, Arrived
<1>2. PICK pace \in BOOLEAN : Done(s, n, CheckLockStatus(X, pace))
  BY DEF MsgLockLeaders, Here
<1>3. daemon[n].count = 0 \/ daemon[n].up
  BY <1>1, HasCluster
<1>4. Steady(n, d) /\ SameCluster(daemon[n], d)
  <2>1. Steady(n, daemon[n]) /\ Received(s, n) \in Message
    BY <1>0, <1>1, ReceivedTyped DEF IInv
  <2>2. SameCluster(daemon[n], d)
    BY <2>1 DEF Adopt, Learn, SameCluster, Steady, Daemon
  <2> QED
    BY <2>1, <2>2, AdoptSteady
<1> HIDE DEF d
<1>5. Mute(n, X) /\ SameCluster(daemon[n], X.d) /\ Idle(X.d)
  BY <1>0, <1>3, <1>4, HereMute DEF Idle, SameCluster
<1> HIDE DEF X
<1> DEFINE Z == CheckLockStatus(X, pace)
<1>6. Mute(n, Z) /\ SameCluster(daemon[n], Z.d) /\ Idle(Z.d)
  BY <1>5, CheckLockStatusMute, CheckLockStatusIdle DEF SameCluster
<1> HIDE DEF Z
<1> QED
  BY <1>1, <1>2, <1>6, OthersDown DEF Z

LEMMA MsgLockStartedDown ==
  ASSUME Count <= 3, DownInv, NEW s \in Computer, NEW n \in Computer, MsgLockStarted(s, n)
  PROVE  DownInv'
<1> DEFINE m == Received(s, n)
           d == Told(daemon[n], s, m)
           W == [Here(n) EXCEPT !.d = d]
           X == ElectionStatus(W)
           answer == IsNews(daemon[n], s, m) \/ IsLeader(daemon[n]) # IsLeader(X.d)
           reply(Y) == IF answer THEN Tell(Y, s, LockStarted(Y.d)) ELSE Y
<1>0. IInv /\ elections \in Seq(Computer)
  BY DEF DownInv, IInv, TypeOK
<1>1. Arrived(s, n, "LOCK_STARTED") /\ net[s][n] # <<>>
  BY DEF MsgLockStarted, Arrived
<1>2. s # n
  BY <1>1, OnlyNews
<1>3. \/ Done(s, n, Here(n))
      \/ \E pace \in BOOLEAN : Done(s, n, reply(CheckLockStatus(X, pace)))
  BY DEF MsgLockStarted, Here
<1>4. daemon[n].count = 0 \/ daemon[n].up
  BY <1>1, HasCluster
<1>5. Steady(n, d) /\ SameCluster(daemon[n], d)
  <2>1. Steady(n, daemon[n]) /\ m \in Message
    BY <1>0, <1>1, ReceivedTyped DEF IInv
  <2> QED
    BY <2>1, ToldSteady, ToldSameStatus DEF Steady
<1> HIDE DEF d, m
<1>6. CASE Done(s, n, Here(n))
  <2>1. Mute(n, Here(n)) /\ Here(n).d = daemon[n] /\ Idle(daemon[n])
    BY <1>0, <1>5, HereMute DEF DownInv
  <2> QED
    BY <1>1, <1>6, <2>1, OthersDown DEF SameCluster
<1>7. CASE \E pace \in BOOLEAN : Done(s, n, reply(CheckLockStatus(X, pace)))
  <2>1. PICK pace \in BOOLEAN : Done(s, n, reply(CheckLockStatus(X, pace)))
    BY <1>7
  <2>2. Mute(n, W) /\ SameCluster(daemon[n], W.d)
    BY <1>0, <1>5, HereMute
  <2> HIDE DEF W
  <2>3. Mute(n, X) /\ SameCluster(daemon[n], X.d) /\ Idle(X.d)
    BY <1>0, <1>4, <2>2, ElectionStatusMute DEF Idle, SameCluster
  <2> HIDE DEF X, answer
  <2> DEFINE Y == CheckLockStatus(X, pace)
  <2>4. Mute(n, Y) /\ SameCluster(daemon[n], Y.d) /\ Idle(Y.d)
    BY <2>3, CheckLockStatusMute, CheckLockStatusIdle DEF SameCluster
  <2>5. LockStarted(Y.d) \in Message
    BY <2>4, LockStartedTyped DEF Mute, Sound
  <2> HIDE DEF Y
  <2>6. Mute(n, reply(Y)) /\ reply(Y).d = Y.d
    BY <1>2, <2>4, <2>5, TellMute
  <2> QED
    BY <1>1, <2>1, <2>4, <2>6, OthersDown DEF Y
<1> QED
  BY <1>3, <1>6, <1>7

LEMMA MsgServerGoneDown ==
  ASSUME Count <= 3, DownInv, NEW s \in Computer, NEW n \in Computer, MsgServerGone(s, n)
  PROVE  DownInv'
<1> DEFINE d == Forget(daemon[n], s)
           W == [Here(n) EXCEPT !.d = d]
           X == ElectionStatus(W)
<1>0. IInv /\ elections \in Seq(Computer)
  BY DEF DownInv, IInv, TypeOK
<1>1. Arrived(s, n, "HANGUP") /\ net[s][n] # <<>>
  BY DEF MsgServerGone, Arrived
<1>2. \/ s \in Range(daemon[n].leaders) /\ \E pace \in BOOLEAN : Done(s, n, CheckLockStatus(X, pace))
      \/ Done(s, n, W)
  BY DEF MsgServerGone, Here
<1>3. Steady(n, daemon[n]) /\ Steady(n, d)
  BY <1>0, ForgetSteady DEF IInv
<1>4. /\ SameCluster(daemon[n], d) /\ d.ready = daemon[n].ready
      /\ d.leaders = Without(daemon[n].leaders, s)
  BY <1>3 DEF Forget, SameCluster, Steady, Daemon
<1>5. Idle(d)
  <2>1. Without(<<>>, s) = <<>>
    BY NoLeaders DEF Without
  <2> QED
    BY <1>4, <2>1 DEF DownInv, Idle, SameCluster
<1> HIDE DEF d
<1>6. Mute(n, W) /\ W.d = d
  BY <1>0, <1>3, HereMute
<1> HIDE DEF W
<1>7. CASE Done(s, n, W)
  BY <1>1, <1>4, <1>5, <1>6, <1>7, OthersDown
<1>8. CASE s \in Range(daemon[n].leaders) /\ \E pace \in BOOLEAN : Done(s, n, CheckLockStatus(X, pace))
  <2>1. PICK pace \in BOOLEAN : Done(s, n, CheckLockStatus(X, pace))
    BY <1>8
  <2>2. daemon[n].count = 0 \/ daemon[n].up
    BY <1>8, NoLeaders DEF DownInv, Idle
  <2>3. Mute(n, X) /\ SameCluster(daemon[n], X.d) /\ Idle(X.d)
    BY <1>0, <1>4, <1>6, <2>2, ElectionStatusMute DEF Idle, SameCluster
  <2> HIDE DEF X
  <2> DEFINE Y == CheckLockStatus(X, pace)
  <2>4. Mute(n, Y) /\ SameCluster(daemon[n], Y.d) /\ Idle(Y.d)
    BY <2>3, CheckLockStatusMute, CheckLockStatusIdle DEF SameCluster
  <2> HIDE DEF Y
  <2> QED
    BY <1>1, <2>1, <2>4, OthersDown DEF Y
<1> QED
  BY <1>2, <1>7, <1>8

LEMMA MsgLockDown ==
  ASSUME Count <= 3, DownInv, NEW n \in Computer, MsgLock(n)
  PROVE  DownInv'
<1> DEFINE cached == daemon[n].cached \/ ~Ready(daemon[n])
           d == [daemon[n] EXCEPT !.cached = cached]
           X == [Here(n) EXCEPT !.d = d]
<1>0. IInv /\ IInv' /\ net \in Net
  BY MsgLockKeeps DEF DownInv, IInv, TypeOK, Net
<1>1. PICK pace \in BOOLEAN : Sent(Knock(X, pace), net)
  BY DEF MsgLock, Here
<1>2. UNCHANGED apart
  BY DEF MsgLock
<1>3. Steady(n, d) /\ SameCluster(daemon[n], d) /\ Idle(d)
  <2>1. cached \in BOOLEAN /\ Steady(n, daemon[n])
    BY <1>0 DEF IInv
  <2>2. Idle(daemon[n])
    BY DEF DownInv
  <2> HIDE DEF cached
  <2> QED
    BY <2>1, <2>2, CachedSteady DEF SameCluster, Idle, Steady, Daemon
<1> HIDE DEF d
<1>4. Mute(n, X) /\ X.d = d
  BY <1>0, <1>3, HereMute
<1> HIDE DEF X
<1> DEFINE Z == Knock(X, pace)
<1>5. Mute(n, Z) /\ Z.d = d
  BY <1>4, KnockMute
<1>6. Sent(Z, net)
  BY <1>1
<1> HIDE DEF Z
<1>7. \A j \in Computer : Alone(j)'
  BY <1>0, <1>2, <1>5, <1>6, SentAlone
<1>8. \A i \in Computer : net'[i][i] = net[i][i]
  BY <1>0, <1>5, <1>6, SentQueues
<1>9. daemon' = [daemon EXCEPT ![n] = d]
  BY <1>5, <1>6 DEF Sent, Mute, Sound, Steady
<1>10. ASSUME NEW i \in Computer PROVE NewsInTurn(i)' /\ Idle(daemon'[i])
  <2>1. daemon'[i] = IF i = n THEN d ELSE daemon[i]
    BY <1>0, <1>9 DEF IInv, TypeOK
  <2>2. daemon'[i].up = daemon[i].up /\ Idle(daemon'[i])
    BY <1>3, <2>1 DEF SameCluster, DownInv
  <2>3. ClusterIsUp(i, apart)' = ClusterIsUp(i, apart)
    BY <1>2 DEF ClusterIsUp, Reach
  <2> QED
    BY <1>8, <2>2, <2>3 DEF DownInv, NewsInTurn
<1> QED
  BY <1>0, <1>7, <1>10 DEF DownInv

\* Where nothing is said and nothing is cut, only what the daemon thinks of the cluster counts.
LEMMA QuietDown ==
  ASSUME DownInv, IInv', UNCHANGED <<net, apart>>,
         \A n \in Computer : SameCluster(daemon[n], daemon'[n]) /\ Idle(daemon'[n])
  PROVE  DownInv'
<1> SUFFICES ASSUME NEW n \in Computer PROVE NewsInTurn(n)' /\ Alone(n)'
  BY DEF DownInv
<1>1. ClusterIsUp(n, apart)' = ClusterIsUp(n, apart)
  BY DEF ClusterIsUp, Reach
<1>2. net' = net /\ daemon'[n].up = daemon[n].up
  BY DEF SameCluster
<1> QED
  BY <1>1, <1>2 DEF DownInv, NewsInTurn, Alone

LEMMA CacheTimeoutDown ==
  ASSUME DownInv, NEW n \in Computer, CacheTimeout(n)
  PROVE  DownInv'
<1>1. IInv' /\ UNCHANGED <<net, apart>>
  BY CacheTimeoutKeeps DEF DownInv, CacheTimeout
<1>2. ASSUME NEW i \in Computer
      PROVE  SameCluster(daemon[i], daemon'[i]) /\ Idle(daemon'[i])
  <2>1. daemon[i] \in Daemon /\ daemon'[i] = IF i = n THEN [daemon[i] EXCEPT !.cached = FALSE] ELSE daemon[i]
    BY DEF CacheTimeout, DownInv, IInv, TypeOK
  <2>2. Idle(daemon[i])
    BY DEF DownInv
  <2> QED
    BY <2>1, <2>2 DEF SameCluster, Idle, Daemon
<1> QED
  BY <1>1, <1>2, QuietDown

\* The communicatord says what has changed.
LEMMA NewsFollow ==
  ASSUME DownInv, NEW n \in Computer, NEW cut
  PROVE  Alternates(net[n][n] \o ClusterNews(n, cut), daemon[n].up, ClusterIsUp(n, cut))
<1>1. net[n][n] \in Seq(Message) /\ Alternates(net[n][n], daemon[n].up, ClusterIsUp(n, apart))
  BY DEF DownInv, IInv, TypeOK, NewsInTurn
<1>2. ClusterIsUp(n, cut) \in BOOLEAN /\ ClusterIsUp(n, apart) \in BOOLEAN
  BY DEF ClusterIsUp
<1>3. CASE ClusterIsUp(n, cut) = ClusterIsUp(n, apart)
  BY <1>1, <1>3, ConcatEmptySeq DEF ClusterNews
<1>4. CASE ClusterIsUp(n, cut) # ClusterIsUp(n, apart)
  BY <1>1, <1>2, <1>4, AlternatesMore DEF ClusterNews
<1> QED
  BY <1>3, <1>4

LEMMA LoseConnectionDown ==
  ASSUME Count <= 3, DownInv, NEW n \in Computer, NEW m \in Computer, LoseConnection(n, m)
  PROVE  DownInv'
<1>1. IInv'
  BY LoseConnectionKeeps DEF DownInv
<1>2. daemon' = daemon /\ apart' \subseteq Pairs
  BY <1>1 DEF LoseConnection, IInv, TypeOK
<1>3. n # m
  <2>1. n \in Nat /\ m \in Nat
    BY ComputerAssumption
  <2> QED
    BY <2>1 DEF LoseConnection
<1>4. \A i, j \in Computer :
        net'[i][j] = CASE {i, j} = {n, m} -> <<News("HANGUP")>>
                       [] i = j -> net[i][j] \o ClusterNews(i, apart')
                       [] OTHER -> IF CutOff(i, j, apart') THEN Left(net[i][j]) ELSE net[i][j]
  BY DEF LoseConnection
<1>5. ASSUME NEW i \in Computer PROVE NewsInTurn(i)'
  <2>1. {i, i} # {n, m}
    BY <1>3
  <2>2. net'[i][i] = net[i][i] \o ClusterNews(i, apart')
    BY <1>4, <2>1
  <2>3. Alternates(net[i][i] \o ClusterNews(i, apart'), daemon[i].up, ClusterIsUp(i, apart'))
    BY NewsFollow
  <2>4. ClusterIsUp(i, apart)' = ClusterIsUp(i, apart')
    BY DEF ClusterIsUp, Reach
  <2> QED
    BY <1>2, <2>2, <2>3, <2>4 DEF NewsInTurn
<1>6. ASSUME NEW j \in Computer, ~ClusterIsUp(j, apart'), NEW i \in Computer \ {j}
      PROVE  OnlyHangups(net'[i][j])
  <2>1. CutOff(i, j, apart')
    BY <1>2, <1>6, Isolation
  <2>2. net'[i][j] = <<News("HANGUP")>> \/ net'[i][j] = Left(net[i][j])
    BY <1>4, <2>1
  <2>3. OnlyHangups(<<News("HANGUP")>>) /\ OnlyHangups(<<>>)
    <3>1. News("HANGUP").type = "HANGUP"
      BY DEF News
    <3> QED
      BY <3>1, RangeOfNews, NoLeaders DEF OnlyHangups
  <2> QED
    BY <2>2, <2>3 DEF Left
<1>7. \A j \in Computer : Alone(j)'
  BY <1>6 DEF Alone, ClusterIsUp, Reach
<1> QED
  BY <1>1, <1>2, <1>5, <1>7 DEF DownInv

\* Reconnecting does not take a cluster down.
LEMMA StaysUp ==
  ASSUME NEW n, NEW cut, NEW more, cut \subseteq more, ClusterIsUp(n, more)
  PROVE  ClusterIsUp(n, cut)
<1>1. Reach(n, more) \subseteq Reach(n, cut) /\ Reach(n, cut) \subseteq Computer
  BY DEF Reach
<1>2. IsFiniteSet(Reach(n, cut))
  BY <1>1, ComputerAssumption, FS_Subset
<1>3. /\ Cardinality(Reach(n, more)) <= Cardinality(Reach(n, cut))
      /\ Cardinality(Reach(n, more)) \in Nat /\ Cardinality(Reach(n, cut)) \in Nat
  BY <1>1, <1>2, FS_Subset, FS_CardinalityType
<1>4. Quorum \in Int
  BY CountIs DEF Quorum
<1> QED
  BY <1>3, <1>4 DEF ClusterIsUp

LEMMA ReconnectDown ==
  ASSUME Count <= 3, DownInv, NEW n \in Computer, NEW m \in Computer, Reconnect(n, m)
  PROVE  DownInv'
<1>1. IInv'
  BY ReconnectKeeps DEF DownInv
<1>2. daemon' = daemon /\ apart' \subseteq apart
  BY DEF Reconnect
<1>3. \A i, j \in Computer :
        net'[i][j] = IF i = j THEN net[i][i] \o ClusterNews(i, apart') ELSE net[i][j]
  BY DEF Reconnect, DownInv, IInv, TypeOK
<1>4. ASSUME NEW i \in Computer PROVE NewsInTurn(i)'
  <2>1. Alternates(net[i][i] \o ClusterNews(i, apart'), daemon[i].up, ClusterIsUp(i, apart'))
    BY NewsFollow
  <2>2. ClusterIsUp(i, apart)' = ClusterIsUp(i, apart')
    BY DEF ClusterIsUp, Reach
  <2> QED
    BY <1>2, <1>3, <2>1, <2>2 DEF NewsInTurn
<1>5. \A j \in Computer : ~ClusterIsUp(j, apart') => ~ClusterIsUp(j, apart)
  BY <1>2, StaysUp
<1>6. \A j \in Computer : Alone(j)'
  <2> SUFFICES ASSUME NEW j \in Computer, ~ClusterIsUp(j, apart'), NEW i \in Computer \ {j}
               PROVE  OnlyHangups(net'[i][j])
    BY DEF Alone, ClusterIsUp, Reach
  <2> QED
    BY <1>3, <1>5 DEF DownInv, Alone
<1> QED
  BY <1>1, <1>2, <1>4, <1>6 DEF DownInv

\* What a communicatord tells a daemon that has just started.
FirstNews(n) == IF ClusterIsUp(n, apart) THEN <<News("CLUSTER_UP")>> ELSE <<>>

LEMMA FirstNewsAlternate ==
  ASSUME NEW n
  PROVE  Alternates(FirstNews(n), FALSE, ClusterIsUp(n, apart))
<1> DEFINE q == <<News("CLUSTER_UP")>>
<1>1. DOMAIN q = {1} /\ Len(q) = 1 /\ q[1].type = "CLUSTER_UP" /\ q # <<>>
  BY DEF News
<1>2. 1..(1 - 1) = {} /\ DOMAIN <<>> = {} /\ Len(<<>>) = 0
  OBVIOUS
<1> HIDE DEF q
<1>3. Alternates(q, FALSE, TRUE)
  BY <1>1, <1>2 DEF Alternates
<1>4. Alternates(<<>>, FALSE, FALSE)
  BY <1>2 DEF Alternates
<1>5. ClusterIsUp(n, apart) \in BOOLEAN
  BY DEF ClusterIsUp
<1> QED
  BY <1>3, <1>4, <1>5 DEF FirstNews, q

LEMMA RestartDown ==
  ASSUME DownInv, NEW n \in Computer, Restart(n)
  PROVE  DownInv'
<1>1. IInv' /\ apart' = apart
  BY RestartKeeps DEF DownInv, Restart
<1>2. \A i, j \in Computer :
        net'[i][j] = IF j = n THEN (IF i = n THEN FirstNews(n) ELSE <<>>) ELSE net[i][j]
  BY DEF Restart, FirstNews, DownInv, IInv, TypeOK
<1>3. \A i \in Computer :
        daemon'[i] = IF i = n THEN NewDaemon(n, daemon[n].start + 1) ELSE daemon[i]
  BY DEF Restart, DownInv, IInv, TypeOK
<1>4. \A i \in Computer : ClusterIsUp(i, apart)' = ClusterIsUp(i, apart)
  BY <1>1 DEF ClusterIsUp, Reach
<1>5. ASSUME NEW i \in Computer PROVE NewsInTurn(i)' /\ Idle(daemon'[i])
  <2>1. CASE i = n
    <3>1. net'[n][n] = FirstNews(n) /\ daemon'[n].up = FALSE /\ daemon'[n].count = 0
      BY <1>2, <1>3 DEF NewDaemon
    <3> QED
      BY <1>4, <2>1, <3>1, FirstNewsAlternate DEF NewsInTurn, Idle
  <2>2. CASE i # n
    BY <1>2, <1>3, <1>4, <2>2 DEF DownInv, NewsInTurn
  <2> QED
    BY <2>1, <2>2
<1>6. ASSUME NEW j \in Computer PROVE Alone(j)'
  <2> SUFFICES ASSUME ~ClusterIsUp(j, apart), NEW i \in Computer \ {j}
               PROVE  OnlyHangups(net'[i][j])
    BY <1>4 DEF Alone
  <2>1. CASE j = n
    BY <1>2, <2>1, NoLeaders DEF OnlyHangups
  <2>2. CASE j # n
    BY <1>2, <2>2 DEF DownInv, Alone
  <2> QED
    BY <2>1, <2>2
<1> QED
  BY <1>1, <1>5, <1>6 DEF DownInv

LEMMA InitDown == Init => DownInv
<1> SUFFICES ASSUME Init PROVE DownInv
  OBVIOUS
<1>1. IInv
  BY InitSteady
<1>2. \A i, j \in Computer : net[i][j] = IF i = j THEN FirstNews(i) ELSE <<>>
  BY DEF Init, FirstNews
<1>3. \A i \in Computer : daemon[i].up = FALSE /\ daemon[i].count = 0
  BY DEF Init, NewDaemon
<1>4. \A i \in Computer : NewsInTurn(i) /\ Idle(daemon[i])
  BY <1>2, <1>3, FirstNewsAlternate DEF NewsInTurn, Idle
<1>5. \A i \in Computer : Alone(i)
  BY <1>2, NoLeaders DEF Alone, OnlyHangups
<1> QED
  BY <1>1, <1>4, <1>5 DEF DownInv

LEMMA NextDown ==
  ASSUME Count <= 3
  PROVE  DownInv /\ [Next]_vars => DownInv'
<1> SUFFICES ASSUME DownInv, [Next]_vars PROVE DownInv'
  OBVIOUS
<1>1. CASE \E s, n \in Computer : Handle(s, n)
  BY <1>1, MsgLockLeadersDown, MsgLockStartedDown, MsgServerGoneDown DEF Handle
<1>2. CASE \E n \in Computer : Hear(n) \/ MsgLock(n) \/ CacheTimeout(n) \/ Restart(n)
  BY <1>2, MsgClusterUpDown, MsgClusterDownDown, MsgLockDown, CacheTimeoutDown, RestartDown
     DEF Hear
<1>3. CASE \E n, m \in Computer : LoseConnection(n, m) \/ Reconnect(n, m)
  BY <1>3, LoseConnectionDown, ReconnectDown
<1>4. CASE UNCHANGED vars
  <2>1. IInv'
    BY <1>4, NextKeeps DEF DownInv
  <2>2. \A n \in Computer : SameCluster(daemon[n], daemon'[n]) /\ Idle(daemon'[n])
    BY <1>4 DEF vars, DownInv, SameCluster
  <2> QED
    BY <1>4, <2>1, <2>2, QuietDown DEF vars
<1> QED
  BY <1>1, <1>2, <1>3, <1>4 DEF Next

\* In every execution of a cluster of up to three computers, however many connections are lost
\* and daemons start again, a daemon offers no locks between a CLUSTER_DOWN and the next
\* CLUSTER_UP: msg_cluster_down() drops the leaders, and none are heard of in between.
THEOREM NoLocksWithoutCluster ==
  ASSUME Count <= 3
  PROVE  Spec => []DownMeansNoLocks
<1>1. DownInv => DownMeansNoLocks
  BY DEF DownInv, Idle, DownMeansNoLocks
<1> QED
  BY <1>1, InitDown, NextDown, PTL DEF Spec

-----------------------------------------------------------------------------
(* No LOCK is forgotten, in a cluster of two.                              *)

\* What a daemon said of its locks is true, and when it has locks none is put aside.
Attentive(d) == d.ready = Ready(d) /\ (d.ready => ~d.cached)
AttentiveInv == IInv /\ \A n \in Computer : Attentive(daemon[n])

\* Whether a daemon is ready is a matter of its computers and its leaders.
LEMMA ReadyDependsOn ==
  ASSUME NEW d, NEW e, e.me = d.me, e.count = d.count, e.known = d.known, e.linked = d.linked,
         e.leaders = d.leaders, e.former = d.former
  PROVE  Ready(e) = Ready(d)
<1>1. \A l : Connected(e, l) = Connected(d, l)
  BY DEF Connected
<1>2. Absent(e) = Absent(d)
  BY <1>1 DEF Absent
<1>3. EnoughLeaders(e) = EnoughLeaders(d)
  BY DEF EnoughLeaders, Quorate, QuorumOf
<1> QED
  BY <1>2, <1>3 DEF Ready

LEMMA CheckLockStatusAttentive ==
  ASSUME NEW n, NEW X, Mute(n, X), NEW pace, NEW d, Attentive(d), SameStatus(d, X.d)
  PROVE  Mute(n, CheckLockStatus(X, pace)) /\ Attentive(CheckLockStatus(X, pace).d)
<1> DEFINE now == Ready(X.d)
           kept == IF now = X.d.ready THEN X.d.cached ELSE X.d.cached /\ ~now
           e == [X.d EXCEPT !.ready = now, !.cached = kept]
<1>1. CheckLockStatus(X, pace).d = e /\ Mute(n, CheckLockStatus(X, pace))
  BY CheckLockStatusMute
<1>2. X.d \in Daemon /\ (X.d.ready => ~X.d.cached)
  BY DEF Mute, Sound, Attentive, SameStatus
<1> HIDE DEF kept
<1>3. Ready(e) = now
  <2> HIDE DEF now
  <2>1. /\ e.me = X.d.me /\ e.count = X.d.count /\ e.known = X.d.known
        /\ e.linked = X.d.linked /\ e.leaders = X.d.leaders /\ e.former = X.d.former
    BY <1>2 DEF Daemon
  <2> HIDE DEF e
  <2> QED
    BY <2>1, ReadyDependsOn DEF now
<1>4. e.ready = now /\ (e.ready => ~e.cached)
  <2>1. e.ready = now /\ e.cached = kept
    BY <1>2 DEF Daemon
  <2>2. now => ~kept
    BY <1>2 DEF kept
  <2> QED
    BY <2>1, <2>2
<1> QED
  BY <1>1, <1>3, <1>4 DEF Attentive

\* In a cluster of two, both computers lead whoever is ready.
LEMMA BothLead ==
  ASSUME Count <= 2, NEW d \in Daemon, Ready(d)
  PROVE  Range(d.leaders) = Computer
<1>1. /\ d.leaders \in Seq(Computer) /\ IsInjective(d.leaders) /\ d.leaders # <<>>
      /\ d.count = 0 \/ d.count = Count
  BY LeadersAre DEF Ready, EnoughLeaders, Daemon
<1>2. Len(d.leaders) = 1 => Count = 1
  <2>1. Len(d.leaders) = 1 => d.count = 1
    BY DEF Ready, EnoughLeaders
  <2> QED
    BY <1>1, <2>1
<1>3. /\ IsFiniteSet(Range(d.leaders)) /\ Cardinality(Range(d.leaders)) = Len(d.leaders)
      /\ Len(d.leaders) \in Nat
  <2>1. Len(d.leaders) \in Nat /\ DOMAIN d.leaders = 1..Len(d.leaders)
    BY <1>1, LenProperties
  <2>2. d.leaders \in Bijection(1..Len(d.leaders), Range(d.leaders))
    BY <1>1, <2>1 DEF Bijection, Injection, Surjection, IsInjective, Range
  <2>3. ExistsBijection(1..Len(d.leaders), Range(d.leaders))
    BY <2>2 DEF ExistsBijection
  <2>4. Cardinality(Range(d.leaders)) = Len(d.leaders)
    BY <2>1, <2>3, FS_CountingElements
  <2>5. IsFiniteSet(Range(d.leaders))
    BY <2>1, <2>3, FS_NatBijection
  <2> QED
    BY <2>1, <2>4, <2>5
<1>4. Range(d.leaders) \subseteq Computer
  BY <1>1, RangeOfSeq
<1>5. Cardinality(Range(d.leaders)) >= Cardinality(Computer)
  <2>1. Len(d.leaders) # 0
    BY <1>1, EmptySeq
  <2>2. Count \in Nat /\ Count <= 2
    BY CountIs
  <2>3. Len(d.leaders) >= Count
    <3> DEFINE k == Len(d.leaders)
               c == Count
    <3>1. k \in Nat /\ k # 0 /\ (k = 1 => c = 1) /\ c \in Nat /\ c <= 2
      BY <1>2, <1>3, <2>1, <2>2
    <3> HIDE DEF k, c
    <3>2. k >= c
      BY <3>1
    <3> QED
      BY <3>2 DEF k, c
  <2> QED
    BY <1>3, <2>3 DEF Count
<1>6. /\ Cardinality(Range(d.leaders)) <= Cardinality(Computer)
      /\ Cardinality(Range(d.leaders)) = Cardinality(Computer) => Range(d.leaders) = Computer
  BY <1>4, ComputerAssumption, FS_Subset
<1> QED
  BY <1>3, <1>5, <1>6, CountIs DEF Count

\* A computer that leads nobody takes no locks away with it.
LEMMA ForgetAttentive ==
  ASSUME Count <= 2, NEW n \in Computer, NEW d, Steady(n, d), Attentive(d),
         NEW s \in Computer, s \notin Range(d.leaders)
  PROVE  Attentive(Forget(d, s))
<1> DEFINE e == Forget(d, s)
<1>1. d \in Daemon
  BY DEF Steady
<1>2. /\ e.leaders = d.leaders /\ e.count = d.count /\ e.known = d.known \ {s}
      /\ e.ready = d.ready /\ e.cached = d.cached
  BY <1>1 DEF Forget, Without, Daemon
<1>3. ~Ready(d)
  BY <1>1, BothLead
<1>4. Ready(e) => Range(e.leaders) = Computer
  <2>1. e \in Daemon
    BY ForgetSteady DEF Steady
  <2> HIDE DEF e
  <2> QED
    BY <2>1, BothLead
<1> HIDE DEF e
<1>5. Ready(e) = FALSE
  BY <1>2, <1>4 DEF Ready
<1>6. Ready(d) = FALSE
  BY <1>3 DEF Ready
<1> QED
  BY <1>2, <1>5, <1>6 DEF Attentive, e

LEMMA SentAttentive ==
  ASSUME AttentiveInv, NEW n \in Computer, NEW X, Sound(n, X), NEW rest, Sent(X, rest),
         Attentive(X.d), IInv'
  PROVE  AttentiveInv'
<1>1. daemon' = [daemon EXCEPT ![n] = X.d]
  BY DEF Sent, Sound, Steady
<1>2. \A i \in Computer : daemon'[i] = IF i = n THEN X.d ELSE daemon[i]
  BY <1>1 DEF AttentiveInv, IInv, TypeOK
<1> QED
  BY <1>2 DEF AttentiveInv

LEMMA DoneAttentive ==
  ASSUME AttentiveInv, NEW s \in Computer, NEW n \in Computer, net[s][n] # <<>>,
         NEW X, Mute(n, X), Done(s, n, X), Attentive(X.d)
  PROVE  AttentiveInv'
<1>1. IInv'
  BY DoneKeeps DEF AttentiveInv, Mute
<1> QED
  BY <1>1, SentAttentive DEF Done, Mute

LEMMA MsgClusterUpAttentive ==
  ASSUME AttentiveInv, NEW n \in Computer, MsgClusterUp(n)
  PROVE  AttentiveInv'
<1> DEFINE W == [Here(n) EXCEPT !.d = WithSelf(daemon[n])]
           X == ElectionStatus(W)
           Y == TellAll(X, LockStarted(X.d))
<1>0. IInv /\ Attentive(daemon[n])
  BY DEF AttentiveInv
<1>1. net[n][n] # <<>>
  BY DEF MsgClusterUp, Arrived
<1>2. PICK pace \in BOOLEAN : Done(n, n, CheckLockStatus(Y, pace))
  BY DEF MsgClusterUp, Here
<1>3. Mute(n, W) /\ SameStatus(daemon[n], W.d)
  <2>1. Steady(n, daemon[n]) /\ Steady(n, WithSelf(daemon[n]))
    BY <1>0, WithSelfSteady DEF IInv
  <2>2. SameStatus(daemon[n], WithSelf(daemon[n]))
    BY <2>1 DEF WithSelf, SameStatus, Steady, Daemon
  <2> QED
    BY <1>0, <2>1, <2>2, HereMute
<1> HIDE DEF W
<1>4. Mute(n, X) /\ SameStatus(daemon[n], X.d)
  BY <1>0, <1>3, ElectionStatusMute DEF IInv, TypeOK, SameStatus
<1> HIDE DEF X
<1>5. Mute(n, Y) /\ SameStatus(daemon[n], Y.d)
  BY <1>4, TellAllMute, LockStartedTyped DEF Mute, Sound
<1> HIDE DEF Y
<1> DEFINE Z == CheckLockStatus(Y, pace)
<1>6. Mute(n, Z) /\ Attentive(Z.d)
  BY <1>0, <1>5, CheckLockStatusAttentive
<1> HIDE DEF Z
<1> QED
  BY <1>1, <1>2, <1>6, DoneAttentive DEF Z

LEMMA MsgClusterDownAttentive ==
  ASSUME AttentiveInv, NEW n \in Computer, MsgClusterDown(n)
  PROVE  AttentiveInv'
<1> DEFINE X == [Here(n) EXCEPT !.d = Leaderless(daemon[n])]
           Z == CheckLockStatus(X, FALSE)
<1>0. IInv /\ Attentive(daemon[n])
  BY DEF AttentiveInv
<1>1. net[n][n] # <<>> /\ Done(n, n, Z)
  BY DEF MsgClusterDown, Arrived, Here
<1>2. Mute(n, X) /\ SameStatus(daemon[n], X.d)
  <2>1. Steady(n, daemon[n]) /\ Steady(n, Leaderless(daemon[n]))
    BY <1>0, LeaderlessSteady DEF IInv
  <2>2. SameStatus(daemon[n], Leaderless(daemon[n]))
    BY <2>1 DEF Leaderless, SameStatus, Steady, Daemon
  <2> QED
    BY <1>0, <2>1, <2>2, HereMute
<1> HIDE DEF X
<1>3. Mute(n, Z) /\ Attentive(Z.d)
  BY <1>0, <1>2, CheckLockStatusAttentive
<1> HIDE DEF Z
<1> QED
  BY <1>1, <1>3, DoneAttentive

LEMMA MsgLockLeadersAttentive ==
  ASSUME AttentiveInv, NEW s \in Computer, NEW n \in Computer, MsgLockLeaders(s, n)
  PROVE  AttentiveInv'
<1> DEFINE d == Adopt(daemon[n], Received(s, n))
           X == [Here(n) EXCEPT !.d = d]
<1>0. IInv /\ Attentive(daemon[n])
  BY DEF AttentiveInv
<1>1. net[s][n] # <<>>
  BY DEF MsgLockLeaders, Arrived
<1>2. PICK pace \in BOOLEAN : Done(s, n, CheckLockStatus(X, pace))
  BY DEF MsgLockLeaders, Here
<1>3. Steady(n, d) /\ SameStatus(daemon[n], d)
  <2>1. Steady(n, daemon[n]) /\ Received(s, n) \in Message
    BY <1>0, <1>1, ReceivedTyped DEF IInv
  <2>2. SameStatus(daemon[n], d)
    BY <2>1 DEF Adopt, Learn, SameStatus, Steady, Daemon
  <2> QED
    BY <2>1, <2>2, AdoptSteady
<1> HIDE DEF d
<1>4. Mute(n, X) /\ SameStatus(daemon[n], X.d)
  BY <1>0, <1>3, HereMute
<1> HIDE DEF X
<1> DEFINE Z == CheckLockStatus(X, pace)
<1>5. Mute(n, Z) /\ Attentive(Z.d)
  BY <1>0, <1>4, CheckLockStatusAttentive
<1> HIDE DEF Z
<1> QED
  BY <1>1, <1>2, <1>5, DoneAttentive DEF Z

LEMMA MsgLockStartedAttentive ==
  ASSUME AttentiveInv, NEW s \in Computer, NEW n \in Computer, MsgLockStarted(s, n), s # n
  PROVE  AttentiveInv'
<1> DEFINE m == Received(s, n)
           d == Told(daemon[n], s, m)
           W == [Here(n) EXCEPT !.d = d]
           X == ElectionStatus(W)
           answer == IsNews(daemon[n], s, m) \/ IsLeader(daemon[n]) # IsLeader(X.d)
           reply(Y) == IF answer THEN Tell(Y, s, LockStarted(Y.d)) ELSE Y
<1>0. IInv /\ Attentive(daemon[n]) /\ elections \in Seq(Computer)
  BY DEF AttentiveInv, IInv, TypeOK
<1>1. net[s][n] # <<>>
  BY DEF MsgLockStarted, Arrived
<1>2. \/ Done(s, n, Here(n))
      \/ \E pace \in BOOLEAN : Done(s, n, reply(CheckLockStatus(X, pace)))
  BY DEF MsgLockStarted, Here
<1>3. Steady(n, d) /\ SameStatus(daemon[n], d)
  <2>1. Steady(n, daemon[n]) /\ m \in Message
    BY <1>0, <1>1, ReceivedTyped DEF IInv
  <2> QED
    BY <2>1, ToldSteady, ToldSameStatus DEF Steady
<1> HIDE DEF d, m
<1>4. CASE Done(s, n, Here(n))
  BY <1>0, <1>1, <1>3, <1>4, HereMute, DoneAttentive
<1>5. CASE \E pace \in BOOLEAN : Done(s, n, reply(CheckLockStatus(X, pace)))
  <2>1. PICK pace \in BOOLEAN : Done(s, n, reply(CheckLockStatus(X, pace)))
    BY <1>5
  <2>2. Mute(n, W) /\ SameStatus(daemon[n], W.d)
    BY <1>0, <1>3, HereMute
  <2> HIDE DEF W
  <2>3. Mute(n, X) /\ SameStatus(daemon[n], X.d)
    BY <1>0, <2>2, ElectionStatusMute DEF SameStatus
  <2> HIDE DEF X, answer
  <2> DEFINE Y == CheckLockStatus(X, pace)
  <2>4. Mute(n, Y) /\ Attentive(Y.d)
    BY <1>0, <2>3, CheckLockStatusAttentive
  <2>5. LockStarted(Y.d) \in Message
    BY <2>4, LockStartedTyped DEF Mute, Sound
  <2> HIDE DEF Y
  <2>6. Mute(n, reply(Y)) /\ reply(Y).d = Y.d
    BY <2>4, <2>5, TellMute
  <2> QED
    BY <1>1, <2>1, <2>4, <2>6, DoneAttentive DEF Y
<1> QED
  BY <1>2, <1>4, <1>5

LEMMA MsgServerGoneAttentive ==
  ASSUME Count <= 2, AttentiveInv, NEW s \in Computer, NEW n \in Computer, MsgServerGone(s, n)
  PROVE  AttentiveInv'
<1> DEFINE d == Forget(daemon[n], s)
           W == [Here(n) EXCEPT !.d = d]
           X == ElectionStatus(W)
<1>0. IInv /\ Attentive(daemon[n]) /\ elections \in Seq(Computer)
  BY DEF AttentiveInv, IInv, TypeOK
<1>1. net[s][n] # <<>>
  BY DEF MsgServerGone, Arrived
<1>2. \/ \E pace \in BOOLEAN : Done(s, n, CheckLockStatus(X, pace))
      \/ s \notin Range(daemon[n].leaders) /\ Done(s, n, W)
  BY DEF MsgServerGone, Here
<1>3. Steady(n, daemon[n]) /\ Steady(n, d) /\ SameStatus(daemon[n], d)
  <2>1. Steady(n, daemon[n]) /\ Steady(n, d)
    BY <1>0, ForgetSteady DEF IInv
  <2>2. SameStatus(daemon[n], d)
    BY <2>1 DEF Forget, SameStatus, Steady, Daemon
  <2> QED
    BY <2>1, <2>2
<1>4. s \notin Range(daemon[n].leaders) => Attentive(d)
  BY <1>0, <1>3, ForgetAttentive
<1> HIDE DEF d
<1>5. Mute(n, W) /\ W.d = d
  BY <1>0, <1>3, HereMute
<1> HIDE DEF W
<1>6. CASE s \notin Range(daemon[n].leaders) /\ Done(s, n, W)
  BY <1>1, <1>4, <1>5, <1>6, DoneAttentive
<1>7. CASE \E pace \in BOOLEAN : Done(s, n, CheckLockStatus(X, pace))
  <2>1. PICK pace \in BOOLEAN : Done(s, n, CheckLockStatus(X, pace))
    BY <1>7
  <2>2. Mute(n, X) /\ SameStatus(daemon[n], X.d)
    BY <1>0, <1>3, <1>5, ElectionStatusMute DEF SameStatus
  <2> HIDE DEF X
  <2> DEFINE Y == CheckLockStatus(X, pace)
  <2>3. Mute(n, Y) /\ Attentive(Y.d)
    BY <1>0, <2>2, CheckLockStatusAttentive
  <2> HIDE DEF Y
  <2> QED
    BY <1>1, <2>1, <2>3, DoneAttentive DEF Y
<1> QED
  BY <1>2, <1>6, <1>7

LEMMA MsgLockAttentive ==
  ASSUME AttentiveInv, NEW n \in Computer, MsgLock(n)
  PROVE  AttentiveInv'
<1> DEFINE cached == daemon[n].cached \/ ~Ready(daemon[n])
           d == [daemon[n] EXCEPT !.cached = cached]
           X == [Here(n) EXCEPT !.d = d]
<1>0. IInv /\ IInv' /\ Attentive(daemon[n])
  BY MsgLockKeeps DEF AttentiveInv
<1>1. PICK pace \in BOOLEAN : Sent(Knock(X, pace), net)
  BY DEF MsgLock, Here
<1>2. Steady(n, d) /\ Attentive(d)
  <2>1. cached \in BOOLEAN /\ Steady(n, daemon[n]) /\ daemon[n] \in Daemon
    BY <1>0 DEF IInv, Steady
  <2>2. daemon[n].ready => ~cached
    BY <1>0 DEF Attentive
  <2> HIDE DEF cached
  <2>3. /\ d.me = daemon[n].me /\ d.count = daemon[n].count /\ d.known = daemon[n].known
        /\ d.linked = daemon[n].linked /\ d.leaders = daemon[n].leaders
        /\ d.former = daemon[n].former /\ d.ready = daemon[n].ready /\ d.cached = cached
    BY <2>1 DEF Daemon
  <2>4. Steady(n, d)
    BY <2>1, CachedSteady
  <2> HIDE DEF d
  <2>5. Ready(d) = Ready(daemon[n])
    BY <2>3, ReadyDependsOn
  <2> QED
    BY <1>0, <2>2, <2>3, <2>4, <2>5 DEF Attentive
<1> HIDE DEF d
<1>3. Mute(n, X) /\ X.d = d
  BY <1>0, <1>2, HereMute
<1> HIDE DEF X
<1> DEFINE Z == Knock(X, pace)
<1>4. Sound(n, Z) /\ Z.d = d /\ Sent(Z, net)
  BY <1>1, <1>3, KnockMute DEF Mute
<1> HIDE DEF Z
<1> QED
  BY <1>0, <1>2, <1>4, SentAttentive

LEMMA CacheTimeoutAttentive ==
  ASSUME AttentiveInv, NEW n \in Computer, CacheTimeout(n)
  PROVE  AttentiveInv'
<1> DEFINE d == [daemon[n] EXCEPT !.cached = FALSE]
<1>1. IInv' /\ Attentive(daemon[n]) /\ daemon[n] \in Daemon
  BY CacheTimeoutKeeps DEF AttentiveInv, IInv, TypeOK
<1>2. /\ d.me = daemon[n].me /\ d.count = daemon[n].count /\ d.known = daemon[n].known
      /\ d.linked = daemon[n].linked /\ d.leaders = daemon[n].leaders
      /\ d.former = daemon[n].former /\ d.ready = daemon[n].ready /\ ~d.cached
  BY <1>1 DEF Daemon
<1>3. \A i \in Computer : daemon'[i] = IF i = n THEN d ELSE daemon[i]
  BY DEF CacheTimeout, AttentiveInv, IInv, TypeOK
<1> HIDE DEF d
<1>4. Attentive(d)
  BY <1>1, <1>2, ReadyDependsOn DEF Attentive
<1> QED
  BY <1>1, <1>3, <1>4 DEF AttentiveInv

LEMMA NewDaemonAttentive == \A n, start : Attentive(NewDaemon(n, start))
BY LeaderlessNotReady DEF NewDaemon, Attentive

LEMMA RestartAttentive ==
  ASSUME AttentiveInv, NEW n \in Computer, Restart(n)
  PROVE  AttentiveInv'
<1>1. IInv'
  BY RestartKeeps DEF AttentiveInv
<1>2. \A i \in Computer :
        daemon'[i] = IF i = n THEN NewDaemon(n, daemon[n].start + 1) ELSE daemon[i]
  BY DEF Restart, AttentiveInv, IInv, TypeOK
<1> QED
  BY <1>1, <1>2, NewDaemonAttentive DEF AttentiveInv

\* Where no daemon does anything.
LEMMA SameAttentive ==
  ASSUME AttentiveInv, IInv', UNCHANGED daemon
  PROVE  AttentiveInv'
BY DEF AttentiveInv

LEMMA NextAttentive ==
  ASSUME Count <= 2
  PROVE  DownInv /\ AttentiveInv /\ [Next]_vars => AttentiveInv'
<1> SUFFICES ASSUME DownInv, AttentiveInv, [Next]_vars PROVE AttentiveInv'
  OBVIOUS
<1>0. IInv'
  BY NextKeeps DEF AttentiveInv
<1>1. CASE \E s, n \in Computer : Handle(s, n)
  <2>1. PICK s \in Computer, n \in Computer : Handle(s, n)
    BY <1>1
  <2>2. MsgLockStarted(s, n) => s # n
    BY OnlyNews DEF MsgLockStarted
  <2> QED
    BY <2>1, <2>2, MsgLockLeadersAttentive, MsgLockStartedAttentive, MsgServerGoneAttentive
       DEF Handle
<1>2. CASE \E n \in Computer : Hear(n) \/ MsgLock(n) \/ CacheTimeout(n) \/ Restart(n)
  BY <1>2, MsgClusterUpAttentive, MsgClusterDownAttentive, MsgLockAttentive,
     CacheTimeoutAttentive, RestartAttentive DEF Hear
<1>3. CASE \E n, m \in Computer : LoseConnection(n, m) \/ Reconnect(n, m)
  BY <1>0, <1>3, SameAttentive DEF LoseConnection, Reconnect
<1>4. CASE UNCHANGED vars
  BY <1>0, <1>4, SameAttentive DEF vars
<1> QED
  BY <1>1, <1>2, <1>3, <1>4 DEF Next

\* In every execution of a cluster of two computers, a daemon that told its clients of its
\* locks has no LOCK put aside: whoever goes away was a leader, so that the status is looked at.
THEOREM NoLockForgotten ==
  ASSUME Count <= 2
  PROVE  Spec => []NothingForgotten
<1>1. Count <= 3
  BY CountIs
<1>2. Init => AttentiveInv
  BY InitSteady, NewDaemonAttentive DEF Init, AttentiveInv
<1>3. AttentiveInv => NothingForgotten
  BY DEF AttentiveInv, Attentive, NothingForgotten
<1>4. Init => DownInv
  BY InitDown
<1>5. DownInv /\ [Next]_vars => DownInv'
  BY <1>1, NextDown
<1>6. DownInv /\ AttentiveInv /\ [Next]_vars => AttentiveInv'
  BY NextAttentive
<1> QED
  BY <1>2, <1>3, <1>4, <1>5, <1>6, PTL DEF Spec

-----------------------------------------------------------------------------
(* Elections only get newer, in a cluster of two.                          *)

Smallest(n) == \A m \in Computer : m >= n

\* A LOCK_LEADERS is not older than what its receiver knows and hears before it.
Ordered(q, date) ==
  \A i \in DOMAIN q : q[i].type = "LOCK_LEADERS" =>
    q[i].date >= date /\ \A j \in 1..i : q[i].date >= q[j].date

\* Only the computer with the smallest IP address sends LOCK_LEADERS, and no date is ahead.
Dated(s, n) ==
  \A m \in Range(net[s][n]) :
    /\ m.date <= Len(elections)
    /\ m.type = "LOCK_LEADERS" => s # n /\ Smallest(s)

NewestInv ==
  /\ DownInv
  /\ \A n \in Computer : daemon[n].date <= Len(elections)
  /\ \A s, n \in Computer : Dated(s, n) /\ Ordered(net[s][n], daemon[n].date)

LEMMA OrderedTail ==
  ASSUME NEW q \in Seq(Message), q # <<>>, NEW date \in Nat, Ordered(q, date),
         NEW next \in Nat, next <= date \/ next <= Head(q).date
  PROVE  Ordered(Tail(q), next)
<1> DEFINE t == Tail(q)
<1>1. DOMAIN q = 1..Len(q) /\ Len(q) \in Nat \ {0} /\ Head(q) = q[1]
  BY LenProperties, EmptySeq
<1>2. /\ t \in Seq(Message) /\ Len(t) = Len(q) - 1
      /\ \A i \in 1..Len(t) : t[i] = q[i + 1]
  BY HeadTailProperties
<1>3. DOMAIN t = 1..(Len(q) - 1)
  BY <1>2, LenProperties
<1> HIDE DEF t
<1> SUFFICES ASSUME NEW i \in DOMAIN t, t[i].type = "LOCK_LEADERS"
             PROVE  t[i].date >= next /\ \A j \in 1..i : t[i].date >= t[j].date
  BY DEF Ordered, t
<1>4. i + 1 \in DOMAIN q /\ 1 \in 1..(i + 1) /\ t[i] = q[i + 1]
  BY <1>1, <1>2, <1>3
<1>5. /\ q[i + 1].date >= date /\ q[i + 1].date >= q[1].date
      /\ \A j \in 1..(i + 1) : q[i + 1].date >= q[j].date
  BY <1>4 DEF Ordered
<1>6. q[i + 1].date \in Nat /\ q[1].date \in Nat
  <2>1. q[i + 1] \in Message /\ q[1] \in Message
    BY <1>1, <1>4, ElementOfSeq
  <2> QED
    BY <2>1 DEF Message
<1>7. \A j \in 1..i : t[j] = q[j + 1] /\ j + 1 \in 1..(i + 1)
  BY <1>1, <1>2, <1>3
<1> QED
  BY <1>1, <1>4, <1>5, <1>6, <1>7

LEMMA OrderedMore ==
  ASSUME NEW q \in Seq(Message), NEW t \in Seq(Message), NEW date, Ordered(q, date),
         \A m \in Range(t) : m.type = "LOCK_LEADERS" =>
           m.date >= date /\ \A k \in Range(q) \cup Range(t) : m.date >= k.date
  PROVE  Ordered(q \o t, date)
<1> DEFINE c == q \o t
<1>1. /\ c \in Seq(Message) /\ Len(c) = Len(q) + Len(t)
      /\ \A i \in 1..(Len(q) + Len(t)) : c[i] = IF i <= Len(q) THEN q[i] ELSE t[i - Len(q)]
  BY ConcatProperties
<1>2. /\ Len(q) \in Nat /\ DOMAIN q = 1..Len(q) /\ Len(t) \in Nat /\ DOMAIN t = 1..Len(t)
      /\ DOMAIN c = 1..(Len(q) + Len(t))
  BY <1>1, LenProperties
<1>3. \A i \in DOMAIN c : c[i] \in Range(q) \cup Range(t)
  <2>1. Range(c) = Range(q) \cup Range(t)
    BY BothParts
  <2> QED
    BY <2>1 DEF Range
<1> HIDE DEF c
<1> SUFFICES ASSUME NEW i \in DOMAIN c, c[i].type = "LOCK_LEADERS"
             PROVE  c[i].date >= date /\ \A j \in 1..i : c[i].date >= c[j].date
  BY DEF Ordered, c
<1>4. \A j \in 1..i : j \in DOMAIN c
  BY <1>2
<1>5. CASE i <= Len(q)
  <2>1. i \in DOMAIN q /\ c[i] = q[i] /\ \A j \in 1..i : c[j] = q[j]
    BY <1>1, <1>2, <1>5
  <2> QED
    BY <2>1 DEF Ordered
<1>6. CASE ~(i <= Len(q))
  <2>1. c[i] = t[i - Len(q)] /\ i - Len(q) \in DOMAIN t
    BY <1>1, <1>2, <1>6
  <2>2. c[i] \in Range(t)
    BY <2>1 DEF Range
  <2> QED
    BY <1>3, <1>4, <2>2
<1> QED
  BY <1>5, <1>6

LEMMA NothingToOrder ==
  ASSUME NEW q, \A m \in Range(q) : m.type # "LOCK_LEADERS", NEW date
  PROVE  Ordered(q, date)
BY DEF Ordered, Range

LEMMA OneMore ==
  ASSUME NEW S, NEW s \in Seq(S), NEW x \in S
  PROVE  Range(Append(s, x)) = Range(s) \cup {x}
<1>1. <<x>> \in Seq(S) /\ Append(s, x) = s \o <<x>>
  OBVIOUS
<1>2. Range(s \o <<x>>) = Range(s) \cup Range(<<x>>)
  <2> DEFINE t == <<x>>
  <2>1. t \in Seq(S)
    BY <1>1
  <2> HIDE DEF t
  <2>2. Range(s \o t) = Range(s) \cup Range(t)
    BY <2>1, BothParts
  <2> QED BY <2>2 DEF t
<1>3. Range(<<x>>) = {x}
  BY RangeOfNews
<1> QED
  BY <1>1, <1>2, <1>3

-----------------------------------------------------------------------------
(* The dates in what a handler works on.                                   *)

\* An election of the handler is the newest, and all it says of the others is from before.
Timely(n, X) ==
  /\ Mute(n, X)
  /\ X.won = <<>> \/ (Len(X.won) = 1 /\ Smallest(n))
  /\ X.d.date <= Len(elections) + Len(X.won)
  /\ \A m \in Computer : \A msg \in Range(X.out[m]) :
       /\ msg.date <= Len(elections) + Len(X.won)
       /\ msg.type = "LOCK_LEADERS" => X.won # <<>> /\ msg.date = Len(elections) + 1

LEMMA TellTimely ==
  ASSUME NEW n, NEW X, Timely(n, X), NEW m, m # n, NEW msg \in Message,
         msg.date <= Len(elections) + Len(X.won), msg.type # "LOCK_LEADERS"
  PROVE  Timely(n, Tell(X, m, msg)) /\ Tell(X, m, msg).d = X.d
<1> DEFINE Y == Tell(X, m, msg)
<1>1. Mute(n, Y) /\ Y.d = X.d
  BY TellMute DEF Timely
<1>2. Y.won = X.won /\ Y.out = [X.out EXCEPT ![m] = Append(@, msg)]
  BY DEF Tell, Timely, Mute, Sound
<1>3. \A i \in Computer : X.out[i] \in Seq(Message) /\ X.out \in [Computer -> Seq(Message)]
  BY DEF Timely, Mute, Sound
<1> HIDE DEF Y
<1>4. ASSUME NEW i \in Computer, NEW k \in Range(Y.out[i])
      PROVE  k \in Range(X.out[i]) \/ k = msg
  <2>1. Y.out[i] = X.out[i] \/ Y.out[i] = Append(X.out[i], msg)
    BY <1>2, <1>3
  <2>2. Range(Append(X.out[i], msg)) = Range(X.out[i]) \cup {msg}
    BY <1>3, OneMore
  <2> QED
    BY <1>4, <2>1, <2>2
<1>5. Timely(n, Y)
  BY <1>1, <1>2, <1>4 DEF Timely
<1> QED
  BY <1>1, <1>5 DEF Y

LEMMA TellAllTimely ==
  ASSUME NEW n \in Computer, NEW X, Timely(n, X), NEW msg \in Message,
         msg.date <= Len(elections) + Len(X.won),
         msg.type = "LOCK_LEADERS" => X.won # <<>> /\ msg.date = Len(elections) + 1
  PROVE  Timely(n, TellAll(X, msg)) /\ TellAll(X, msg).d = X.d
<1> DEFINE Y == TellAll(X, msg)
<1>1. Mute(n, Y) /\ Y.d = X.d
  BY TellAllMute DEF Timely
<1>2. /\ Y.won = X.won
      /\ Y.out = [m \in Computer |-> IF m = X.d.me THEN X.out[m] ELSE Append(X.out[m], msg)]
  BY DEF TellAll, Timely, Mute, Sound
<1>3. \A i \in Computer : X.out[i] \in Seq(Message)
  BY DEF Timely, Mute, Sound
<1> HIDE DEF Y
<1>4. ASSUME NEW i \in Computer, NEW k \in Range(Y.out[i])
      PROVE  k \in Range(X.out[i]) \/ k = msg
  <2>1. Y.out[i] = X.out[i] \/ Y.out[i] = Append(X.out[i], msg)
    BY <1>2
  <2>2. Range(Append(X.out[i], msg)) = Range(X.out[i]) \cup {msg}
    BY <1>3, OneMore
  <2> QED
    BY <1>4, <2>1, <2>2
<1>5. Timely(n, Y)
  BY <1>1, <1>2, <1>4 DEF Timely
<1> QED
  BY <1>1, <1>5 DEF Y

LEMMA NumbersOf ==
  ASSUME elections \in Seq(Computer), NEW n, NEW X, Sound(n, X)
  PROVE  Len(elections) \in Nat /\ Len(X.won) \in Nat /\ X.d.date \in Nat
<1>1. X.won \in Seq(Computer) /\ X.d \in Daemon
  BY DEF Sound
<1> QED
  BY <1>1, LenProperties DEF Daemon

\* A LOCK_STARTED says what its sender knows.
LEMMA LockStartedTimely ==
  ASSUME elections \in Seq(Computer), NEW n, NEW X, Timely(n, X)
  PROVE  /\ LockStarted(X.d) \in Message /\ LockStarted(X.d).type # "LOCK_LEADERS"
         /\ LockStarted(X.d).date <= Len(elections) + Len(X.won)
<1>1. Sound(n, X) /\ X.d \in Daemon
  BY DEF Timely, Mute, Sound
<1>2. LockStarted(X.d) \in Message /\ LockStarted(X.d).type # "LOCK_LEADERS"
  BY <1>1, LockStartedTyped DEF LockStarted
<1>3. LockStarted(X.d).date = 0 \/ LockStarted(X.d).date = X.d.date
  BY DEF LockStarted
<1> QED
  BY <1>1, <1>2, <1>3, NumbersOf DEF Timely

LEMMA KnockTimely ==
  ASSUME elections \in Seq(Computer), NEW n, NEW X, Timely(n, X), NEW pace
  PROVE  Timely(n, Knock(X, pace)) /\ Knock(X, pace).d = X.d
<1>1. X.d.me = n
  BY DEF Timely, Mute, Sound, Steady
<1> QED
  BY <1>1, LockStartedTimely, TellTimely DEF Knock

LEMMA CheckLockStatusTimely ==
  ASSUME elections \in Seq(Computer), NEW n, NEW X, Timely(n, X), NEW pace
  PROVE  /\ Timely(n, CheckLockStatus(X, pace))
         /\ CheckLockStatus(X, pace).d.date = X.d.date
         /\ CheckLockStatus(X, pace).d.start = X.d.start
<1> DEFINE Z == CheckLockStatus(X, pace)
           Y == Knock(X, pace)
           now == Ready(X.d)
           kept == IF now = X.d.ready THEN X.d.cached ELSE X.d.cached /\ ~now
<1>1. Timely(n, Y)
  BY KnockTimely
<1>2. Z.out = Y.out /\ Z.won = Y.won
  <2>1. Sound(n, Y)
    BY <1>1 DEF Timely, Mute
  <2> HIDE DEF Y
  <2> QED
    BY <2>1 DEF CheckLockStatus, Sound, Y
<1>3. Mute(n, Z) /\ Z.d = [X.d EXCEPT !.ready = now, !.cached = kept]
  BY CheckLockStatusMute DEF Timely
<1> HIDE DEF Z, Y, now, kept
<1>4. Z.d.date = X.d.date /\ Z.d.start = X.d.start
  BY <1>3 DEF Timely, Mute, Sound, Daemon
<1>5. X.d.date = Y.d.date
  BY KnockTimely DEF Y
<1>6. Timely(n, Z)
  BY <1>1, <1>2, <1>3, <1>4, <1>5 DEF Timely
<1> QED
  BY <1>4, <1>6 DEF Z

\* An election gets a date of its own, after all others.
LEMMA ElectionStatusTimely ==
  ASSUME Count <= 3, elections \in Seq(Computer), NEW n \in Computer, NEW X, Timely(n, X),
         X.won = <<>>
  PROVE  /\ Timely(n, ElectionStatus(X))
         /\ ElectionStatus(X).d.date >= X.d.date
         /\ ElectionStatus(X).d.date # X.d.date => Smallest(n)
         /\ ElectionStatus(X).d.start = X.d.start
<1> DEFINE best == Best(Candidates(X.d))
           date == Len(elections) + 1
           result == [News("LOCK_LEADERS") EXCEPT !.date = date, !.leaders = best]
           Y == [X EXCEPT !.d = Elected(X.d, best, date), !.won = <<X.d.me>>]
<1>0. Sound(n, X) /\ X.d.me = n /\ X.d \in Daemon /\ Steady(n, X.d) /\ X.out[n] = <<>>
  BY DEF Timely, Mute, Sound, Steady
<1>1. Len(elections) \in Nat /\ date \in Nat /\ X.d.date \in Nat /\ X.d.date <= Len(elections)
  <2>1. Len(X.won) = 0
    OBVIOUS
  <2> QED
    BY <1>0, <2>1, NumbersOf DEF Timely
<1>2. best \in Leaders /\ Range(best) \subseteq X.d.known
  <2>1. Candidates(X.d) \subseteq X.d.known /\ X.d.known \subseteq Computer
    BY <1>0 DEF Candidates, Daemon
  <2> QED
    BY <2>1, BestLeaders
<1>3. ElectionStatus(X) = X \/ (MayElect(X.d) /\ ElectionStatus(X) = TellAll(Y, result))
  BY DEF ElectionStatus
<1>4. result \in Message /\ result.date = date
  BY <1>1, <1>2, NewsTyped DEF Message
<1>5. CASE ElectionStatus(X) = X
  BY <1>1, <1>5
<1>6. CASE MayElect(X.d) /\ ElectionStatus(X) = TellAll(Y, result)
  <2>1. Smallest(n)
    <3>1. Rightful(<<n>>)
      BY <1>0, <1>6, ElectorRightful
    <3>2. 1 \in DOMAIN <<n>> /\ <<n>>[1] = n
      OBVIOUS
    <3> QED
      BY <3>1, <3>2 DEF Rightful, Smallest
  <2>2. /\ Y.out = X.out /\ Y.won = <<n>> /\ Y.d.me = n /\ Y.d.date = date
        /\ Y.d.start = X.d.start
    BY <1>0 DEF Sound, Elected, Daemon
  <2>3. Mute(n, Y)
    <3>1. Steady(n, Y.d)
      BY <1>0, <1>1, <1>2 DEF Elected, Sound, Steady, Daemon
    <3>2. Rightful(<<n>>) /\ <<n>> \in Seq(Computer)
      BY <1>0, <1>6, ElectorRightful
    <3> QED
      BY <1>0, <2>2, <3>1, <3>2 DEF Mute, Sound, Steady
  <2> HIDE DEF Y, result, best
  <2>4. Len(Y.won) = 1 /\ Y.won # <<>>
    BY <2>2
  <2>5. \A m \in Computer : \A msg \in Range(X.out[m]) :
          msg.date <= Len(elections) + 1 /\ msg.type # "LOCK_LEADERS"
    <3> SUFFICES ASSUME NEW m \in Computer, NEW msg \in Range(X.out[m])
                 PROVE  msg.date <= Len(elections) + 1 /\ msg.type # "LOCK_LEADERS"
      OBVIOUS
    <3>1. msg.date <= Len(elections) + Len(X.won) /\ msg.type # "LOCK_LEADERS" /\ Len(X.won) = 0
      BY DEF Timely
    <3>2. msg.date \in Nat
      <4>1. Range(X.out[m]) \subseteq Message
        BY <1>0, RangeOfSeq DEF Sound
      <4> QED
        BY <4>1 DEF Message
    <3> QED
      BY <1>1, <3>1, <3>2
  <2>6. Timely(n, Y)
    BY <1>1, <2>1, <2>2, <2>3, <2>4, <2>5 DEF Timely
  <2>7. Timely(n, TellAll(Y, result)) /\ TellAll(Y, result).d = Y.d
    BY <1>1, <1>4, <2>4, <2>6, TellAllTimely
  <2> QED
    BY <1>1, <1>6, <2>1, <2>2, <2>7
<1> QED
  BY <1>3, <1>5, <1>6

-----------------------------------------------------------------------------
(* What a handler leaves of the dates.                                     *)

\* A daemon that did not start again knows nothing older than before.
NewestStep ==
  \A n \in Computer : daemon'[n].start = daemon[n].start => daemon'[n].date >= daemon[n].date

LEMMA NotThree ==
  ASSUME Count <= 2, NEW i \in Computer, NEW j \in Computer, NEW k \in Computer, i # j, j # k
  PROVE  i = k
<1> SUFFICES ASSUME i # k PROVE FALSE
  OBVIOUS
<1>1. IsFiniteSet({i}) /\ Cardinality({i}) = 1
  BY FS_Singleton
<1>2. IsFiniteSet({i} \cup {j}) /\ Cardinality({i} \cup {j}) = 2
  BY <1>1, FS_AddElement
<1>3. IsFiniteSet(({i} \cup {j}) \cup {k}) /\ Cardinality(({i} \cup {j}) \cup {k}) = 3
  <2> DEFINE S == {i} \cup {j}
  <2>1. IsFiniteSet(S) /\ Cardinality(S) = 2 /\ k \notin S
    BY <1>2
  <2> HIDE DEF S
  <2>2. IsFiniteSet(S \cup {k}) /\ Cardinality(S \cup {k}) = Cardinality(S) + 1
    BY <2>1, FS_AddElement
  <2> QED BY <2>1, <2>2 DEF S
<1>4. Cardinality(({i} \cup {j}) \cup {k}) <= Cardinality(Computer)
  BY ComputerAssumption, FS_Subset
<1> QED
  BY <1>3, <1>4, CountIs DEF Count

\* Nobody sends a LOCK_LEADERS to the computer with the smallest IP address.
LEMMA NoneForSmallest ==
  ASSUME NewestInv, NEW i \in Computer, NEW n \in Computer, Smallest(n)
  PROVE  \A m \in Range(net[i][n]) : m.type # "LOCK_LEADERS"
<1> SUFFICES ASSUME i # n, Smallest(i) PROVE FALSE
  BY DEF NewestInv, Dated
<1>1. i \in Nat /\ n \in Nat /\ i >= n /\ n >= i
  BY ComputerAssumption DEF Smallest
<1> QED
  BY <1>1

\* The communicatord sends none either.
LEMMA NoneFromSelf ==
  ASSUME DownInv, NEW n \in Computer
  PROVE  \A m \in Range(net[n][n]) : m.type # "LOCK_LEADERS"
BY DEF DownInv, NewsInTurn, Alternates, Range

LEMMA DatesAre ==
  ASSUME IInv, NEW i \in Computer, NEW n \in Computer
  PROVE  /\ net[i][n] \in Seq(Message) /\ daemon[n].date \in Nat
         /\ \A m \in Range(net[i][n]) : m.date \in Nat
<1>1. net[i][n] \in Seq(Message) /\ daemon[n] \in Daemon
  BY DEF IInv, TypeOK
<1>2. Range(net[i][n]) \subseteq Message
  BY <1>1, RangeOfSeq
<1> QED
  BY <1>1, <1>2 DEF Daemon, Message

LEMMA SentNewest ==
  ASSUME NewestInv, DownInv', NEW n \in Computer, NEW X, Timely(n, X), NEW rest \in Net,
         Sent(X, rest), X.d.start = daemon[n].start => X.d.date >= daemon[n].date,
         \A i, j \in Computer : Range(rest[i][j]) \subseteq Range(net[i][j]),
         \A i \in Computer : Ordered(rest[i][n], X.d.date),
         \A i \in Computer, j \in Computer \ {n} : Ordered(rest[i][j], daemon[j].date)
  PROVE  NewestInv' /\ NewestStep
<1>0. /\ IInv /\ Sound(n, X) /\ Mute(n, X) /\ X.d.me = n
      /\ elections \in Seq(Computer) /\ X.won \in Seq(Computer)
  BY DEF NewestInv, DownInv, IInv, TypeOK, Timely, Mute, Sound, Steady
<1>1. /\ Len(elections) \in Nat /\ Len(X.won) \in Nat
      /\ Len(elections') = Len(elections) + Len(X.won)
  <2>1. elections' = elections \o X.won
    BY DEF Sent
  <2> QED
    BY <1>0, <2>1, NumbersOf, ConcatProperties
<1>2. \A j \in Computer : daemon'[j] = IF j = n THEN X.d ELSE daemon[j]
  BY <1>0 DEF Sent, IInv, TypeOK
<1>3. \A j \in Computer : daemon'[j].date <= Len(elections') /\ daemon[j].date \in Nat
                          /\ daemon[j].date <= Len(elections)
  <2> TAKE j \in Computer
  <2>1. daemon[j].date \in Nat /\ daemon[j].date <= Len(elections)
    BY <1>0, DatesAre DEF NewestInv
  <2>2. X.d.date <= Len(elections) + Len(X.won)
    BY DEF Timely
  <2> QED
    BY <1>1, <1>2, <2>1, <2>2
<1>4. ASSUME NEW i \in Computer, NEW j \in Computer
      PROVE  Dated(i, j)' /\ Ordered(net'[i][j], daemon'[j].date)
  <2> DEFINE t == IF i = n THEN Passed(i, j, X.out[j]) ELSE <<>>
  <2>1. /\ rest[i][j] \in Seq(Message) /\ t \in Seq(Message)
        /\ net'[i][j] = rest[i][j] \o t
    <3>1. rest[i][j] \in Seq(Message) /\ X.out[j] \in Seq(Message)
      BY <1>0 DEF Net, Sound
    <3>2. net'[i][j] = IF i = n THEN rest[i][j] \o Passed(i, j, X.out[j]) ELSE rest[i][j]
      BY <1>0, SentQueues
    <3>3. rest[i][j] \o <<>> = rest[i][j]
      BY <3>1, ConcatEmptySeq
    <3>4. Passed(i, j, X.out[j]) \in Seq(Message) /\ <<>> \in Seq(Message)
      BY <3>1, PassedTyped
    <3> QED
      BY <3>1, <3>2, <3>3, <3>4
  <2>2. ASSUME NEW m \in Range(t)
        PROVE  /\ i = n /\ j # n /\ m.date <= Len(elections')
               /\ m.type = "LOCK_LEADERS" =>
                    X.won # <<>> /\ m.date = Len(elections) + 1 /\ Len(X.won) = 1 /\ Smallest(n)
    <3>1. i = n /\ m \in Range(X.out[j])
      BY <2>2, NoLeaders DEF Passed
    <3>2. j # n
      BY <1>0, <3>1, NoLeaders DEF Mute
    <3> QED
      BY <1>1, <3>1, <3>2 DEF Timely
  <2> HIDE DEF t
  <2>3. ASSUME NEW m \in Range(rest[i][j])
        PROVE  /\ m.date \in Nat /\ m.date <= Len(elections) /\ m.date <= Len(elections')
               /\ m.type = "LOCK_LEADERS" => i # j /\ Smallest(i)
    <3>1. m \in Range(net[i][j])
      OBVIOUS
    <3>2. m.date \in Nat /\ m.date <= Len(elections)
      BY <1>0, <3>1, DatesAre DEF NewestInv, Dated
    <3> QED
      BY <1>1, <3>1, <3>2 DEF NewestInv, Dated
  <2>4. Range(net'[i][j]) = Range(rest[i][j]) \cup Range(t)
    BY <2>1, BothParts
  <2>5. Dated(i, j)'
    BY <2>2, <2>3, <2>4 DEF Dated, Smallest
  <2>6. Ordered(rest[i][j], daemon'[j].date)
    BY <1>2
  <2>7. \A m \in Range(t) : m.type = "LOCK_LEADERS" =>
          m.date >= daemon'[j].date /\ \A k \in Range(rest[i][j]) \cup Range(t) : m.date >= k.date
    <3> SUFFICES ASSUME NEW m \in Range(t), m.type = "LOCK_LEADERS"
                 PROVE  /\ m.date >= daemon'[j].date
                        /\ \A k \in Range(rest[i][j]) \cup Range(t) : m.date >= k.date
      OBVIOUS
    <3>1. m.date = Len(elections) + 1 /\ Len(elections') = Len(elections) + 1 /\ j # n
      BY <1>1, <2>2
    <3>2. daemon'[j].date = daemon[j].date
      BY <1>2, <3>1
    <3>3. m.date >= daemon'[j].date
      BY <1>1, <1>3, <3>1, <3>2
    <3>4. \A k \in Range(t) : k.date <= Len(elections')
      BY <2>2
    <3>5. \A k \in Range(rest[i][j]) : k.date <= Len(elections')
      BY <2>3
    <3> QED
      BY <3>1, <3>3, <3>4, <3>5
  <2>8. Ordered(rest[i][j] \o t, daemon'[j].date)
    BY <2>1, <2>6, <2>7, OrderedMore
  <2> QED
    BY <2>1, <2>5, <2>8
<1>5. NewestStep
  <2> SUFFICES ASSUME NEW j \in Computer, daemon'[j].start = daemon[j].start
               PROVE  daemon'[j].date >= daemon[j].date
    BY DEF NewestStep
  <2>1. daemon[j].date >= daemon[j].date
    BY <1>3
  <2> QED
    BY <1>2, <2>1
<1> QED
  BY <1>3, <1>4, <1>5 DEF NewestInv

LEMMA DoneNewest ==
  ASSUME Count <= 2, NewestInv, NEW s \in Computer, NEW n \in Computer, net[s][n] # <<>>,
         NEW X, Timely(n, X), Done(s, n, X), DownInv', X.d.date >= daemon[n].date,
         X.d.date # daemon[n].date =>
           Smallest(n) \/ (s # n /\ X.d.date <= Head(net[s][n]).date)
  PROVE  NewestInv' /\ NewestStep
<1> DEFINE rest == [net EXCEPT ![s][n] = Tail(@)]
<1>0. IInv /\ DownInv
  BY DEF NewestInv, DownInv
<1>1. net[s][n] \in Seq(Message) /\ X.d.date \in Nat /\ daemon[n].date \in Nat
  <2>1. Sound(n, X) /\ elections \in Seq(Computer)
    BY <1>0 DEF IInv, TypeOK, Timely, Mute
  <2> QED
    BY <1>0, <2>1, DatesAre, NumbersOf
<1>2. /\ rest \in Net
      /\ \A i, j \in Computer :
           rest[i][j] = IF i = s /\ j = n THEN Tail(net[s][n]) ELSE net[i][j]
  BY <1>0, TailTaken
<1>3. Sent(X, rest)
  BY DEF Done
<1> HIDE DEF rest
<1>4. \A i, j \in Computer : Range(rest[i][j]) \subseteq Range(net[i][j])
  BY <1>1, <1>2, HeadAndTail
<1>5. \A i, j \in Computer : net[i][j] \in Seq(Message) /\ Ordered(net[i][j], daemon[j].date)
  BY <1>0, DatesAre DEF NewestInv
<1>6. \A i \in Computer, j \in Computer \ {n} : Ordered(rest[i][j], daemon[j].date)
  BY <1>2, <1>5
<1>7. ASSUME NEW i \in Computer PROVE Ordered(rest[i][n], X.d.date)
  <2>1. CASE X.d.date = daemon[n].date
    <3>1. CASE i = s
      <4>1. Ordered(Tail(net[s][n]), X.d.date)
        BY <1>1, <1>5, <2>1, OrderedTail
      <4> QED
        BY <1>2, <3>1, <4>1
    <3>2. CASE i # s
      BY <1>2, <1>5, <2>1, <3>2
    <3> QED
      BY <3>1, <3>2
  <2>2. CASE Smallest(n)
    <3>1. \A m \in Range(rest[i][n]) : m.type # "LOCK_LEADERS"
      BY <1>4, <2>2, NoneForSmallest
    <3> QED
      BY <3>1, NothingToOrder
  <2>3. CASE s # n /\ X.d.date <= Head(net[s][n]).date
    <3>1. CASE i = s
      <4>1. Ordered(Tail(net[s][n]), X.d.date)
        BY <1>1, <1>5, <2>3, OrderedTail
      <4> QED
        BY <1>2, <3>1, <4>1
    <3>2. CASE i = n
      <4>1. \A m \in Range(rest[i][n]) : m.type # "LOCK_LEADERS"
        BY <1>0, <1>4, <3>2, NoneFromSelf
      <4> QED
        BY <4>1, NothingToOrder
    <3> QED
      BY <2>3, <3>1, <3>2, NotThree
  <2> QED
    BY <2>1, <2>2, <2>3
<1> QED
  BY <1>2, <1>3, <1>4, <1>6, <1>7, SentNewest

LEMMA HereTimely ==
  ASSUME NewestInv, NEW n \in Computer, NEW d, Steady(n, d), d.date <= Len(elections)
  PROVE  /\ Timely(n, [Here(n) EXCEPT !.d = d]) /\ [Here(n) EXCEPT !.d = d].d = d
         /\ [Here(n) EXCEPT !.d = d].won = <<>>
<1> DEFINE X == [Here(n) EXCEPT !.d = d]
<1>1. Mute(n, X) /\ X.d = d /\ X.won = <<>> /\ X.out = [m \in Computer |-> <<>>]
  BY HereMute DEF NewestInv, DownInv, Here
<1>2. Len(X.won) = 0
  BY <1>1
<1>3. Len(elections) + 0 = Len(elections)
  BY LenProperties DEF NewestInv, DownInv, IInv, TypeOK
<1>4. \A m \in Computer : Range(X.out[m]) = {}
  BY <1>1, NoLeaders
<1> HIDE DEF X
<1>5. Timely(n, X)
  BY <1>1, <1>2, <1>3, <1>4 DEF Timely
<1> QED
  BY <1>1, <1>5 DEF X

LEMMA NewestFacts ==
  ASSUME Count <= 2, NewestInv, NEW n \in Computer
  PROVE  /\ IInv /\ elections \in Seq(Computer) /\ Count <= 3 /\ daemon[n].date \in Nat
         /\ daemon[n].date <= Len(elections) /\ Steady(n, daemon[n])
<1>1. IInv /\ daemon[n].date <= Len(elections)
  BY DEF NewestInv, DownInv
<1>2. Count <= 3
  BY CountIs
<1>3. elections \in Seq(Computer) /\ Steady(n, daemon[n])
  BY <1>1 DEF IInv, TypeOK
<1>4. daemon[n].date \in Nat
  BY <1>1, DatesAre
<1> QED
  BY <1>1, <1>2, <1>3, <1>4

LEMMA MsgClusterUpNewest ==
  ASSUME Count <= 2, NewestInv, DownInv', NEW n \in Computer, MsgClusterUp(n)
  PROVE  NewestInv' /\ NewestStep
<1> DEFINE d == WithSelf(daemon[n])
           W == [Here(n) EXCEPT !.d = d]
           X == ElectionStatus(W)
           Y == TellAll(X, LockStarted(X.d))
<1>0. /\ IInv /\ elections \in Seq(Computer) /\ Count <= 3 /\ daemon[n].date \in Nat
      /\ daemon[n].date <= Len(elections)
  BY NewestFacts
<1>1. net[n][n] # <<>>
  BY DEF MsgClusterUp, Arrived
<1>2. PICK pace \in BOOLEAN : Done(n, n, CheckLockStatus(Y, pace))
  BY DEF MsgClusterUp, Here
<1>3. Steady(n, d) /\ d.date = daemon[n].date
  <2>1. Steady(n, daemon[n]) /\ Steady(n, d)
    BY <1>0, WithSelfSteady DEF IInv
  <2> QED
    BY <2>1 DEF WithSelf, Steady, Daemon
<1> HIDE DEF d
<1>4. Timely(n, W) /\ W.d.date = daemon[n].date /\ W.won = <<>>
  BY <1>0, <1>3, HereTimely
<1> HIDE DEF W
<1>5. Timely(n, X) /\ X.d.date >= daemon[n].date /\ (X.d.date # daemon[n].date => Smallest(n))
  BY <1>0, <1>4, ElectionStatusTimely
<1> HIDE DEF X
<1>6. Timely(n, Y) /\ Y.d = X.d
  BY <1>0, <1>5, LockStartedTimely, TellAllTimely
<1> HIDE DEF Y
<1> DEFINE Z == CheckLockStatus(Y, pace)
<1>7. Timely(n, Z) /\ Z.d.date = X.d.date
  BY <1>0, <1>6, CheckLockStatusTimely
<1> HIDE DEF Z
<1> QED
  BY <1>1, <1>2, <1>5, <1>7, DoneNewest DEF Z

LEMMA MsgClusterDownNewest ==
  ASSUME Count <= 2, NewestInv, DownInv', NEW n \in Computer, MsgClusterDown(n)
  PROVE  NewestInv' /\ NewestStep
<1> DEFINE d == Leaderless(daemon[n])
           X == [Here(n) EXCEPT !.d = d]
           Z == CheckLockStatus(X, FALSE)
<1>0. /\ IInv /\ elections \in Seq(Computer) /\ daemon[n].date \in Nat
      /\ daemon[n].date <= Len(elections)
  BY DEF NewestInv, DownInv, IInv, TypeOK, Daemon
<1>1. net[n][n] # <<>> /\ Done(n, n, Z)
  BY DEF MsgClusterDown, Arrived, Here
<1>2. Steady(n, d) /\ d.date = daemon[n].date
  <2>1. Steady(n, daemon[n]) /\ Steady(n, d)
    BY <1>0, LeaderlessSteady DEF IInv
  <2> QED
    BY <2>1 DEF Leaderless, Steady, Daemon
<1> HIDE DEF d
<1>3. Timely(n, X) /\ X.d.date = daemon[n].date
  BY <1>0, <1>2, HereTimely
<1> HIDE DEF X
<1>4. Timely(n, Z) /\ Z.d.date = daemon[n].date
  BY <1>0, <1>3, CheckLockStatusTimely
<1>5. daemon[n].date >= daemon[n].date
  BY <1>0
<1> HIDE DEF Z
<1> QED
  BY <1>1, <1>4, <1>5, DoneNewest

\* A LOCK_LEADERS comes from the computer with the smallest IP address, in time.
LEMMA MsgLockLeadersNewest ==
  ASSUME Count <= 2, NewestInv, DownInv', NEW s \in Computer, NEW n \in Computer,
         MsgLockLeaders(s, n)
  PROVE  NewestInv' /\ NewestStep
<1> DEFINE m == Received(s, n)
           d == Adopt(daemon[n], m)
           X == [Here(n) EXCEPT !.d = d]
<1>0. IInv /\ elections \in Seq(Computer)
  BY DEF NewestInv, DownInv, IInv, TypeOK
<1>1. net[s][n] # <<>> /\ m.type = "LOCK_LEADERS"
  BY DEF MsgLockLeaders, Arrived, Received
<1>2. PICK pace \in BOOLEAN : Done(s, n, CheckLockStatus(X, pace))
  BY DEF MsgLockLeaders, Here
<1>3. /\ m \in Message /\ m.date <= Len(elections) /\ m.date >= daemon[n].date /\ s # n
      /\ m.date \in Nat
  <2>1. net[s][n] \in Seq(Message) /\ m \in Message
    BY <1>0, <1>1, ReceivedTyped DEF IInv, TypeOK
  <2>2. m \in Range(net[s][n]) /\ m = net[s][n][1] /\ 1 \in DOMAIN net[s][n]
    BY <1>1, <2>1, HeadAndTail, LenProperties, EmptySeq DEF Received
  <2> QED
    BY <1>1, <2>1, <2>2 DEF NewestInv, Dated, Ordered, Message
<1>4. Steady(n, d) /\ d.date = m.date
  <2>1. Steady(n, daemon[n]) /\ Steady(n, d)
    BY <1>0, <1>3, AdoptSteady DEF IInv
  <2> QED
    BY <2>1 DEF Adopt, Learn, Steady, Daemon
<1> HIDE DEF d
<1>5. Timely(n, X) /\ X.d.date = m.date
  BY <1>3, <1>4, HereTimely
<1> HIDE DEF X
<1> DEFINE Z == CheckLockStatus(X, pace)
<1>6. Timely(n, Z) /\ Z.d.date = m.date
  BY <1>0, <1>5, CheckLockStatusTimely
<1>7. m = Head(net[s][n]) /\ m.date <= m.date
  BY <1>3 DEF Received
<1> HIDE DEF Z, m
<1>8. Z.d.date >= daemon[n].date /\ Z.d.date <= Head(net[s][n]).date
  BY <1>3, <1>6, <1>7
<1> QED
  BY <1>1, <1>2, <1>3, <1>6, <1>8, DoneNewest DEF Z

\* A LOCK_STARTED brings a newer date, or none.
LEMMA MsgLockStartedNewest ==
  ASSUME Count <= 2, NewestInv, DownInv', NEW s \in Computer, NEW n \in Computer,
         MsgLockStarted(s, n)
  PROVE  NewestInv' /\ NewestStep
<1> DEFINE m == Received(s, n)
           d == Told(daemon[n], s, m)
           W == [Here(n) EXCEPT !.d = d]
           X == ElectionStatus(W)
           answer == IsNews(daemon[n], s, m) \/ IsLeader(daemon[n]) # IsLeader(X.d)
           reply(Y) == IF answer THEN Tell(Y, s, LockStarted(Y.d)) ELSE Y
<1>0. IInv /\ DownInv /\ elections \in Seq(Computer) /\ Count <= 3
  BY CountIs DEF NewestInv, DownInv, IInv, TypeOK
<1>1. net[s][n] # <<>> /\ s # n
  BY <1>0, OnlyNews DEF MsgLockStarted, Arrived
<1>2. \/ Done(s, n, Here(n))
      \/ \E pace \in BOOLEAN : Done(s, n, reply(CheckLockStatus(X, pace)))
  BY DEF MsgLockStarted, Here
<1>3. /\ m \in Message /\ m.date <= Len(elections) /\ m.date \in Nat
      /\ daemon[n].date \in Nat /\ daemon[n].date <= Len(elections)
      /\ Steady(n, daemon[n])
  <2>1. net[s][n] \in Seq(Message) /\ m \in Message
    BY <1>0, <1>1, ReceivedTyped DEF IInv, TypeOK
  <2>2. m \in Range(net[s][n])
    BY <1>1, <2>1, HeadAndTail DEF Received
  <2> QED
    BY <1>0, <2>1, <2>2, DatesAre DEF NewestInv, Dated, IInv
<1>4. /\ Steady(n, d)
      /\ d.date = IF m.date > daemon[n].date THEN m.date ELSE daemon[n].date
  <2> DEFINE met == [daemon[n] EXCEPT !.known = @ \cup {s}, !.linked = @ \cup {s},
                                      !.starts[s] = m.start]
             newer == IF m.date > daemon[n].date
                      THEN [met EXCEPT !.date = m.date, !.leaders = <<>>, !.former = "NO"] ELSE met
             learned == Learn(newer, m.leaders)
  <2>1. newer.date = IF m.date > daemon[n].date THEN m.date ELSE daemon[n].date
    BY <1>3 DEF Steady, Daemon
  <2>2. learned.date = newer.date
    BY <1>3 DEF Learn, Steady, Daemon
  <2>3. d = IF newer.leaders = <<>> THEN learned ELSE newer
    BY DEF Told
  <2>4. Steady(n, d)
    BY <1>3, ToldSteady
  <2> HIDE DEF newer, learned, d
  <2> QED
    BY <2>1, <2>2, <2>3, <2>4
<1>5. /\ d.date >= daemon[n].date /\ d.date <= Len(elections) /\ d.date \in Nat
      /\ d.date # daemon[n].date => d.date <= m.date
  BY <1>3, <1>4
<1>6. m = Head(net[s][n]) /\ Here(n) = [Here(n) EXCEPT !.d = daemon[n]]
  BY DEF Received, Here
<1> HIDE DEF d, m
<1>7. CASE Done(s, n, Here(n))
  <2>1. Timely(n, Here(n)) /\ Here(n).d = daemon[n]
    <3>1. /\ Timely(n, [Here(n) EXCEPT !.d = daemon[n]])
          /\ [Here(n) EXCEPT !.d = daemon[n]].d = daemon[n]
      BY <1>3, HereTimely
    <3> QED
      BY <1>6, <3>1
  <2>2. Here(n).d.date = daemon[n].date /\ Here(n).d.date >= daemon[n].date
    BY <1>3, <2>1
  <2> QED
    BY <1>1, <1>7, <2>1, <2>2, DoneNewest
<1>8. CASE \E pace \in BOOLEAN : Done(s, n, reply(CheckLockStatus(X, pace)))
  <2>1. PICK pace \in BOOLEAN : Done(s, n, reply(CheckLockStatus(X, pace)))
    BY <1>8
  <2>2. Timely(n, W) /\ W.d = d /\ W.won = <<>>
    BY <1>4, <1>5, HereTimely
  <2> HIDE DEF W
  <2>3. Timely(n, X) /\ X.d.date >= d.date /\ (X.d.date # d.date => Smallest(n)) /\ X.d.date \in Nat
    <3>1. Timely(n, X) /\ X.d.date >= d.date /\ (X.d.date # d.date => Smallest(n))
      BY <1>0, <2>2, ElectionStatusTimely
    <3> QED
      BY <1>0, <3>1, NumbersOf DEF Timely, Mute
  <2> HIDE DEF X, answer
  <2> DEFINE Y == CheckLockStatus(X, pace)
  <2>4. Timely(n, Y) /\ Y.d.date = X.d.date
    BY <1>0, <2>3, CheckLockStatusTimely
  <2> HIDE DEF Y
  <2>5. Timely(n, reply(Y)) /\ reply(Y).d = Y.d
    BY <1>0, <1>1, <2>4, LockStartedTimely, TellTimely
  <2> DEFINE Z == reply(Y)
  <2>6. Timely(n, Z) /\ Z.d.date = X.d.date /\ Done(s, n, Z)
    BY <2>1, <2>4, <2>5 DEF Y
  <2> HIDE DEF Z
  <2>7. Z.d.date >= daemon[n].date
    BY <1>3, <1>5, <2>3, <2>6
  <2>8. Z.d.date # daemon[n].date => Smallest(n) \/ Z.d.date <= Head(net[s][n]).date
    BY <1>5, <1>6, <2>3, <2>6
  <2> QED
    BY <1>1, <2>6, <2>7, <2>8, DoneNewest
<1> QED
  BY <1>2, <1>7, <1>8

LEMMA MsgServerGoneNewest ==
  ASSUME Count <= 2, NewestInv, DownInv', NEW s \in Computer, NEW n \in Computer,
         MsgServerGone(s, n)
  PROVE  NewestInv' /\ NewestStep
<1> DEFINE d == Forget(daemon[n], s)
           W == [Here(n) EXCEPT !.d = d]
           X == ElectionStatus(W)
<1>0. /\ IInv /\ elections \in Seq(Computer) /\ Count <= 3 /\ daemon[n].date \in Nat
      /\ daemon[n].date <= Len(elections) /\ Steady(n, daemon[n])
  BY NewestFacts
<1>1. net[s][n] # <<>>
  BY DEF MsgServerGone, Arrived
<1>2. \/ \E pace \in BOOLEAN : Done(s, n, CheckLockStatus(X, pace))
      \/ Done(s, n, W)
  BY DEF MsgServerGone, Here
<1>3. Steady(n, d) /\ d.date = daemon[n].date
  <2>1. Steady(n, d)
    BY <1>0, ForgetSteady
  <2>2. d.date = daemon[n].date
    BY <1>0 DEF Forget, Steady, Daemon
  <2> QED
    BY <2>1, <2>2
<1> HIDE DEF d
<1>4. Timely(n, W) /\ W.d.date = daemon[n].date /\ W.won = <<>> /\ W.d.date >= daemon[n].date
  BY <1>0, <1>3, HereTimely
<1> HIDE DEF W
<1>5. CASE Done(s, n, W)
  BY <1>1, <1>4, <1>5, DoneNewest
<1>6. CASE \E pace \in BOOLEAN : Done(s, n, CheckLockStatus(X, pace))
  <2>1. PICK pace \in BOOLEAN : Done(s, n, CheckLockStatus(X, pace))
    BY <1>6
  <2>2. Timely(n, X) /\ X.d.date >= daemon[n].date /\ (X.d.date # daemon[n].date => Smallest(n))
    BY <1>0, <1>4, ElectionStatusTimely
  <2> HIDE DEF X
  <2> DEFINE Y == CheckLockStatus(X, pace)
  <2>3. Timely(n, Y) /\ Y.d.date = X.d.date
    BY <1>0, <2>2, CheckLockStatusTimely
  <2> HIDE DEF Y
  <2> QED
    BY <1>1, <2>1, <2>2, <2>3, DoneNewest DEF Y
<1> QED
  BY <1>2, <1>5, <1>6

LEMMA MsgLockNewest ==
  ASSUME NewestInv, DownInv', NEW n \in Computer, MsgLock(n)
  PROVE  NewestInv' /\ NewestStep
<1> DEFINE cached == daemon[n].cached \/ ~Ready(daemon[n])
           d == [daemon[n] EXCEPT !.cached = cached]
           X == [Here(n) EXCEPT !.d = d]
<1>0. /\ IInv /\ elections \in Seq(Computer) /\ daemon[n].date \in Nat /\ net \in Net
      /\ daemon[n].date <= Len(elections) /\ Steady(n, daemon[n])
  BY DEF NewestInv, DownInv, IInv, TypeOK, Daemon, Net
<1>1. PICK pace \in BOOLEAN : Sent(Knock(X, pace), net)
  BY DEF MsgLock, Here
<1>2. Steady(n, d) /\ d.date = daemon[n].date
  <2>1. cached \in BOOLEAN
    OBVIOUS
  <2> HIDE DEF cached
  <2> QED
    BY <1>0, <2>1, CachedSteady DEF Steady, Daemon
<1> HIDE DEF d
<1>3. Timely(n, X) /\ X.d = d
  BY <1>0, <1>2, HereTimely
<1> HIDE DEF X
<1> DEFINE Z == Knock(X, pace)
<1>4. Timely(n, Z) /\ Z.d.date = daemon[n].date /\ Sent(Z, net)
  BY <1>0, <1>1, <1>2, <1>3, KnockTimely
<1> HIDE DEF Z
<1>5. \A i, j \in Computer : Ordered(net[i][j], daemon[j].date)
  BY DEF NewestInv
<1>6. daemon[n].date >= daemon[n].date
  BY <1>0
<1> QED
  BY <1>0, <1>4, <1>5, <1>6, SentNewest

\* Where no handler runs, the messages stay or there are no elections in what is left of them.
LEMMA StillNewest ==
  ASSUME NewestInv, DownInv', UNCHANGED elections,
         \A n \in Computer : daemon'[n].date <= Len(elections),
         \A i, j \in Computer :
           \/ net'[i][j] = net[i][j] /\ daemon'[j].date = daemon[j].date
           \/ \A m \in Range(net'[i][j]) : m.type # "LOCK_LEADERS" /\ m.date <= Len(elections)
  PROVE  NewestInv'
<1>1. ASSUME NEW i \in Computer, NEW j \in Computer
      PROVE  Dated(i, j)' /\ Ordered(net'[i][j], daemon'[j].date)
  <2>1. CASE net'[i][j] = net[i][j] /\ daemon'[j].date = daemon[j].date
    BY <2>1 DEF NewestInv, Dated, Smallest
  <2>2. CASE \A m \in Range(net'[i][j]) : m.type # "LOCK_LEADERS" /\ m.date <= Len(elections)
    <3>1. Ordered(net'[i][j], daemon'[j].date)
      BY <2>2, NothingToOrder
    <3>2. Dated(i, j)'
      BY <2>2 DEF Dated
    <3> QED
      BY <3>1, <3>2
  <2> QED
    BY <2>1, <2>2
<1> QED
  BY <1>1 DEF NewestInv

\* What a communicatord says has no date.
Plain(q) == \A m \in Range(q) : m.type # "LOCK_LEADERS" /\ m.date = 0

LEMMA NewsPlain ==
  /\ Plain(<<>>) /\ Plain(<<News("HANGUP")>>)
  /\ \A n : Plain(FirstNews(n))
  /\ \A n, cut : Plain(ClusterNews(n, cut))
<1>1. Plain(<<>>)
  BY NoLeaders DEF Plain
<1>2. /\ Plain(<<News("HANGUP")>>) /\ Plain(<<News("CLUSTER_UP")>>)
      /\ Plain(<<News("CLUSTER_DOWN")>>)
  <2>1. /\ News("HANGUP").type = "HANGUP" /\ News("HANGUP").date = 0
        /\ News("CLUSTER_UP").type = "CLUSTER_UP" /\ News("CLUSTER_UP").date = 0
        /\ News("CLUSTER_DOWN").type = "CLUSTER_DOWN" /\ News("CLUSTER_DOWN").date = 0
    BY DEF News
  <2> QED
    BY <2>1, RangeOfNews DEF Plain
<1>3. \A n : Plain(FirstNews(n))
  BY <1>1, <1>2 DEF FirstNews
<1>4. \A n, cut : Plain(ClusterNews(n, cut))
  BY <1>1, <1>2 DEF ClusterNews
<1> QED
  BY <1>1, <1>2, <1>3, <1>4

LEMMA NewsAdded ==
  ASSUME Count <= 2, NewestInv, NEW n \in Computer, NEW cut
  PROVE  \A m \in Range(net[n][n] \o ClusterNews(n, cut)) :
           m.type # "LOCK_LEADERS" /\ m.date <= Len(elections)
<1>1. net[n][n] \in Seq(Message) /\ DownInv /\ 0 <= Len(elections)
  BY DatesAre, NewestFacts, LenProperties DEF NewestInv, DownInv
<1>2. ClusterNews(n, cut) \in Seq(Message) /\ Plain(ClusterNews(n, cut))
  BY ClusterNewsTyped, NewsPlain
<1>3. Range(net[n][n] \o ClusterNews(n, cut)) = Range(net[n][n]) \cup Range(ClusterNews(n, cut))
  BY <1>1, <1>2, BothParts
<1>4. \A m \in Range(net[n][n]) : m.type # "LOCK_LEADERS" /\ m.date <= Len(elections)
  BY <1>1, NoneFromSelf DEF NewestInv, Dated
<1> QED
  BY <1>1, <1>2, <1>3, <1>4 DEF Plain

LEMMA SameDates ==
  ASSUME Count <= 2, NewestInv, \A n \in Computer : daemon'[n].date = daemon[n].date
  PROVE  NewestStep /\ \A n \in Computer : daemon'[n].date <= Len(elections)
<1>1. \A n \in Computer : daemon[n].date \in Nat /\ daemon[n].date <= Len(elections)
  BY NewestFacts
<1>2. \A n \in Computer : daemon'[n].date >= daemon[n].date
  BY <1>1
<1> QED
  BY <1>1, <1>2 DEF NewestStep

LEMMA CacheTimeoutNewest ==
  ASSUME Count <= 2, NewestInv, DownInv', NEW n \in Computer, CacheTimeout(n)
  PROVE  NewestInv' /\ NewestStep
<1>1. /\ \A j \in Computer :
           daemon'[j] = IF j = n THEN [daemon[n] EXCEPT !.cached = FALSE] ELSE daemon[j]
      /\ UNCHANGED <<net, elections>>
  BY NewestFacts DEF CacheTimeout, IInv, TypeOK
<1>2. \A j \in Computer : daemon'[j].date = daemon[j].date
  <2>1. daemon[n] \in Daemon
    BY NewestFacts DEF Steady
  <2>2. [daemon[n] EXCEPT !.cached = FALSE].date = daemon[n].date
    BY <2>1 DEF Daemon
  <2> QED
    BY <1>1, <2>2
<1> QED
  BY <1>1, <1>2, SameDates, StillNewest

LEMMA LoseConnectionNewest ==
  ASSUME Count <= 2, NewestInv, DownInv', NEW n \in Computer, NEW m \in Computer,
         LoseConnection(n, m)
  PROVE  NewestInv' /\ NewestStep
<1>1. UNCHANGED <<daemon, elections>>
  BY DEF LoseConnection
<1>2. NewestStep /\ \A i \in Computer : daemon'[i].date <= Len(elections)
  BY <1>1, SameDates
<1>3. ASSUME NEW i \in Computer, NEW j \in Computer
      PROVE  \/ net'[i][j] = net[i][j]
             \/ \A k \in Range(net'[i][j]) : k.type # "LOCK_LEADERS" /\ k.date <= Len(elections)
  <2>1. \/ net'[i][j] = net[i][j] \/ net'[i][j] = <<News("HANGUP")>> \/ net'[i][j] = <<>>
        \/ i = j /\ net'[i][j] = net[i][i] \o ClusterNews(i, apart')
    <3>1. n # m
      <4>1. n \in Nat /\ m \in Nat
        BY ComputerAssumption
      <4> QED
        BY <4>1 DEF LoseConnection
    <3>2. net'[i][j] = CASE {i, j} = {n, m} -> <<News("HANGUP")>>
                         [] i = j -> net[i][j] \o ClusterNews(i, apart')
                         [] OTHER -> IF CutOff(i, j, apart') THEN Left(net[i][j]) ELSE net[i][j]
      BY DEF LoseConnection
    <3>3. Left(net[i][j]) = <<News("HANGUP")>> \/ Left(net[i][j]) = <<>>
      BY DEF Left
    <3>4. i = j => {i, j} # {n, m}
      BY <3>1
    <3> QED
      BY <3>2, <3>3, <3>4
  <2>2. CASE net'[i][j] = <<News("HANGUP")>> \/ net'[i][j] = <<>>
    <3>1. 0 <= Len(elections)
      BY NewestFacts, LenProperties
    <3> QED
      BY <2>2, <3>1, NewsPlain DEF Plain
  <2> QED
    BY <2>1, <2>2, NewsAdded
<1> QED
  BY <1>1, <1>2, <1>3, StillNewest

LEMMA ReconnectNewest ==
  ASSUME Count <= 2, NewestInv, DownInv', NEW n \in Computer, NEW m \in Computer,
         Reconnect(n, m)
  PROVE  NewestInv' /\ NewestStep
<1>1. UNCHANGED <<daemon, elections>>
  BY DEF Reconnect
<1>2. NewestStep /\ \A i \in Computer : daemon'[i].date <= Len(elections)
  BY <1>1, SameDates
<1>3. \A i, j \in Computer :
        net'[i][j] = IF i = j THEN net[i][i] \o ClusterNews(i, apart') ELSE net[i][j]
  BY NewestFacts DEF Reconnect, IInv, TypeOK
<1> QED
  BY <1>1, <1>2, <1>3, NewsAdded, StillNewest

LEMMA RestartNewest ==
  ASSUME Count <= 2, NewestInv, DownInv', NEW n \in Computer, Restart(n)
  PROVE  NewestInv' /\ NewestStep
<1>1. /\ \A j \in Computer :
           daemon'[j] = IF j = n THEN NewDaemon(n, daemon[n].start + 1) ELSE daemon[j]
      /\ \A i, j \in Computer :
           net'[i][j] = IF j = n THEN (IF i = n THEN FirstNews(n) ELSE <<>>) ELSE net[i][j]
      /\ UNCHANGED elections
  BY NewestFacts DEF Restart, FirstNews, IInv, TypeOK
<1>2. /\ daemon'[n].date = 0 /\ daemon'[n].start = daemon[n].start + 1
      /\ daemon[n].start \in Nat /\ 0 <= Len(elections)
  <2>1. daemon[n].start \in Nat
    BY NewestFacts DEF Steady, Daemon
  <2> QED
    BY <1>1, <2>1, NewestFacts, LenProperties DEF NewDaemon
<1>3. \A j \in Computer : daemon[j].date \in Nat /\ daemon[j].date <= Len(elections)
  BY NewestFacts
<1>4. NewestStep /\ \A j \in Computer : daemon'[j].date <= Len(elections)
  <2>1. daemon'[n].start # daemon[n].start
    BY <1>2
  <2>2. \A j \in Computer \ {n} : daemon'[j].date >= daemon[j].date
    BY <1>1, <1>3
  <2> QED
    BY <1>1, <1>2, <1>3, <2>1, <2>2 DEF NewestStep
<1>5. \A i \in Computer : Plain(net'[i][n])
  BY <1>1, NewsPlain
<1> QED
  BY <1>1, <1>2, <1>4, <1>5, StillNewest DEF Plain

LEMMA NextNewest ==
  ASSUME Count <= 2
  PROVE  NewestInv /\ [Next]_vars => NewestInv' /\ NewestStep
<1> SUFFICES ASSUME NewestInv, [Next]_vars PROVE NewestInv' /\ NewestStep
  OBVIOUS
<1>0. DownInv'
  <2>1. Count <= 3
    BY CountIs
  <2> QED
    BY <2>1, NextDown DEF NewestInv
<1>1. CASE \E s, n \in Computer : Handle(s, n)
  BY <1>0, <1>1, MsgLockLeadersNewest, MsgLockStartedNewest, MsgServerGoneNewest DEF Handle
<1>2. CASE \E n \in Computer : Hear(n) \/ MsgLock(n) \/ CacheTimeout(n) \/ Restart(n)
  BY <1>0, <1>2, MsgClusterUpNewest, MsgClusterDownNewest, MsgLockNewest, CacheTimeoutNewest,
     RestartNewest DEF Hear
<1>3. CASE \E n, m \in Computer : LoseConnection(n, m) \/ Reconnect(n, m)
  BY <1>0, <1>3, LoseConnectionNewest, ReconnectNewest
<1>4. CASE UNCHANGED vars
  <2>1. UNCHANGED <<daemon, elections, net>>
    BY <1>4 DEF vars
  <2> QED
    BY <1>0, <2>1, SameDates, StillNewest
<1> QED
  BY <1>1, <1>2, <1>3, <1>4 DEF Next

LEMMA InitNewest == Init => NewestInv
<1> SUFFICES ASSUME Init PROVE NewestInv
  OBVIOUS
<1>1. DownInv
  BY InitDown
<1>2. elections = <<>> /\ Len(elections) = 0
  BY DEF Init
<1>3. \A n \in Computer : daemon[n].date = 0
  BY DEF Init, NewDaemon
<1>4. \A i, j \in Computer : Plain(net[i][j])
  BY NewsPlain DEF Init, FirstNews
<1>5. \A i, j \in Computer : Dated(i, j) /\ Ordered(net[i][j], daemon[j].date)
  BY <1>2, <1>4, NothingToOrder DEF Plain, Dated
<1> QED
  BY <1>1, <1>2, <1>3, <1>5 DEF NewestInv

\* In every execution of a cluster of two computers, a daemon that does not start again never
\* goes back to an older election: one computer holds them all, and what it says comes in order.
THEOREM NewestElectionLasts ==
  ASSUME Count <= 2
  PROVE  Spec => NewestElectionWins
<1>1. Init => NewestInv
  BY InitNewest
<1>2. NewestInv /\ [Next]_vars => NewestInv' /\ NewestStep
  BY NextNewest
<1> QED
  BY <1>1, <1>2, PTL DEF Spec, NewestElectionWins, NewestStep

-----------------------------------------------------------------------------
(* A leader knows that it leads, as long as nobody goes away.              *)

\* The daemons that are past their first CLUSTER_UP, and have an identifier.
Awake == {n \in Computer : daemon[n].count # 0}

\* The CLUSTER_UP comes once.
FirstUp(n) ==
  /\ net[n][n] \in {<<>>, <<News("CLUSTER_UP")>>}
  /\ net[n][n] # <<>> => daemon[n].count = 0
  /\ daemon[n].count # 0 \/ net[n][n] # <<>> => ClusterIsUp(n, apart)

\* A message names as leaders, or as its sender's identifier, what there is already.
Says(awake, s, m) == Range(m.leaders) \subseteq awake /\ (m.valid => s \in awake)

KnowsInv ==
  /\ IInv
  /\ \A n \in Computer : /\ FirstUp(n) /\ daemon[n].former = "NO" /\ daemon[n].start = 1
                          /\ daemon[n].known \subseteq Awake
  /\ \A s, n \in Computer : \A m \in Range(net[s][n]) : Says(Awake, s, m)

\* The same of what a handler works on.
Honest(awake, n, X) ==
  /\ Mute(n, X)
  /\ X.d.former = "NO" /\ X.d.start = 1 /\ X.d.known \subseteq awake
  /\ X.d.count # 0 <=> n \in awake
  /\ \A m \in Computer : \A msg \in Range(X.out[m]) : Says(awake, n, msg)

LEMMA TellHonest ==
  ASSUME NEW awake, NEW n, NEW X, Honest(awake, n, X), NEW m, m # n, NEW msg \in Message,
         Says(awake, n, msg)
  PROVE  Honest(awake, n, Tell(X, m, msg)) /\ Tell(X, m, msg).d = X.d
<1> DEFINE Y == Tell(X, m, msg)
<1>1. Mute(n, Y) /\ Y.d = X.d
  BY TellMute DEF Honest
<1>2. Y.out = [X.out EXCEPT ![m] = Append(@, msg)]
  BY DEF Tell, Honest, Mute, Sound
<1>3. X.out \in [Computer -> Seq(Message)]
  BY DEF Honest, Mute, Sound
<1> HIDE DEF Y
<1>4. ASSUME NEW i \in Computer, NEW k \in Range(Y.out[i])
      PROVE  k \in Range(X.out[i]) \/ k = msg
  <2>1. Y.out[i] = X.out[i] \/ Y.out[i] = Append(X.out[i], msg)
    BY <1>2, <1>3
  <2>2. Range(Append(X.out[i], msg)) = Range(X.out[i]) \cup {msg}
    BY <1>3, OneMore
  <2> QED
    BY <1>4, <2>1, <2>2
<1>5. Honest(awake, n, Y)
  BY <1>1, <1>4 DEF Honest
<1> QED
  BY <1>1, <1>5 DEF Y

LEMMA TellAllHonest ==
  ASSUME NEW awake, NEW n \in Computer, NEW X, Honest(awake, n, X), NEW msg \in Message,
         Says(awake, n, msg)
  PROVE  Honest(awake, n, TellAll(X, msg)) /\ TellAll(X, msg).d = X.d
<1> DEFINE Y == TellAll(X, msg)
<1>1. Mute(n, Y) /\ Y.d = X.d
  BY TellAllMute DEF Honest
<1>2. Y.out = [m \in Computer |-> IF m = X.d.me THEN X.out[m] ELSE Append(X.out[m], msg)]
  BY DEF TellAll, Honest, Mute, Sound
<1>3. X.out \in [Computer -> Seq(Message)]
  BY DEF Honest, Mute, Sound
<1> HIDE DEF Y
<1>4. ASSUME NEW i \in Computer, NEW k \in Range(Y.out[i])
      PROVE  k \in Range(X.out[i]) \/ k = msg
  <2>1. Y.out[i] = X.out[i] \/ Y.out[i] = Append(X.out[i], msg)
    BY <1>2
  <2>2. Range(Append(X.out[i], msg)) = Range(X.out[i]) \cup {msg}
    BY <1>3, OneMore
  <2> QED
    BY <1>4, <2>1, <2>2
<1>5. Honest(awake, n, Y)
  BY <1>1, <1>4 DEF Honest
<1> QED
  BY <1>1, <1>5 DEF Y

LEMMA LockStartedHonest ==
  ASSUME NEW awake, NEW n, NEW X, Honest(awake, n, X)
  PROVE  LockStarted(X.d) \in Message /\ Says(awake, n, LockStarted(X.d))
<1>1. LockStarted(X.d) \in Message /\ Range(X.d.leaders) \subseteq X.d.known
  BY LockStartedTyped DEF Honest, Mute, Sound, Steady
<1>2. LockStarted(X.d).leaders = X.d.leaders /\ LockStarted(X.d).valid = (X.d.count # 0)
  BY DEF LockStarted
<1> QED
  BY <1>1, <1>2 DEF Honest, Says

LEMMA KnockHonest ==
  ASSUME NEW awake, NEW n, NEW X, Honest(awake, n, X), NEW pace
  PROVE  Honest(awake, n, Knock(X, pace)) /\ Knock(X, pace).d = X.d
<1>1. X.d.me = n
  BY DEF Honest, Mute, Sound, Steady
<1> QED
  BY <1>1, LockStartedHonest, TellHonest DEF Knock

LEMMA CheckLockStatusHonest ==
  ASSUME NEW awake, NEW n, NEW X, Honest(awake, n, X), NEW pace
  PROVE  Honest(awake, n, CheckLockStatus(X, pace))
<1> DEFINE Z == CheckLockStatus(X, pace)
           Y == Knock(X, pace)
           now == Ready(X.d)
           kept == IF now = X.d.ready THEN X.d.cached ELSE X.d.cached /\ ~now
<1>1. Honest(awake, n, Y)
  BY KnockHonest
<1>2. Z.out = Y.out
  <2>1. Sound(n, Y)
    BY <1>1 DEF Honest, Mute
  <2> HIDE DEF Y
  <2> QED
    BY <2>1 DEF CheckLockStatus, Sound, Y
<1>3. Mute(n, Z) /\ Z.d = [X.d EXCEPT !.ready = now, !.cached = kept]
  <2>1. Mute(n, X)
    BY DEF Honest
  <2>2. /\ Mute(n, CheckLockStatus(X, pace))
        /\ CheckLockStatus(X, pace).d =
              [X.d EXCEPT !.ready = Ready(X.d),
                          !.cached = IF Ready(X.d) = X.d.ready THEN X.d.cached
                                     ELSE X.d.cached /\ ~Ready(X.d)]
    BY <2>1, CheckLockStatusMute, ZenonT(30)
  <2> QED
    BY <2>2
<1> HIDE DEF Z, Y, now, kept
<1>4. /\ Z.d.former = X.d.former /\ Z.d.start = X.d.start /\ Z.d.known = X.d.known
      /\ Z.d.count = X.d.count
  BY <1>3 DEF Honest, Mute, Sound, Daemon
<1>5. Honest(awake, n, Z)
  BY <1>1, <1>2, <1>3, <1>4 DEF Honest
<1> QED
  BY <1>5 DEF Z

LEMMA ElectionStatusHonest ==
  ASSUME elections \in Seq(Computer), NEW awake, NEW n \in Computer, NEW X, Honest(awake, n, X)
  PROVE  Honest(awake, n, ElectionStatus(X))
<1> DEFINE best == Best(Candidates(X.d))
           date == Len(elections) + 1
           result == [News("LOCK_LEADERS") EXCEPT !.date = date, !.leaders = best]
           Y == [X EXCEPT !.d = Elected(X.d, best, date), !.won = <<X.d.me>>]
<1>0. Sound(n, X) /\ X.d.me = n /\ X.d \in Daemon /\ Steady(n, X.d) /\ X.out[n] = <<>>
  BY DEF Honest, Mute, Sound, Steady
<1>1. date \in Nat
  BY LenProperties
<1>2. best \in Leaders /\ Range(best) \subseteq X.d.known
  <2>1. Candidates(X.d) \subseteq X.d.known /\ X.d.known \subseteq Computer
    BY <1>0 DEF Candidates, Daemon
  <2> QED
    BY <2>1, BestLeaders
<1>3. ElectionStatus(X) = X \/ (MayElect(X.d) /\ ElectionStatus(X) = TellAll(Y, result))
  BY DEF ElectionStatus
<1> HIDE DEF best, date
<1>4. result \in Message /\ result.leaders = best /\ result.valid = FALSE
  BY <1>1, <1>2, NewsTyped DEF News, Message
<1>5. ASSUME MayElect(X.d) PROVE Honest(awake, n, Y)
  <2>1. /\ Y.out = X.out /\ Y.won = <<n>> /\ Y.d = Elected(X.d, best, date)
        /\ Y.d.me = n /\ Y.d.former = "NO" /\ Y.d.start = X.d.start
        /\ Y.d.known = X.d.known /\ Y.d.count = X.d.count
    BY <1>0 DEF Sound, Elected, Daemon
  <2>2. Steady(n, Y.d)
    BY <1>0, <1>1, <1>2 DEF Elected, Sound, Steady, Daemon
  <2>3. Rightful(<<n>>) /\ <<n>> \in Seq(Computer)
    BY <1>0, <1>5, ElectorRightful
  <2>4. Mute(n, Y)
    BY <1>0, <2>1, <2>2, <2>3 DEF Mute, Sound, Steady
  <2> HIDE DEF Y
  <2> QED
    BY <2>1, <2>4 DEF Honest
<1>6. Says(awake, n, result)
  BY <1>2, <1>4 DEF Honest, Says
<1> HIDE DEF Y, result
<1> QED
  BY <1>3, <1>4, <1>5, <1>6, TellAllHonest

LEMMA HereHonest ==
  ASSUME IInv, NEW awake, NEW n \in Computer, NEW d, Steady(n, d),
         d.former = "NO", d.start = 1, d.known \subseteq awake, d.count # 0 <=> n \in awake
  PROVE  Honest(awake, n, [Here(n) EXCEPT !.d = d])
<1> DEFINE X == [Here(n) EXCEPT !.d = d]
<1>1. Mute(n, X) /\ X.d = d /\ X.out = [m \in Computer |-> <<>>]
  BY HereMute DEF Here
<1>2. \A m \in Computer : Range(X.out[m]) = {}
  BY <1>1, NoLeaders
<1> HIDE DEF X
<1>3. Honest(awake, n, X)
  BY <1>1, <1>2 DEF Honest
<1> QED
  BY <1>3 DEF X

\* A handler leaves the invariant: it is awake if it was, or has just heard the CLUSTER_UP.
LEMMA SentKnows ==
  ASSUME KnowsInv, IInv', UNCHANGED apart, NEW n \in Computer,
         NEW awake, Awake \subseteq awake, awake \subseteq Awake \cup {n},
         NEW X, Honest(awake, n, X), NEW rest \in Net, Sent(X, rest),
         \A i, j \in Computer : Range(rest[i][j]) \subseteq Range(net[i][j]),
         \A i \in Computer \ {n} : rest[i][i] = net[i][i],
         \/ rest[n][n] = <<>> /\ net[n][n] # <<>>
         \/ rest[n][n] = net[n][n] /\ awake = Awake
  PROVE  KnowsInv'
<1>0. Sound(n, X) /\ Mute(n, X) /\ X.d.me = n /\ net \in Net
  BY DEF Honest, Mute, Sound, Steady, KnowsInv, IInv, TypeOK, Net
<1>1. \A j \in Computer : daemon'[j] = IF j = n THEN X.d ELSE daemon[j]
  BY <1>0 DEF Sent, KnowsInv, IInv, TypeOK
<1>2. Awake' = awake
  BY <1>1 DEF Awake, Honest
<1>3. ASSUME NEW i \in Computer
      PROVE  /\ daemon'[i].former = "NO" /\ daemon'[i].start = 1 /\ daemon'[i].known \subseteq awake
  BY <1>1 DEF Honest, KnowsInv
<1>4. ASSUME NEW i \in Computer PROVE FirstUp(i)'
  <2>1. net'[i][i] = rest[i][i] /\ FirstUp(i)
    BY <1>0, SentQueues DEF KnowsInv
  <2>2. ClusterIsUp(i, apart)' = ClusterIsUp(i, apart)
    BY DEF ClusterIsUp, Reach
  <2>3. CASE i # n
    BY <1>1, <2>1, <2>2, <2>3 DEF FirstUp
  <2>4. CASE i = n /\ rest[n][n] = <<>> /\ net[n][n] # <<>>
    BY <2>1, <2>2, <2>4 DEF FirstUp
  <2>5. CASE i = n /\ rest[n][n] = net[n][n] /\ awake = Awake
    <3>1. daemon'[n].count # 0 <=> daemon[n].count # 0
      BY <1>1, <2>5 DEF Honest, Awake
    <3> QED
      BY <2>1, <2>2, <2>5, <3>1 DEF FirstUp
  <2> QED
    BY <2>3, <2>4, <2>5
<1>5. ASSUME NEW i \in Computer, NEW j \in Computer, NEW m \in Range(net'[i][j])
      PROVE  Says(awake, i, m)
  <2>1. rest[i][j] \in Seq(Message) /\ X.out[j] \in Seq(Message)
    BY <1>0 DEF Net, Sound
  <2>2. net'[i][j] = IF i = n THEN rest[i][j] \o Passed(i, j, X.out[j]) ELSE rest[i][j]
    BY <1>0, SentQueues
  <2>3. Range(rest[i][j] \o Passed(i, j, X.out[j])) = Range(rest[i][j]) \cup Range(Passed(i, j, X.out[j]))
    <3>1. Passed(i, j, X.out[j]) \in Seq(Message)
      BY <2>1, PassedTyped
    <3> QED
      BY <2>1, <3>1, BothParts
  <2>4. Range(Passed(i, j, X.out[j])) \subseteq Range(X.out[j])
    BY NoLeaders DEF Passed
  <2>5. CASE m \in Range(rest[i][j])
    <3>1. Says(Awake, i, m)
      BY <2>5 DEF KnowsInv
    <3> QED
      BY <3>1 DEF Says
  <2>6. CASE i = n /\ m \in Range(X.out[j])
    BY <2>6 DEF Honest
  <2> QED
    BY <1>5, <2>2, <2>3, <2>4, <2>5, <2>6
<1> QED
  BY <1>2, <1>3, <1>4, <1>5 DEF KnowsInv

LEMMA DoneKnows ==
  ASSUME KnowsInv, IInv', NEW s \in Computer, NEW n \in Computer, net[s][n] # <<>>,
         NEW awake, Awake \subseteq awake, awake \subseteq Awake \cup {n}, s = n \/ awake = Awake,
         NEW X, Honest(awake, n, X), Done(s, n, X)
  PROVE  KnowsInv'
<1> DEFINE rest == [net EXCEPT ![s][n] = Tail(@)]
<1>0. IInv /\ net[s][n] \in Seq(Message)
  BY DEF KnowsInv, IInv, TypeOK
<1>1. /\ rest \in Net
      /\ \A i, j \in Computer :
           rest[i][j] = IF i = s /\ j = n THEN Tail(net[s][n]) ELSE net[i][j]
  BY <1>0, TailTaken
<1>2. Sent(X, rest) /\ UNCHANGED apart
  BY DEF Done
<1> HIDE DEF rest
<1>3. \A i, j \in Computer : Range(rest[i][j]) \subseteq Range(net[i][j])
  BY <1>0, <1>1, HeadAndTail
<1>4. \A i \in Computer \ {n} : rest[i][i] = net[i][i]
  BY <1>1
<1>5. s = n => rest[n][n] = <<>>
  <2>1. net[n][n] \in {<<>>, <<News("CLUSTER_UP")>>}
    BY DEF KnowsInv, FirstUp
  <2>2. Tail(<<News("CLUSTER_UP")>>) = <<>>
    OBVIOUS
  <2> QED
    BY <1>1, <2>1, <2>2
<1>6. s # n => rest[n][n] = net[n][n]
  BY <1>1
<1> QED
  BY <1>1, <1>2, <1>3, <1>4, <1>5, <1>6, SentKnows

\* The communicatord has nothing else to say.
LEMMA OnlyUp ==
  ASSUME KnowsInv, NEW n \in Computer, NEW type, Arrived(n, n, type)
  PROVE  type = "CLUSTER_UP" /\ daemon[n].count = 0
<1>1. net[n][n] = <<News("CLUSTER_UP")>> /\ daemon[n].count = 0
  BY DEF KnowsInv, FirstUp, Arrived
<1>2. Head(<<News("CLUSTER_UP")>>).type = "CLUSTER_UP"
  BY DEF News
<1> QED
  BY <1>1, <1>2 DEF Arrived

LEMMA KnowsFacts ==
  ASSUME KnowsInv, NEW n \in Computer
  PROVE  /\ IInv /\ elections \in Seq(Computer) /\ Steady(n, daemon[n]) /\ daemon[n] \in Daemon
         /\ daemon[n].former = "NO" /\ daemon[n].start = 1 /\ daemon[n].known \subseteq Awake
         /\ daemon[n].count # 0 <=> n \in Awake
<1>1. IInv /\ Steady(n, daemon[n]) /\ elections \in Seq(Computer)
  BY DEF KnowsInv, IInv, TypeOK
<1> QED
  BY <1>1 DEF KnowsInv, Steady, Awake

\* A message that comes from another computer.
LEMMA HeardKnows ==
  ASSUME KnowsInv, NEW s \in Computer, NEW n \in Computer, net[s][n] # <<>>
  PROVE  Received(s, n) \in Message /\ Says(Awake, s, Received(s, n))
<1>1. net[s][n] \in Seq(Message)
  BY DEF KnowsInv, IInv, TypeOK
<1>2. Received(s, n) \in Range(net[s][n]) /\ Received(s, n) \in Message
  BY <1>1, HeadAndTail, ReceivedTyped DEF Received
<1> QED
  BY <1>2 DEF KnowsInv

LEMMA MsgClusterUpKnows ==
  ASSUME KnowsInv, IInv', NEW n \in Computer, MsgClusterUp(n)
  PROVE  KnowsInv'
<1> DEFINE d == WithSelf(daemon[n])
           awake == Awake \cup {n}
           W == [Here(n) EXCEPT !.d = d]
           X == ElectionStatus(W)
           Y == TellAll(X, LockStarted(X.d))
<1>1. net[n][n] # <<>> /\ daemon[n].count = 0
  BY OnlyUp DEF MsgClusterUp, Arrived
<1>2. PICK pace \in BOOLEAN : Done(n, n, CheckLockStatus(Y, pace))
  BY DEF MsgClusterUp, Here
<1>3. Steady(n, d) /\ d.former = "NO" /\ d.start = 1 /\ d.known \subseteq awake /\ d.count # 0
  <2>1. n \notin Range(daemon[n].leaders)
    BY <1>1, KnowsFacts DEF Steady
  <2>2. Count # 0
    BY ComputerAssumption, FS_EmptySet DEF Count
  <2>3. Steady(n, d)
    BY KnowsFacts, WithSelfSteady
  <2>4. /\ d.former = daemon[n].former /\ d.start = daemon[n].start /\ d.count = Count
        /\ d.known = daemon[n].known \cup {n}
    BY <2>1, KnowsFacts DEF WithSelf, Steady, Daemon
  <2> QED
    BY <2>2, <2>3, <2>4, KnowsFacts
<1> HIDE DEF d
<1>4. Honest(awake, n, W)
  BY <1>3, KnowsFacts, HereHonest
<1> HIDE DEF W, awake
<1>5. Honest(awake, n, X)
  BY <1>4, KnowsFacts, ElectionStatusHonest
<1> HIDE DEF X
<1>6. Honest(awake, n, Y)
  BY <1>5, LockStartedHonest, TellAllHonest
<1> HIDE DEF Y
<1> DEFINE Z == CheckLockStatus(Y, pace)
<1>7. Honest(awake, n, Z) /\ Done(n, n, Z)
  BY <1>2, <1>6, CheckLockStatusHonest
<1>8. Awake \subseteq awake /\ awake \subseteq Awake \cup {n}
  BY DEF awake
<1> HIDE DEF Z
<1> QED
  BY <1>1, <1>7, <1>8, DoneKnows

LEMMA MsgLockLeadersKnows ==
  ASSUME KnowsInv, IInv', NEW s \in Computer, NEW n \in Computer, MsgLockLeaders(s, n)
  PROVE  KnowsInv'
<1> DEFINE m == Received(s, n)
           d == Adopt(daemon[n], m)
           X == [Here(n) EXCEPT !.d = d]
<1>1. net[s][n] # <<>>
  BY DEF MsgLockLeaders, Arrived
<1>2. PICK pace \in BOOLEAN : Done(s, n, CheckLockStatus(X, pace))
  BY DEF MsgLockLeaders, Here
<1>3. m \in Message /\ Range(m.leaders) \subseteq Awake
  BY <1>1, HeardKnows DEF Says
<1>4. /\ Steady(n, d) /\ d.former = "NO" /\ d.start = 1 /\ d.known \subseteq Awake
      /\ d.count = daemon[n].count
  <2>1. Steady(n, d)
    BY <1>3, KnowsFacts, AdoptSteady
  <2>2. /\ d.former = "NO" /\ d.start = daemon[n].start /\ d.count = daemon[n].count
        /\ d.known = daemon[n].known \cup Range(m.leaders)
    BY KnowsFacts DEF Adopt, Learn, Daemon
  <2> QED
    BY <1>3, <2>1, <2>2, KnowsFacts
<1> HIDE DEF d, m
<1>5. Honest(Awake, n, X)
  BY <1>4, KnowsFacts, HereHonest
<1> HIDE DEF X
<1>6. Honest(Awake, n, CheckLockStatus(X, pace))
  BY <1>5, CheckLockStatusHonest
<1> QED
  BY <1>1, <1>2, <1>6, DoneKnows

LEMMA ToldKnows ==
  ASSUME NEW d \in Daemon, d.former = "NO", NEW s, NEW m
  PROVE  /\ Told(d, s, m).former = "NO" /\ Told(d, s, m).start = d.start
         /\ Told(d, s, m).count = d.count
         /\ Told(d, s, m).known \subseteq d.known \cup {s} \cup Range(m.leaders)
<1> DEFINE met == [d EXCEPT !.known = @ \cup {s}, !.linked = @ \cup {s}, !.starts[s] = m.start]
           newer == IF m.date > d.date
                    THEN [met EXCEPT !.date = m.date, !.leaders = <<>>, !.former = "NO"] ELSE met
           learned == Learn(newer, m.leaders)
<1>1. /\ newer.former = "NO" /\ newer.start = d.start /\ newer.count = d.count
      /\ newer.known = d.known \cup {s}
  BY DEF Daemon
<1>2. /\ learned.former = "NO" /\ learned.start = d.start /\ learned.count = d.count
      /\ learned.known = d.known \cup {s} \cup Range(m.leaders)
  BY <1>1 DEF Learn, Daemon
<1>3. Told(d, s, m) = IF newer.leaders = <<>> THEN learned ELSE newer
  BY DEF Told
<1> HIDE DEF newer, learned
<1> QED
  BY <1>1, <1>2, <1>3

\* Whoever is met here is known already or has an identifier: the others are ignored.
LEMMA MsgLockStartedKnows ==
  ASSUME KnowsInv, IInv', NEW s \in Computer, NEW n \in Computer, MsgLockStarted(s, n)
  PROVE  KnowsInv'
<1> DEFINE m == Received(s, n)
           d == Told(daemon[n], s, m)
           W == [Here(n) EXCEPT !.d = d]
           X == ElectionStatus(W)
           answer == IsNews(daemon[n], s, m) \/ IsLeader(daemon[n]) # IsLeader(X.d)
           reply(Y) == IF answer THEN Tell(Y, s, LockStarted(Y.d)) ELSE Y
<1>1. net[s][n] # <<>> /\ s # n
  BY OnlyUp DEF MsgLockStarted, Arrived
<1>2. \/ Done(s, n, Here(n))
      \/ ~Ignored(daemon[n], s, m) /\ \E pace \in BOOLEAN : Done(s, n, reply(CheckLockStatus(X, pace)))
  BY DEF MsgLockStarted, Here
<1>3. m \in Message /\ Says(Awake, s, m)
  BY <1>1, HeardKnows
<1>4. CASE Done(s, n, Here(n))
  <2>1. Honest(Awake, n, [Here(n) EXCEPT !.d = daemon[n]])
    BY KnowsFacts, HereHonest
  <2>2. Here(n) = [Here(n) EXCEPT !.d = daemon[n]]
    BY DEF Here
  <2>3. Honest(Awake, n, Here(n))
    BY <2>1, <2>2
  <2> QED
    BY <1>1, <1>4, <2>3, DoneKnows
<1>5. CASE /\ ~Ignored(daemon[n], s, m)
           /\ \E pace \in BOOLEAN : Done(s, n, reply(CheckLockStatus(X, pace)))
  <2>1. PICK pace \in BOOLEAN : Done(s, n, reply(CheckLockStatus(X, pace)))
    BY <1>5
  <2>2. s \in Awake /\ Range(m.leaders) \subseteq Awake
    BY <1>3, <1>5, KnowsFacts DEF Ignored, Says
  <2>3. /\ Steady(n, d) /\ d.former = "NO" /\ d.start = 1 /\ d.known \subseteq Awake
        /\ d.count = daemon[n].count
    <3>1. Steady(n, d)
      BY <1>3, KnowsFacts, ToldSteady
    <3>2. /\ d.former = "NO" /\ d.start = daemon[n].start /\ d.count = daemon[n].count
          /\ d.known \subseteq daemon[n].known \cup {s} \cup Range(m.leaders)
      BY KnowsFacts, ToldKnows
    <3> QED
      BY <2>2, <3>1, <3>2, KnowsFacts
  <2> HIDE DEF d, m
  <2>4. Honest(Awake, n, W)
    BY <2>3, KnowsFacts, HereHonest
  <2> HIDE DEF W
  <2>5. Honest(Awake, n, X)
    BY <2>4, KnowsFacts, ElectionStatusHonest
  <2> HIDE DEF X, answer
  <2> DEFINE Y == CheckLockStatus(X, pace)
  <2>6. Honest(Awake, n, Y)
    BY <2>5, CheckLockStatusHonest
  <2> HIDE DEF Y
  <2>7. Honest(Awake, n, reply(Y))
    BY <1>1, <2>6, LockStartedHonest, TellHonest
  <2> DEFINE Z == reply(Y)
  <2>8. Honest(Awake, n, Z) /\ Done(s, n, Z)
    BY <2>1, <2>7 DEF Y
  <2> HIDE DEF Z
  <2> QED
    BY <1>1, <2>8, DoneKnows
<1> QED
  BY <1>2, <1>4, <1>5

LEMMA MsgServerGoneKnows ==
  ASSUME KnowsInv, IInv', NEW s \in Computer, NEW n \in Computer, MsgServerGone(s, n)
  PROVE  KnowsInv'
<1> DEFINE d == Forget(daemon[n], s)
           W == [Here(n) EXCEPT !.d = d]
           X == ElectionStatus(W)
<1>1. net[s][n] # <<>>
  BY DEF MsgServerGone, Arrived
<1>2. \/ \E pace \in BOOLEAN : Done(s, n, CheckLockStatus(X, pace))
      \/ Done(s, n, W)
  BY DEF MsgServerGone, Here
<1>3. /\ Steady(n, d) /\ d.former = "NO" /\ d.start = 1 /\ d.known \subseteq Awake
      /\ d.count = daemon[n].count
  <2>1. Steady(n, d)
    BY KnowsFacts, ForgetSteady
  <2>2. /\ d.former = daemon[n].former /\ d.start = daemon[n].start
        /\ d.count = daemon[n].count /\ d.known \subseteq daemon[n].known
    BY KnowsFacts DEF Forget, Daemon
  <2> QED
    BY <2>1, <2>2, KnowsFacts
<1> HIDE DEF d
<1>4. Honest(Awake, n, W)
  BY <1>3, KnowsFacts, HereHonest
<1> HIDE DEF W
<1>5. Honest(Awake, n, X)
  BY <1>4, KnowsFacts, ElectionStatusHonest
<1> HIDE DEF X
<1>6. \A pace \in BOOLEAN : Honest(Awake, n, CheckLockStatus(X, pace))
  BY <1>5, CheckLockStatusHonest
<1> QED
  BY <1>1, <1>2, <1>4, <1>6, DoneKnows

LEMMA MsgLockKnows ==
  ASSUME KnowsInv, IInv', NEW n \in Computer, MsgLock(n)
  PROVE  KnowsInv'
<1> DEFINE cached == daemon[n].cached \/ ~Ready(daemon[n])
           d == [daemon[n] EXCEPT !.cached = cached]
           X == [Here(n) EXCEPT !.d = d]
<1>1. PICK pace \in BOOLEAN : Sent(Knock(X, pace), net)
  BY DEF MsgLock, Here
<1>2. /\ Steady(n, d) /\ d.former = "NO" /\ d.start = 1 /\ d.known \subseteq Awake
      /\ d.count = daemon[n].count
  <2>1. cached \in BOOLEAN
    OBVIOUS
  <2> HIDE DEF cached
  <2>2. Steady(n, d)
    BY <2>1, KnowsFacts, CachedSteady
  <2>3. /\ d.former = daemon[n].former /\ d.start = daemon[n].start
        /\ d.count = daemon[n].count /\ d.known = daemon[n].known
    BY KnowsFacts DEF Daemon
  <2> QED
    BY <2>2, <2>3, KnowsFacts
<1> HIDE DEF d
<1>3. Honest(Awake, n, X)
  BY <1>2, KnowsFacts, HereHonest
<1> HIDE DEF X
<1> DEFINE Z == Knock(X, pace)
<1>4. Honest(Awake, n, Z) /\ Sent(Z, net)
  BY <1>1, <1>3, KnockHonest
<1> HIDE DEF Z
<1>5. UNCHANGED apart /\ net \in Net
  BY KnowsFacts DEF MsgLock, IInv, TypeOK, Net
<1> QED
  BY <1>4, <1>5, SentKnows

\* Where nobody hears or says anything, and nobody's connections change.
LEMMA QuietKnows ==
  ASSUME KnowsInv, IInv', UNCHANGED <<net, apart>>,
         \A n \in Computer : /\ daemon'[n].former = daemon[n].former
                             /\ daemon'[n].start = daemon[n].start
                             /\ daemon'[n].known = daemon[n].known
                             /\ daemon'[n].count = daemon[n].count
  PROVE  KnowsInv'
<1>1. Awake' = Awake
  BY DEF Awake
<1>2. ASSUME NEW n \in Computer PROVE FirstUp(n)'
  <2>1. FirstUp(n) /\ ClusterIsUp(n, apart)' = ClusterIsUp(n, apart)
    BY DEF KnowsInv, ClusterIsUp, Reach
  <2> QED
    BY <2>1 DEF FirstUp
<1> QED
  BY <1>1, <1>2 DEF KnowsInv

LEMMA CacheTimeoutKnows ==
  ASSUME KnowsInv, IInv', NEW n \in Computer, CacheTimeout(n)
  PROVE  KnowsInv'
<1>1. ASSUME NEW i \in Computer
      PROVE  /\ daemon'[i].former = daemon[i].former /\ daemon'[i].start = daemon[i].start
             /\ daemon'[i].known = daemon[i].known /\ daemon'[i].count = daemon[i].count
  <2>1. daemon[i] \in Daemon /\ daemon'[i] = IF i = n THEN [daemon[i] EXCEPT !.cached = FALSE] ELSE daemon[i]
    BY DEF CacheTimeout, KnowsInv, IInv, TypeOK
  <2> QED
    BY <2>1 DEF Daemon
<1> QED
  BY <1>1, QuietKnows DEF CacheTimeout

LEMMA ReconnectKnows ==
  ASSUME KnowsInv, IInv', NEW n \in Computer, NEW m \in Computer, Reconnect(n, m)
  PROVE  KnowsInv'
<1>1. daemon' = daemon /\ apart' \subseteq apart /\ Awake' = Awake
  BY DEF Reconnect, Awake
<1>2. \A i, j \in Computer :
        net'[i][j] = IF i = j THEN net[i][i] \o ClusterNews(i, apart') ELSE net[i][j]
  BY KnowsFacts DEF Reconnect, IInv, TypeOK
<1>3. ASSUME NEW i \in Computer
      PROVE  FirstUp(i)' /\ (net'[i][i] = net[i][i] \/ net'[i][i] = <<News("CLUSTER_UP")>>)
  <2>1. ClusterIsUp(i, apart)' = ClusterIsUp(i, apart') /\ FirstUp(i)
    BY DEF KnowsInv, ClusterIsUp, Reach
  <2>2. ClusterIsUp(i, apart) => ClusterIsUp(i, apart')
    BY <1>1, StaysUp
  <2>3. CASE ClusterIsUp(i, apart') = ClusterIsUp(i, apart)
    <3>1. net[i][i] \in Seq(Message)
      BY KnowsFacts DEF IInv, TypeOK
    <3>2. net'[i][i] = net[i][i]
      BY <1>2, <2>3, <3>1, ConcatEmptySeq DEF ClusterNews
    <3> QED
      BY <1>1, <2>1, <2>3, <3>2 DEF FirstUp
  <2>4. CASE ClusterIsUp(i, apart') # ClusterIsUp(i, apart)
    <3>1. ~ClusterIsUp(i, apart) /\ ClusterIsUp(i, apart')
      BY <2>2, <2>4 DEF ClusterIsUp
    <3>2. net[i][i] = <<>> /\ daemon[i].count = 0
      BY <2>1, <3>1 DEF FirstUp
    <3>3. net'[i][i] = <<>> \o <<News("CLUSTER_UP")>>
      BY <1>2, <2>4, <3>1, <3>2 DEF ClusterNews
    <3>4. net'[i][i] = <<News("CLUSTER_UP")>>
      BY <3>3
    <3> QED
      BY <1>1, <2>1, <3>1, <3>2, <3>4 DEF FirstUp
  <2> QED
    BY <2>3, <2>4
<1>4. ASSUME NEW i \in Computer, NEW j \in Computer, NEW k \in Range(net'[i][j])
      PROVE  Says(Awake, i, k)
  <2>1. Says(Awake, i, News("CLUSTER_UP"))
    BY NoLeaders DEF News, Says
  <2>2. CASE net'[i][j] = net[i][j]
    BY <1>4, <2>2 DEF KnowsInv
  <2>3. CASE net'[i][j] = <<News("CLUSTER_UP")>>
    BY <1>4, <2>1, <2>3, RangeOfNews
  <2> QED
    BY <1>2, <1>3, <2>2, <2>3
<1> QED
  BY <1>1, <1>3, <1>4 DEF KnowsInv

LEMMA NextKnows ==
  ASSUME Losses = 0, Restarts = 0
  PROVE  KnowsInv /\ [Next]_vars => KnowsInv'
<1> SUFFICES ASSUME KnowsInv, [Next]_vars PROVE KnowsInv'
  OBVIOUS
<1>0. IInv'
  BY NextKeeps DEF KnowsInv
<1>1. CASE \E s, n \in Computer : Handle(s, n)
  BY <1>0, <1>1, MsgLockLeadersKnows, MsgLockStartedKnows, MsgServerGoneKnows DEF Handle
<1>2. CASE \E n \in Computer : Hear(n) \/ MsgLock(n) \/ CacheTimeout(n) \/ Restart(n)
  <2>1. ASSUME NEW n \in Computer, MsgClusterDown(n) PROVE FALSE
    <3>1. Arrived(n, n, "CLUSTER_DOWN")
      BY <2>1 DEF MsgClusterDown
    <3>2. "CLUSTER_DOWN" = "CLUSTER_UP"
      BY <3>1, OnlyUp
    <3> QED
      BY <3>2
  <2>2. \A n \in Computer : ~Restart(n)
    BY KnowsFacts DEF Restart
  <2> QED
    BY <1>0, <1>2, <2>1, <2>2, MsgClusterUpKnows, MsgLockKnows, CacheTimeoutKnows DEF Hear
<1>3. CASE \E n, m \in Computer : LoseConnection(n, m) \/ Reconnect(n, m)
  <2>1. \A n, m \in Computer : ~LoseConnection(n, m)
    BY DEF LoseConnection, KnowsInv, IInv, TypeOK
  <2> QED
    BY <1>0, <1>3, <2>1, ReconnectKnows
<1>4. CASE UNCHANGED vars
  <2>1. UNCHANGED <<daemon, net, apart>>
    BY <1>4 DEF vars
  <2> QED
    BY <1>0, <2>1, QuietKnows
<1> QED
  BY <1>1, <1>2, <1>3, <1>4 DEF Next

LEMMA InitKnows == Init => KnowsInv
<1> SUFFICES ASSUME Init PROVE KnowsInv
  OBVIOUS
<1>1. IInv
  BY InitSteady
<1>2. \A i, j \in Computer : net[i][j] = IF i = j THEN FirstNews(i) ELSE <<>>
  BY DEF Init, FirstNews
<1>3. \A i \in Computer : /\ daemon[i].former = "NO" /\ daemon[i].start = 1
                         /\ daemon[i].known = {} /\ daemon[i].count = 0
  BY DEF Init, NewDaemon
<1>4. \A i \in Computer : FirstUp(i)
  BY <1>2, <1>3 DEF FirstUp, FirstNews
<1>5. ASSUME NEW i \in Computer, NEW j \in Computer, NEW m \in Range(net[i][j])
      PROVE  Says(Awake, i, m)
  <2>1. Says(Awake, i, News("CLUSTER_UP"))
    BY NoLeaders DEF News, Says
  <2>2. Range(<<>>) = {} /\ Range(<<News("CLUSTER_UP")>>) = {News("CLUSTER_UP")}
    BY NoLeaders, RangeOfNews
  <2> QED
    BY <1>2, <1>5, <2>1, <2>2 DEF FirstNews
<1> QED
  BY <1>1, <1>3, <1>4, <1>5 DEF KnowsInv

\* In a cluster of any size whose computers find each other in any order, and where no connection
\* is lost and no daemon starts again, a leader knows that it is one: the identifier that
\* is_leader() looks for is drawn before anyone hears of it, and never again.
THEOREM LeaderKnowsItself ==
  ASSUME Losses = 0, Restarts = 0
  PROVE  Spec => []KnowsItself
<1>1. Init => KnowsInv
  BY InitKnows
<1>2. KnowsInv /\ [Next]_vars => KnowsInv'
  BY NextKnows
<1>3. KnowsInv => KnowsItself
  <2> SUFFICES ASSUME KnowsInv, NEW n \in Computer, n \in Range(daemon[n].leaders)
               PROVE  IsLeader(daemon[n])
    BY DEF KnowsItself
  <2> QED
    BY KnowsFacts DEF IsLeader, Steady
<1> QED
  BY <1>1, <1>2, <1>3, PTL DEF Spec

=============================================================================
