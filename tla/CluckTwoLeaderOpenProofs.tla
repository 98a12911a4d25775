---------------------- MODULE CluckTwoLeaderOpenProofs ----------------------
(***************************************************************************)
(* Two leaders, one: the tables of the two and the messages between them   *)
(* and the clients, the way of a request from its LOCK to its UNLOCKED, and*)
(* how it opens.  What this comes to is in CluckTwoLeaderProofs.           *)
(***************************************************************************)
EXTENDS CluckBakeryProofs

-----------------------------------------------------------------------------
(* Nothing takes too long: every date given out is past the last one.      *)

LastDate == IF MaxTime = 0 THEN 1 ELSE MaxTime

\* Two leaders, clients that see it through, and no timeout shorter than all there is of time.
TwoLeaders ==
  /\ Cardinality(Leader) = 2
  /\ ~Cancels
  /\ \A t \in {Obtention, Duration, AliveTimeout, UnlockWait} : MaxTime <= t

Punctual == {t \in Ticket :
  /\ t.entering \/ t.listed
  /\ t.failed = "NONE" /\ t.obtention > LastDate
  /\ t.alive = 0 \/ t.alive > LastDate
  /\ t.locked => t.lockDate > LastDate
  /\ \A p \in t.still : p.until > LastDate}
InTime == {m \in Message : m.type \in {"LOCK", "LOCK_ENTERING"} => m.value > LastDate}
Gentle == {n \in Notice : n.type # "UNLOCKING" /\ (n.type = "LOCKED" => n.date > LastDate)}

Timely ==
  /\ 1 <= now /\ now <= LastDate
  /\ \A l \in Leader : tickets[l] \subseteq Punctual
  /\ \A n \in Node, l \in Leader : net[n][l] \in Seq(InTime)
  /\ \A c \in Client, l \in Leader : mail[c][l] \in Seq(Gentle)
  /\ \A c \in Client : /\ client[c].timer = 0 \/ client[c].timer > LastDate
                       /\ client[c].state = "LOCKED" => client[c].lockDate > LastDate

\* The context of a handler in good time.
Prompt(l, D) ==
  /\ Sound(l, D)
  /\ now \in Nat /\ 1 <= now /\ now <= LastDate
  /\ D.tickets \subseteq Punctual
  /\ D.out \in [Leader -> Seq(InTime)] /\ D.mail \in [Client -> Seq(Gentle)]

LEMMA Dates ==
  ASSUME TwoLeaders, now \in Nat, 1 <= now, now <= LastDate
  PROVE  /\ LastDate \in Nat
         /\ now + Obtention > LastDate /\ now + Duration > LastDate
         /\ now + AliveTimeout > LastDate /\ now + UnlockWait > LastDate
         /\ now + Obtention \in Nat /\ now + Duration \in Nat
         /\ now + AliveTimeout \in Nat /\ now + UnlockWait \in Nat
BY BakeryAssumption, NumberAssumption DEF TwoLeaders, LastDate

Other(l) == CHOOSE d \in Leader : d # l

LEMMA OtherLeader ==
  ASSUME TwoLeaders, NEW l \in Leader
  PROVE  /\ Other(l) \in Leader /\ Other(l) # l /\ Leader = {l, Other(l)}
         /\ Other(Other(l)) = l
         /\ Leader \ {l} = {Other(l)}
<1>1. ASSUME NEW k \in Leader PROVE Other(k) \in Leader /\ Leader \ {k} = {Other(k)}
  <2>1. IsFiniteSet(Leader) /\ Cardinality(Leader) = 2
    BY LeaderAssumption DEF TwoLeaders
  <2>2. IsFiniteSet(Leader \ {k}) /\ Cardinality(Leader \ {k}) = 1
    BY <2>1, FS_RemoveElement
  <2>3. PICK d : Leader \ {k} = {d}
    BY <2>2, FS_Singleton
  <2>4. Other(k) \in Leader \ {k}
    BY <2>3 DEF Other
  <2> QED BY <2>3, <2>4
<1> QED
  BY <1>1

-----------------------------------------------------------------------------
(* What a handler does when nothing is late.                               *)

LEMMA PromptTickets ==
  ASSUME TwoLeaders, NEW l, NEW D, Prompt(l, D)
  PROVE  /\ D \in Context /\ D.tickets \subseteq Ticket /\ ~OneLeader(D)
         /\ \A t \in D.tickets : ~TimedOut(t) /\ (t.entering \/ t.listed) /\ t.failed = "NONE"
         /\ Alive(D.tickets) = D.tickets
         /\ \A d \in Leader : D.out[d] \in Seq(Message)
<1>1. D \in Context /\ D.tickets \subseteq Ticket
  BY DEF Prompt, Sound, Context
<1>2. ~OneLeader(D)
  BY SoundAlone DEF Prompt, TwoLeaders
<1>3. LastDate \in Nat
  BY Dates DEF Prompt
<1>4. ASSUME NEW t \in D.tickets
      PROVE  ~TimedOut(t) /\ (t.entering \/ t.listed) /\ t.failed = "NONE"
  <2>1. t \in Punctual /\ t \in Ticket /\ now \in Nat /\ now <= LastDate
    BY <1>1 DEF Prompt
  <2>2. t.alive \in Nat /\ t.obtention \in Nat /\ t.lockDate \in Nat
    BY <2>1 DEF Ticket
  <2> QED BY <1>3, <2>1, <2>2 DEF Punctual, TimedOut, CurrentDate
<1>5. \A d \in Leader : D.out[d] \in Seq(Message)
  BY <1>1 DEF Context
<1> QED
  BY <1>1, <1>2, <1>4, <1>5 DEF Alive

LEMMA NoComplaints ==
  ASSUME NEW D \in Context
  PROVE  Complaints(D, {}) = D.mail
<1>1. UNION {FailNotice(D.me, t) : t \in {}} = {}
  OBVIOUS
<1>2. SetToSeq({}) = <<>>
  <2>1. SetToSeq({}) \in Seq({})
    BY SetToSeqType, FS_EmptySet
  <2> QED BY <2>1, HeadTailProperties
<1>3. \A c \in Client : D.mail[c] \in Seq(Notice)
  BY DEF Context
<1>4. \A c \in Client : {u \in {} : u.client = c} = {}
  OBVIOUS
<1>5. \A c \in Client : D.mail[c] \o SetToSeq(UNION {FailNotice(D.me, t) : t \in {u \in {} : u.client = c}})
                       = D.mail[c]
  BY <1>1, <1>2, <1>3, <1>4, ConcatEmptySeq
<1>6. D.mail = [c \in Client |-> D.mail[c]]
  BY DEF Context
<1> QED
  BY <1>5, <1>6 DEF Complaints

LEMMA NothingExpires ==
  ASSUME TwoLeaders, NEW l, NEW D, Prompt(l, D)
  PROVE  ExpireListed(D) = D /\ ExpireEntering(D) = D /\ Cleanup(D) = D
<1>1. /\ D \in Context /\ Alive(D.tickets) = D.tickets
      /\ \A t \in D.tickets : ~TimedOut(t)
  BY PromptTickets
<1>2. {t \in Listed(D) : TimedOut(t)} = {} /\ {t \in D.tickets : t.entering /\ TimedOut(t)} = {}
  BY <1>1 DEF Listed
<1>3. Complaints(D, {}) = D.mail
  BY <1>1, NoComplaints
<1>4. D = [D EXCEPT !.tickets = D.tickets, !.mail = D.mail]
  BY <1>1 DEF Context
<1>5. ExpireListed(D) = D
  <2>1. {IF t \in {} THEN [Fail(t) EXCEPT !.listed = ~TimedOut(Fail(t))] ELSE t : t \in D.tickets}
          = D.tickets
    OBVIOUS
  <2> QED BY <1>1, <1>2, <1>3, <1>4, <2>1 DEF ExpireListed
<1>6. ExpireEntering(D) = D
  <2>1. {IF t \in {} THEN [Fail(t) EXCEPT !.entering = ~TimedOut(Fail(t))] ELSE t : t \in D.tickets}
          = D.tickets
    OBVIOUS
  <2> QED BY <1>1, <1>2, <1>3, <1>4, <2>1 DEF ExpireEntering
<1>7. ~\E t \in Listed(D) : TimedOut(t) /\ TimedOut(Fail(t))
  BY <1>2
<1> QED
  BY <1>5, <1>6, <1>7 DEF Cleanup

\* What a daemon has to send goes to the one other leader.
LEMMA SendAll ==
  ASSUME TwoLeaders, NEW l \in Leader, NEW D, Sound(l, D), NEW s \in Seq(Message)
  PROVE  LET E == SendAllToLeaders(D, s)
         IN  /\ Sound(l, E) /\ E.tickets = D.tickets /\ E.mail = D.mail
             /\ E.out[Other(l)] = D.out[Other(l)] \o s
<1>1. Sound(l, SendAllToLeaders(D, s)) /\ SendAllToLeaders(D, s).tickets = D.tickets
  BY SendAllSound
<1>2. D.view.others = {Other(l)} /\ D \in Context /\ Other(l) \in Leader
  BY OtherLeader DEF Sound, Whole
<1>3. SendAllToLeaders(D, s).out
        = [d \in Leader |-> IF d \in D.view.others THEN D.out[d] \o s ELSE D.out[d]]
  BY <1>2 DEF SendAllToLeaders, Context
<1>4. SendAllToLeaders(D, s).mail = D.mail
  BY <1>2 DEF SendAllToLeaders, Context
<1> HIDE DEF Other
<1> QED
  BY <1>1, <1>2, <1>3, <1>4

LEMMA SendOne ==
  ASSUME TwoLeaders, NEW l \in Leader, NEW D, Sound(l, D), NEW m \in Message
  PROVE  LET E == SendToLeaders(D, m)
         IN  /\ Sound(l, E) /\ E.tickets = D.tickets /\ E.mail = D.mail
             /\ E.out[Other(l)] = Append(D.out[Other(l)], m)
<1>1. <<m>> \in Seq(Message) /\ D.out[Other(l)] \in Seq(Message)
  BY OtherLeader DEF Sound, Context
<1>2. Append(D.out[Other(l)], m) = D.out[Other(l)] \o <<m>>
  BY <1>1, AppendIsConcat
<1> QED
  BY <1>1, <1>2, SendAll DEF SendToLeaders

\* A context that stays in good time: what it tells is.
LEMMA PromptSends ==
  ASSUME TwoLeaders, NEW l \in Leader, NEW D, Prompt(l, D), NEW s \in Seq(Message), s \in Seq(InTime)
  PROVE  Prompt(l, SendAllToLeaders(D, s))
<1> DEFINE E == SendAllToLeaders(D, s)
<1>1. Other(l) \in Leader /\ Sound(l, D) /\ Leader = {l, Other(l)}
  BY OtherLeader DEF Prompt
<1>2. D.out[Other(l)] \o s \in Seq(InTime)
  BY <1>1, ConcatProperties DEF Prompt
<1>3. /\ Sound(l, E) /\ E.tickets = D.tickets /\ E.mail = D.mail
      /\ E.out[Other(l)] = D.out[Other(l)] \o s
  BY <1>1, SendAll
<1> HIDE DEF E, Other
<1>4. E.out \in [Leader -> Seq(InTime)]
  <2>1. E.out \in [Leader -> Seq(Message)] /\ E.out[l] = <<>>
    BY <1>3 DEF Sound, Context
  <2>2. \A d \in Leader : E.out[d] \in Seq(InTime)
    <3>1. <<>> \in Seq(InTime)
      OBVIOUS
    <3>2. E.out[Other(l)] \in Seq(InTime)
      BY <1>2, <1>3
    <3> QED BY <1>1, <2>1, <3>1, <3>2
  <2> QED BY <2>1, <2>2
<1> QED
  BY <1>3, <1>4 DEF Prompt, E

LEMMA PromptSend ==
  ASSUME TwoLeaders, NEW l \in Leader, NEW D, Prompt(l, D), NEW m \in InTime
  PROVE  Prompt(l, SendToLeaders(D, m))
<1>1. <<m>> \in Seq(InTime) /\ <<m>> \in Seq(Message)
  BY DEF InTime
<1> QED
  BY <1>1, PromptSends DEF SendToLeaders

LEMMA PromptTell ==
  ASSUME NEW l \in Leader, NEW D, Prompt(l, D), NEW d \in Leader, d # l, NEW m \in InTime
  PROVE  Prompt(l, Tell(D, d, m))
<1>1. m \in Message /\ D \in Context
  BY DEF InTime, Prompt, Sound
<1>2. Sound(l, Tell(D, d, m)) /\ Tell(D, d, m).tickets = D.tickets
  BY <1>1, TellSound DEF Prompt
<1>3. Tell(D, d, m).out \in [Leader -> Seq(InTime)]
  BY <1>1, AppendType DEF Tell, Prompt, Context
<1>4. Tell(D, d, m).mail = D.mail
  BY <1>1 DEF Tell, Context
<1> QED
  BY <1>2, <1>3, <1>4 DEF Prompt

LEMMA PromptTellClient ==
  ASSUME NEW l \in Leader, NEW D, Prompt(l, D), NEW c, NEW n \in Gentle
  PROVE  Prompt(l, TellClient(D, c, n))
<1>1. n \in Notice /\ D \in Context
  BY DEF Gentle, Prompt, Sound
<1>2. Sound(l, TellClient(D, c, n)) /\ TellClient(D, c, n).tickets = D.tickets
  BY <1>1, TellClientSound DEF Prompt
<1>3. TellClient(D, c, n).mail \in [Client -> Seq(Gentle)]
  BY <1>1, AppendType DEF TellClient, Prompt, Context
<1>4. TellClient(D, c, n).out = D.out
  BY <1>1 DEF TellClient, Context
<1> QED
  BY <1>2, <1>3, <1>4 DEF Prompt

\* Other tickets take the place of those there were.
LEMMA PromptTable ==
  ASSUME NEW l \in Leader, NEW D, Prompt(l, D), NEW E, Sound(l, E), E.out = D.out, E.mail = D.mail,
         E.tickets \subseteq Punctual
  PROVE  Prompt(l, E)
BY DEF Prompt

LEMMA PromptUpdate ==
  ASSUME NEW l \in Leader, NEW D, Prompt(l, D), NEW t \in D.tickets, NEW u \in Ticket,
         u.listed => t.listed /\ KeyOf(u) = KeyOf(t), u \in Punctual \/ ~(u.entering \/ u.listed)
  PROVE  Prompt(l, Update(D, t, u))
<1>1. Sound(l, Update(D, t, u)) /\ D \in Context
  BY UpdateSound DEF Prompt, Sound
<1>2. /\ Update(D, t, u).out = D.out /\ Update(D, t, u).mail = D.mail
      /\ Update(D, t, u).tickets = Alive((D.tickets \ {t}) \cup {u})
  BY <1>1 DEF Update, Context
<1>3. Update(D, t, u).tickets \subseteq Punctual
  BY <1>2 DEF Alive, Prompt
<1> QED
  BY <1>1, <1>2, <1>3, PromptTable

-----------------------------------------------------------------------------
(* The order of the messages on their way.                                 *)

\* Of the messages of a queue q: none is in S; one at most is in S; those in A come before
\* those in B; each one in B comes after one in A.
Lacks(q, S) == \A i \in DOMAIN q : q[i] \notin S
Once(q, S) == \A i, j \in DOMAIN q : q[i] \in S /\ q[j] \in S => i = j
Ahead(q, A, B) == \A i, j \in DOMAIN q : q[i] \in A /\ q[j] \in B => i < j
Led(q, A, B) == \A j \in DOMAIN q : q[j] \in B => \E i \in DOMAIN q : i < j /\ q[i] \in A

\* As far as the messages in Y go, nothing happens from queue q to queue r.
SameOrder(r, q, Y) ==
  /\ \A S \in SUBSET Y : (Lacks(r, S) <=> Lacks(q, S)) /\ (Once(q, S) => Once(r, S))
  /\ \A A, B \in SUBSET Y : (Ahead(q, A, B) => Ahead(r, A, B)) /\ (Led(q, A, B) => Led(r, A, B))

LEMMA TailIndex ==
  ASSUME NEW q \in Seq(Message), q # <<>>
  PROVE  /\ Tail(q) \in Seq(Message) /\ 1 \in DOMAIN q /\ Head(q) = q[1]
         /\ \A i \in DOMAIN Tail(q) : i \in Nat /\ i + 1 \in DOMAIN q /\ Tail(q)[i] = q[i + 1]
         /\ \A i \in DOMAIN q : i \in Nat /\ (i = 1 \/ (i - 1 \in DOMAIN Tail(q) /\ Tail(q)[i - 1] = q[i]))
OBVIOUS

LEMMA ConcatIndex ==
  ASSUME NEW q \in Seq(Message), NEW s \in Seq(Message)
  PROVE  /\ q \o s \in Seq(Message)
         /\ \A i \in DOMAIN q : i \in Nat /\ i \in DOMAIN (q \o s) /\ (q \o s)[i] = q[i] /\ i <= Len(q)
         /\ \A i \in DOMAIN s : i \in Nat /\ i + Len(q) \in DOMAIN (q \o s) /\ (q \o s)[i + Len(q)] = s[i] /\ i >= 1
         /\ \A i \in DOMAIN (q \o s) :
              /\ i \in Nat
              /\ \/ i \in DOMAIN q /\ (q \o s)[i] = q[i]
                 \/ i - Len(q) \in DOMAIN s /\ (q \o s)[i] = s[i - Len(q)]
OBVIOUS

LEMMA LacksTail ==
  ASSUME NEW q \in Seq(Message), q # <<>>, NEW S
  PROVE  Lacks(q, S) <=> Head(q) \notin S /\ Lacks(Tail(q), S)
BY TailIndex DEF Lacks

LEMMA LacksConcat ==
  ASSUME NEW q \in Seq(Message), NEW s \in Seq(Message), NEW S
  PROVE  Lacks(q \o s, S) <=> Lacks(q, S) /\ Lacks(s, S)
BY ConcatIndex DEF Lacks

\* The first message goes, and it is none of Y.
LEMMA ReadOrder ==
  ASSUME NEW q \in Seq(Message), q # <<>>, NEW Y, Head(q) \notin Y
  PROVE  SameOrder(Tail(q), q, Y)
<1>1. \A S \in SUBSET Y : Lacks(Tail(q), S) <=> Lacks(q, S)
  BY LacksTail
<1>2. \A S \in SUBSET Y : Once(q, S) => Once(Tail(q), S)
  BY TailIndex DEF Once
<1>3. \A A, B \in SUBSET Y : Ahead(q, A, B) => Ahead(Tail(q), A, B)
  BY TailIndex DEF Ahead
<1>4. ASSUME NEW A \in SUBSET Y, NEW B \in SUBSET Y, Led(q, A, B)
      PROVE  Led(Tail(q), A, B)
  <2>1. SUFFICES ASSUME NEW j \in DOMAIN Tail(q), Tail(q)[j] \in B
                 PROVE  \E i \in DOMAIN Tail(q) : i < j /\ Tail(q)[i] \in A
    BY DEF Led
  <2>2. PICK i \in DOMAIN q : i < j + 1 /\ q[i] \in A
    BY <1>4, <2>1, TailIndex DEF Led
  <2>3. i # 1 /\ i \in Nat /\ j \in Nat
    BY <2>2, TailIndex
  <2>4. i - 1 \in DOMAIN Tail(q) /\ Tail(q)[i - 1] = q[i]
    BY <2>2, <2>3, TailIndex
  <2> QED BY <2>2, <2>3, <2>4
<1> QED
  BY <1>1, <1>2, <1>3, <1>4 DEF SameOrder

\* Messages join the queue, and they are none of Y.
LEMMA JoinOrder ==
  ASSUME NEW q \in Seq(Message), NEW s \in Seq(Message), NEW Y, Lacks(s, Y)
  PROVE  SameOrder(q \o s, q, Y)
<1>0. \A i \in DOMAIN (q \o s) : (q \o s)[i] \in Y => i \in DOMAIN q /\ (q \o s)[i] = q[i]
  BY ConcatIndex DEF Lacks
<1>1. \A S \in SUBSET Y : Lacks(q \o s, S) <=> Lacks(q, S)
  BY LacksConcat DEF Lacks
<1>2. \A S \in SUBSET Y : Once(q, S) => Once(q \o s, S)
  BY <1>0 DEF Once
<1>3. \A A, B \in SUBSET Y : Ahead(q, A, B) => Ahead(q \o s, A, B)
  BY <1>0 DEF Ahead
<1>4. \A A, B \in SUBSET Y : Led(q, A, B) => Led(q \o s, A, B)
  <2>1. \A i \in DOMAIN q : i \in DOMAIN (q \o s) /\ (q \o s)[i] = q[i]
    BY ConcatIndex
  <2> QED BY <1>0, <2>1 DEF Led
<1> QED
  BY <1>1, <1>2, <1>3, <1>4 DEF SameOrder

LEMMA OrderTransitive ==
  \A q, r, s, Y : /\ SameOrder(q, q, Y)
                  /\ SameOrder(r, q, Y) /\ SameOrder(s, r, Y) => SameOrder(s, q, Y)
BY DEF SameOrder

LEMMA OrderLess ==
  ASSUME NEW q, NEW r, NEW Y, SameOrder(r, q, Y), NEW Z, Z \subseteq Y
  PROVE  SameOrder(r, q, Z)
BY DEF SameOrder

LEMMA AppendJoin ==
  ASSUME NEW q \in Seq(Message), NEW m \in Message
  PROVE  /\ Append(q, m) = q \o <<m>> /\ <<m>> \in Seq(Message) /\ Append(q, m) \in Seq(Message)
         /\ \A S : Lacks(<<m>>, S) <=> m \notin S
<1>1. \A S : Lacks(<<m>>, S) <=> m \notin S
  <2>1. DOMAIN <<m>> = {1} /\ <<m>>[1] = m
    OBVIOUS
  <2> QED BY <2>1 DEF Lacks
<1> QED
  BY <1>1, AppendIsConcat, AppendProperties

LEMMA LacksLess ==
  ASSUME NEW q, NEW A, NEW B, Lacks(q, A), Lacks(q, B), NEW S, S \subseteq A \cup B
  PROVE  Lacks(q, S)
BY DEF Lacks

\* The only message of a kind is read.
LEMMA OnceRead ==
  ASSUME NEW q \in Seq(Message), q # <<>>, NEW S, Once(q, S)
  PROVE  /\ Once(Tail(q), S)
         /\ Head(q) \in S => Lacks(Tail(q), S)
BY TailIndex DEF Once, Lacks

LEMMA OnceJoin ==
  ASSUME NEW q \in Seq(Message), NEW m \in Message, NEW S, Lacks(q, S)
  PROVE  Once(q, S) /\ Once(Append(q, m), S)
<1>1. Lacks(q \o <<m>>, {x \in S : x # m})
  <2>1. Lacks(q, {x \in S : x # m}) /\ Lacks(<<m>>, {x \in S : x # m})
    BY AppendJoin DEF Lacks
  <2> QED BY <2>1, LacksConcat, AppendJoin
<1>2. ASSUME NEW i \in DOMAIN Append(q, m), Append(q, m)[i] \in S
      PROVE  i = Len(q) + 1
  BY <1>2 DEF Lacks
<1> QED
  BY <1>2 DEF Once, Lacks

LEMMA AheadRead ==
  ASSUME NEW q \in Seq(Message), q # <<>>, NEW A, NEW B, Ahead(q, A, B)
  PROVE  /\ Ahead(Tail(q), A, B)
         /\ Head(q) \in B => Lacks(q, A)
BY TailIndex DEF Ahead, Lacks

LEMMA AheadJoin ==
  ASSUME NEW q \in Seq(Message), NEW s \in Seq(Message), NEW A, NEW B, Ahead(q, A, B),
         Lacks(s, A) \/ (Lacks(q, B) /\ Lacks(s, B))
  PROVE  Ahead(q \o s, A, B)
<1>1. CASE Lacks(q, B) /\ Lacks(s, B)
  <2>1. Lacks(q \o s, B)
    BY <1>1, LacksConcat
  <2> QED BY <2>1 DEF Ahead, Lacks
<1>2. CASE Lacks(s, A)
  <2>1. \A i \in DOMAIN (q \o s) : (q \o s)[i] \in A => i \in DOMAIN q /\ (q \o s)[i] = q[i]
    BY <1>2, ConcatIndex DEF Lacks
  <2>2. ASSUME NEW i \in DOMAIN (q \o s), NEW j \in DOMAIN (q \o s),
               (q \o s)[i] \in A, (q \o s)[j] \in B
        PROVE  i < j
    <3>1. i \in DOMAIN q /\ q[i] \in A /\ i \in Nat /\ i <= Len(q) /\ Len(q) \in Nat
      BY <2>1, <2>2, ConcatIndex
    <3>2. CASE j \in DOMAIN q /\ (q \o s)[j] = q[j]
      BY <2>2, <3>1, <3>2 DEF Ahead
    <3>3. CASE j - Len(q) \in DOMAIN s
      <4>1. j \in Nat /\ j - Len(q) >= 1
        BY <3>3, ConcatIndex
      <4> QED BY <3>1, <4>1
    <3> QED BY <3>2, <3>3, ConcatIndex
  <2> QED BY <2>2 DEF Ahead
<1> QED
  BY <1>1, <1>2

LEMMA LacksAhead ==
  ASSUME NEW q, NEW A, NEW B, Lacks(q, A) \/ Lacks(q, B)
  PROVE  Ahead(q, A, B)
BY DEF Lacks, Ahead

LEMMA LedRead ==
  ASSUME NEW q \in Seq(Message), q # <<>>, NEW A, NEW B, Led(q, A, B)
  PROVE  /\ Head(q) \notin B
         /\ Head(q) \notin A => Led(Tail(q), A, B)
<1>1. Head(q) \notin B
  BY TailIndex DEF Led
<1>2. ASSUME Head(q) \notin A PROVE Led(Tail(q), A, B)
  <2>1. SUFFICES ASSUME NEW j \in DOMAIN Tail(q), Tail(q)[j] \in B
                 PROVE  \E i \in DOMAIN Tail(q) : i < j /\ Tail(q)[i] \in A
    BY DEF Led
  <2>2. PICK i \in DOMAIN q : i < j + 1 /\ q[i] \in A
    BY <2>1, TailIndex DEF Led
  <2>3. i # 1 /\ i \in Nat /\ j \in Nat
    BY <1>2, <2>2, TailIndex
  <2>4. i - 1 \in DOMAIN Tail(q) /\ Tail(q)[i - 1] = q[i]
    BY <2>2, <2>3, TailIndex
  <2> QED BY <2>2, <2>3, <2>4
<1> QED
  BY <1>1, <1>2

LEMMA LedJoin ==
  ASSUME NEW q \in Seq(Message), NEW s \in Seq(Message), NEW A, NEW B, Led(q, A, B),
         Lacks(s, B) \/ ~Lacks(q, A)
  PROVE  Led(q \o s, A, B)
<1>1. \A i \in DOMAIN q : i \in DOMAIN (q \o s) /\ (q \o s)[i] = q[i] /\ i \in Nat /\ i <= Len(q)
  BY ConcatIndex
<1>2. SUFFICES ASSUME NEW j \in DOMAIN (q \o s), (q \o s)[j] \in B
               PROVE  \E i \in DOMAIN (q \o s) : i < j /\ (q \o s)[i] \in A
  BY DEF Led
<1>3. CASE j \in DOMAIN q /\ (q \o s)[j] = q[j]
  BY <1>1, <1>2, <1>3 DEF Led
<1>4. CASE j - Len(q) \in DOMAIN s /\ (q \o s)[j] = s[j - Len(q)]
  <2>1. ~Lacks(q, A)
    BY <1>2, <1>4 DEF Lacks
  <2>2. PICK i \in DOMAIN q : q[i] \in A
    BY <2>1 DEF Lacks
  <2>3. j \in Nat /\ j - Len(q) >= 1 /\ Len(q) \in Nat
    BY <1>4, ConcatIndex
  <2> QED BY <1>1, <2>2, <2>3
<1> QED
  BY <1>3, <1>4, ConcatIndex

LEMMA LacksLed ==
  ASSUME NEW q, NEW A, NEW B, Lacks(q, B)
  PROVE  Led(q, A, B)
BY DEF Lacks, Led

-----------------------------------------------------------------------------
(* The way of a client's request.  It is one message after the other, of   *)
(* the client, of the leader the client asked (its home) and of the other  *)
(* leader; its stage is the type of the one on its way.                    *)

Asks == {"LOCK", "ABSOLUTELY", "UNLOCK"}                      \* from the client
Says == {"ALIVE", "LOCKED", "LOCK_FAILED", "UNLOCKED"}        \* to the client
Down == {"LOCK_ENTERING", "GET_MAX_TICKET", "ADD_TICKET", "LOCK_EXITING"}  \* from the home
Up == {"LOCK_ENTERED", "MAX_TICKET", "TICKET_ADDED"}          \* to the home
Steps == Asks \cup {"LOCK_FAILED"} \cup Down \cup Up

Outside == {"IDLE", "LOCK", "LOCK_FAILED", "UNLOCKED"}        \* no leader works on it
Opening == {"ALIVE", "ABSOLUTELY", "LOCK_ENTERING"}           \* only the home has a ticket
Choosing == {"GET_MAX_TICKET", "MAX_TICKET", "ADD_TICKET", "TICKET_ADDED"}
Granted == {"LOCKED", "HELD", "UNLOCK"}
Late == {"LOCK_EXITING", "WAITING"} \cup Granted              \* the home has the quorum
Stage == Outside \cup Opening \cup {"LOCK_ENTERED"} \cup Choosing \cup Late

StateOf(st) ==
  CASE st = "IDLE" -> "IDLE"
    [] st = "HELD" -> "LOCKED"
    [] st \in {"UNLOCK", "UNLOCKED"} -> "UNLOCKING"
    [] OTHER -> "LOCKING"

\* Messages about a client.
Of(c, types) == {m \in Message : m.key.client = c /\ m.type \in types}
Apart(c) == {m \in Message : m.key.client # c}
Dones(c) == {m \in Of(c, {"LOCK_ACTIVATED"}) : m.other = m.key}
Grants(c) == Of(c, {"TICKET_READY", "ACTIVATE_LOCK"}) \cup Dones(c)
Drops(c) == Of(c, {"DROP_TICKET"})

\* What the leaders keep and what is on its way, which a handler takes from one to the next.
Now == [tickets |-> tickets, net |-> net, mail |-> mail]
World(w) ==
  /\ w.tickets \in [Leader -> SUBSET Ticket]
  /\ w.net \in [Node -> [Leader -> Seq(Message)]]
  /\ w.mail \in [Client -> [Leader -> Seq(Notice)]]

Entry(S, c) == {t \in S : t.client = c}

\* The ticket of c was dropped by the other leader, and l is about to read it.
Left(c, l, w) == ~Lacks(w.net[Other(l)][l], Drops(c))

\* What is left of a ticket in the table of leader l, until it reads the DROP_TICKET.
Gone(t, l) ==
  /\ t.listed /\ ~t.entering /\ t.rank = t.number
  /\ IF t.owner = l THEN t.quorum /\ t.ready /\ t.locked /\ t.still = {} ELSE ~t.quorum

\* Leader l has nothing of c but what is left.
Rid(c, l, w) ==
  \/ Entry(w.tickets[l], c) = {} /\ ~Left(c, l, w)
  \/ /\ Left(c, l, w)
     /\ \E t \in Ticket :
          /\ Entry(w.tickets[l], c) = {t} /\ Gone(t, l)
          /\ Lacks(w.net[Other(l)][l], {m \in Drops(c) : m.key # KeyOf(t)})

\* The ticket t of the request in the table of its home h, and in that of the other leader.
AtHome(t, h, st) ==
  /\ t.owner = h
  /\ st \in Opening \cup {"LOCK_ENTERED"} \cup Choosing => t.entering
  /\ t.listed <=> st \in {"ADD_TICKET", "TICKET_ADDED"} \cup Late
  /\ t.maxAsked <=> st \notin Opening \cup {"LOCK_ENTERED"}
  /\ t.added <=> t.listed
  /\ t.quorum <=> st \in Late
  /\ t.locked <=> st \in Granted
  /\ t.locked => t.ready
  /\ t.ready => t.quorum
  /\ t.quorum => (t.ready <=> t.still = {})
  /\ t.listed => t.rank = t.number

AtOther(t, h, st) ==
  /\ t.owner = h
  /\ st \in {"LOCK_ENTERED", "LOCK_EXITING"} \cup Choosing => t.entering
  /\ t.listed <=> st \in {"TICKET_ADDED"} \cup Late
  /\ t.added <=> t.listed
  /\ ~t.quorum
  /\ t.ready \/ t.locked => st \in {"WAITING"} \cup Granted
  /\ t.listed => t.rank = t.number
  /\ ~t.added => t.number = 0

\* The leaders' tables, as far as client c goes.
Keeps(c, h, st, w) ==
  /\ st \in Outside => Rid(c, h, w)
  /\ st \in Outside \cup Opening => Rid(c, Other(h), w)
  /\ st \notin Outside =>
       /\ ~Left(c, h, w)
       /\ \E t \in Ticket :
            /\ Entry(w.tickets[h], c) = {t} /\ AtHome(t, h, st)
            /\ Lacks(w.net[h][Other(h)], {m \in Of(c, {"ADD_TICKET"}) : m.key # KeyOf(t)})
  /\ st \notin Outside \cup Opening =>
       /\ ~Left(c, Other(h), w)
       /\ \E t \in Ticket :
            /\ Entry(w.tickets[Other(h)], c) = {t} /\ AtOther(t, h, st)
            /\ st \in {"TICKET_ADDED"} \cup Late =>
                 \A u \in Entry(w.tickets[h], c) : u.number = t.number

\* f[l] is the only queue that has a message, only one, of the set S.
OneAt(f, l, S) ==
  /\ \A k \in Leader \ {l} : f[k] = <<>>
  /\ f[l] = <<>> \/ (f[l] # <<>> /\ Head(f[l]) \in S /\ Tail(f[l]) = <<>>)

\* Between the client and the leaders there is one message at most.
Talks(c, h, st, w) ==
  /\ \E l \in Leader : (st # "UNLOCK" => l = h) /\ OneAt(w.net[c], l, Of(c, {st}))
  /\ st \notin Asks => \A l \in Leader : w.net[c][l] = <<>>
  /\ \E l \in Leader : (st # "UNLOCKED" => l = h) /\ OneAt(w.mail[c], l, {n \in Notice : n.type = st})
  /\ st \notin Says => \A l \in Leader : w.mail[c][l] = <<>>

\* And one between the leaders.
Bears(q, c, types) == Lacks(q, Of(c, Steps \ types)) /\ Once(q, Of(c, types))
Moves(c, h, st, w) ==
  /\ Bears(w.net[h][Other(h)], c, Down \cap {st})
  /\ Bears(w.net[Other(h)][h], c, Up \cap {st})
  /\ \A l \in Leader : Once(w.net[l][Other(l)], Drops(c))

\* What is left of a former request is read before the new one gets anywhere.
InOrder(c, h, st, w) ==
  LET p == w.net[h][Other(h)]
      q == w.net[Other(h)][h]
  IN  /\ st = "LOCK_ENTERING" => Ahead(p, Grants(c) \cup Drops(c), Of(c, {st}))
      /\ st = "LOCK_ENTERED" => Lacks(p, Grants(c)) /\ Ahead(q, Grants(c), Of(c, {st}))
      /\ st \in Choosing => Lacks(p, Grants(c)) /\ Lacks(q, Grants(c))
      /\ st = "LOCK_EXITING" => Lacks(q, Grants(c)) /\ Ahead(p, Of(c, {st}), Grants(c))
      /\ st = "WAITING" => Lacks(q, Of(c, {"TICKET_READY"}))

Own(c, h, st, w) == Talks(c, h, st, w) /\ Moves(c, h, st, w) /\ Keeps(c, h, st, w) /\ InOrder(c, h, st, w)

\* A ticket leaves f_entering_tickets, of the home and then of the other leader, and nothing
\* puts it back.
Quits(c, h, st, w) ==
  /\ st = "LOCK_EXITING" => ~Lacks(w.net[h][Other(h)], Of(c, {st}))
  /\ st \in Late => \A t \in Entry(w.tickets[h], c) : ~t.entering
  /\ st \in Late \ {"LOCK_EXITING"} => \A t \in Entry(w.tickets[Other(h)], c) : ~t.entering

Held(t) == {p.client : p \in t.still}

\* No ticket of another client comes before t.
Clear(S, t) == \A u \in S : u.listed /\ u.client # t.client => Before(KeyOf(t), KeyOf(u))

\* The request of d gets a number above the one of ticket t of leader l.
Later(t, l, d, h, st, w) ==
  /\ st \in {"GET_MAX_TICKET", "MAX_TICKET"} => \A u \in Entry(w.tickets[h], d) :
       \/ u.number >= t.number
       \/ /\ st = "GET_MAX_TICKET" /\ h # l
          /\ Led(w.net[h][l], Drops(t.client), Of(d, {st}))
  /\ st = "ADD_TICKET" => \A u \in Entry(w.tickets[h], d) : Before(KeyOf(t), KeyOf(u))

\* A ticket with the quorum waits for whoever might get before it.
Queued(t, l, home, g, w) ==
  /\ \A d \in Client \ {t.client} : d \in Held(t) \/ Later(t, l, d, home[d], g[d], w)
  /\ \A d \in Held(t) : \E u \in Entry(w.tickets[l], d) : u.entering
  /\ t.locked => \A k \in Leader : Clear(w.tickets[k], t)

Waits(c, home, g, w) ==
  \A l \in Leader : \A t \in Entry(w.tickets[l], c) :
    t.owner = l /\ t.quorum => Queued(t, l, home, g, w)

\* No leader speaks of a ticket as ready, or as the first one, that is not.
Sure(c, h, st, w) ==
  LET p == w.net[h][Other(h)]
      q == w.net[Other(h)][h]
  IN  st \in {"LOCK_EXITING", "WAITING"} =>
        \A t \in Entry(w.tickets[h], c) :
          /\ ~Lacks(p, Grants(c)) \/ ~Lacks(q, Grants(c)) => t.ready
          /\ \A u \in Entry(w.tickets[Other(h)], c) : u.ready => t.ready
          /\ ~Lacks(p, Of(c, {"ACTIVATE_LOCK"})) => Clear(w.tickets[h], t)
          /\ ~Lacks(q, Of(c, {"ACTIVATE_LOCK"})) => Clear(w.tickets[Other(h)], t)
          /\ ~Lacks(p, Dones(c)) \/ ~Lacks(q, Dones(c)) =>
               Clear(w.tickets[h], t) /\ Clear(w.tickets[Other(h)], t)

\* The whole of it, home[c] and g[c] being the home and the stage of client c.
Core(home, g, w) ==
  /\ home \in [Client -> Leader] /\ g \in [Client -> Stage]
  /\ \A c \in Client : Own(c, home[c], g[c], w) /\ Waits(c, home, g, w) /\ Sure(c, home[c], g[c], w)
Pairing(home, g, w) == Core(home, g, w) /\ \A c \in Client : Quits(c, home[c], g[c], w)

-----------------------------------------------------------------------------
(* Whoever has nothing to do with a step finds everything as it was.       *)

\* For client e, nothing happens from world v to world w; the order of the messages is kept
\* for all those in Y.
Same(e, v, w, Y) ==
  /\ \A l \in Leader : Entry(w.tickets[l], e) = Entry(v.tickets[l], e)
  /\ w.net[e] = v.net[e] /\ w.mail[e] = v.mail[e]
  /\ \A l \in Leader : SameOrder(w.net[l][Other(l)], v.net[l][Other(l)], Y)

LEMMA AboutApart ==
  ASSUME NEW c, NEW e, c # e
  PROVE  /\ \A T : Of(e, T) \subseteq Apart(c)
         /\ Dones(e) \subseteq Apart(c) /\ Grants(e) \subseteq Apart(c) /\ Drops(e) \subseteq Apart(c)
         /\ \A K : {m \in Drops(e) : m.key # K} \subseteq Apart(c)
         /\ \A K : {m \in Of(e, {"ADD_TICKET"}) : m.key # K} \subseteq Apart(c)
BY DEF Of, Dones, Grants, Drops, Apart

LEMMA OwnSame ==
  ASSUME TwoLeaders, NEW c, NEW e, c # e, NEW v, NEW w, Same(e, v, w, Apart(c)),
         NEW h \in Leader, NEW st, Own(e, h, st, v)
  PROVE  Own(e, h, st, w)
<1> DEFINE o == Other(h)
<1>1. o \in Leader /\ Other(o) = h /\ Leader = {h, o}
  BY OtherLeader
<1>2. /\ SameOrder(w.net[h][o], v.net[h][o], Apart(c))
      /\ SameOrder(w.net[o][h], v.net[o][h], Apart(c))
  BY <1>1, Zenon DEF Same
<1>3. \A l \in Leader : SameOrder(w.net[l][Other(l)], v.net[l][Other(l)], Apart(c))
  BY DEF Same
<1> HIDE DEF o
<1>4. Talks(e, h, st, w)
  BY DEF Own, Talks, Same
<1>5. Moves(e, h, st, w)
  <2>1. Moves(e, h, st, v)
    BY DEF Own
  <2>2. \A l \in Leader : Once(w.net[l][Other(l)], Drops(e))
    BY <1>3, <2>1, AboutApart DEF Moves, SameOrder
  <2>3. ASSUME NEW k \in Leader, NEW d \in Leader, k = Other(d) \/ d = Other(k), NEW T,
               Bears(v.net[d][k], e, T)
        PROVE  Bears(w.net[d][k], e, T)
    <3>1. SameOrder(w.net[d][k], v.net[d][k], Apart(c))
      BY <1>3, <2>3, OtherLeader
    <3> QED BY <2>3, <3>1, AboutApart DEF Bears, SameOrder
  <2>4. Bears(w.net[h][o], e, Down \cap {st}) /\ Bears(w.net[o][h], e, Up \cap {st})
    BY <1>1, <2>1, <2>3 DEF Moves, o
  <2> QED BY <2>1, <2>2, <2>4 DEF Moves, o
<1>6. \A l \in Leader : Left(e, l, w) <=> Left(e, l, v)
  BY <1>3, AboutApart, OtherLeader DEF Left, SameOrder
<1>7. ASSUME NEW l \in Leader, Rid(e, l, v) PROVE Rid(e, l, w)
  <2>1. SameOrder(w.net[Other(l)][l], v.net[Other(l)][l], Apart(c))
    BY <1>3, OtherLeader
  <2>2. \A K : Lacks(w.net[Other(l)][l], {m \in Drops(e) : m.key # K})
                 <=> Lacks(v.net[Other(l)][l], {m \in Drops(e) : m.key # K})
    BY <2>1, AboutApart DEF SameOrder
  <2>3. Entry(w.tickets[l], e) = Entry(v.tickets[l], e)
    BY DEF Same
  <2> QED BY <1>6, <1>7, <2>2, <2>3 DEF Rid
<1>8. Keeps(e, h, st, w)
  <2>1. Keeps(e, h, st, v)
    BY DEF Own
  <2>2. \A l \in Leader : Entry(w.tickets[l], e) = Entry(v.tickets[l], e)
    BY DEF Same
  <2>3. \A K : Lacks(w.net[h][o], {m \in Of(e, {"ADD_TICKET"}) : m.key # K})
                 <=> Lacks(v.net[h][o], {m \in Of(e, {"ADD_TICKET"}) : m.key # K})
    BY <1>2, AboutApart DEF SameOrder
  <2>4. /\ st \in Outside => Rid(e, h, w)
        /\ st \in Outside \cup Opening => Rid(e, o, w)
    BY <1>1, <1>7, <2>1 DEF Keeps, o
  <2> QED BY <1>1, <1>6, <2>1, <2>2, <2>3, <2>4 DEF Keeps, o
<1>9. InOrder(e, h, st, w)
  <2>1. /\ \A S \in SUBSET Apart(c) : Lacks(w.net[h][o], S) <=> Lacks(v.net[h][o], S)
        /\ \A S \in SUBSET Apart(c) : Lacks(w.net[o][h], S) <=> Lacks(v.net[o][h], S)
        /\ \A A, B \in SUBSET Apart(c) : Ahead(v.net[h][o], A, B) => Ahead(w.net[h][o], A, B)
        /\ \A A, B \in SUBSET Apart(c) : Ahead(v.net[o][h], A, B) => Ahead(w.net[o][h], A, B)
    BY <1>2 DEF SameOrder
  <2>2. /\ Grants(e) \in SUBSET Apart(c) /\ Drops(e) \in SUBSET Apart(c)
        /\ Grants(e) \cup Drops(e) \in SUBSET Apart(c)
        /\ \A T : Of(e, T) \in SUBSET Apart(c)
    BY AboutApart
  <2>3. InOrder(e, h, st, v)
    BY DEF Own
  <2> QED BY <2>1, <2>2, <2>3, Zenon DEF InOrder, o
<1> QED
  BY <1>4, <1>5, <1>8, <1>9 DEF Own

\* Only client c has to do with the step.
Beside(c, v, w) == \A e \in Client \ {c} : Same(e, v, w, Apart(c))

\* Whatever client c has listed since then comes after ticket t.
Fair(t, c, v, w) ==
  \A k \in Leader : \A u \in Entry(w.tickets[k], c) : u.listed =>
    \/ Before(KeyOf(t), KeyOf(u))
    \/ \E x \in Entry(v.tickets[k], c) : x.listed /\ KeyOf(x) = KeyOf(u)

LEMMA ClearSame ==
  ASSUME NEW c \in Client, NEW v, NEW w, World(w), Beside(c, v, w), NEW t, t.client # c,
         Fair(t, c, v, w), NEW k \in Leader, Clear(v.tickets[k], t)
  PROVE  Clear(w.tickets[k], t)
<1> SUFFICES ASSUME NEW u \in w.tickets[k], u.listed, u.client # t.client
             PROVE  Before(KeyOf(t), KeyOf(u))
  BY DEF Clear
<1>1. u.client \in Client
  BY DEF World, Ticket
<1>2. CASE u.client = c
  <2>1. u \in Entry(w.tickets[k], c)
    BY <1>2 DEF Entry
  <2>2. ASSUME NEW x \in Entry(v.tickets[k], c), x.listed, KeyOf(x) = KeyOf(u)
        PROVE  Before(KeyOf(t), KeyOf(u))
    BY <2>2 DEF Entry, Clear
  <2> QED BY <2>1, <2>2 DEF Fair
<1>3. CASE u.client # c
  <2>1. u \in Entry(w.tickets[k], u.client)
    BY DEF Entry
  <2>2. u \in Entry(v.tickets[k], u.client)
    BY <1>1, <1>3, <2>1 DEF Beside, Same
  <2> QED BY <2>2 DEF Entry, Clear
<1> QED
  BY <1>2, <1>3

\* A ticket with the quorum is in the table of its owner, and either it is the one of the
\* request or it is what is left of a former one.
LEMMA Quorate ==
  ASSUME TwoLeaders, NEW w, World(w), NEW e \in Client, NEW h \in Leader, NEW st \in Stage,
         Own(e, h, st, w), NEW l \in Leader, NEW t \in Entry(w.tickets[l], e), t.quorum
  PROVE  /\ Entry(w.tickets[l], e) = {t} /\ t \in Ticket /\ t.client = e
         /\ t.owner = l /\ t.listed /\ t.rank = t.number
         /\ t.locked => t.ready
         /\ t.ready <=> t.still = {}
         /\ \/ Gone(t, l) /\ Left(e, l, w) /\ (st \in Outside \/ (st \in Opening /\ l # h))
            \/ l = h /\ st \in Late /\ AtHome(t, h, st) /\ ~Left(e, l, w)
<1>1. Keeps(e, h, st, w) /\ Leader = {h, Other(h)}
  BY OtherLeader DEF Own
<1>2. t \in Ticket /\ t.client = e
  BY DEF World, Entry
<1>3. CASE Rid(e, l, w) /\ (st \in Outside \/ (st \in Opening /\ l # h))
  BY <1>2, <1>3 DEF Rid, Gone
<1>4. CASE l = h /\ st \notin Outside
  <2>1. Entry(w.tickets[h], e) = {t} /\ AtHome(t, h, st) /\ ~Left(e, h, w)
    BY <1>1, <1>4 DEF Keeps
  <2> QED BY <1>2, <1>4, <2>1 DEF AtHome, Late
<1>5. CASE l = Other(h) /\ st \notin Outside \cup Opening
  <2>1. AtOther(t, h, st)
    BY <1>1, <1>5 DEF Keeps
  <2> QED BY <2>1 DEF AtOther
<1>6. h # Other(h)
  BY OtherLeader
<1> QED
  BY <1>1, <1>3, <1>4, <1>5, <1>6 DEF Keeps

LEMMA SureSame ==
  ASSUME TwoLeaders, NEW c \in Client, NEW e \in Client, e # c, NEW v, NEW w, World(v), World(w),
         Beside(c, v, w), NEW h \in Leader, NEW st \in Stage, Own(e, h, st, v), Sure(e, h, st, v),
         \A t \in Entry(v.tickets[h], e) : t.owner = h /\ t.quorum /\ t.ready => Fair(t, c, v, w)
  PROVE  Sure(e, h, st, w)
<1> DEFINE o == Other(h)
           p == v.net[h][o]
           q == v.net[o][h]
           pp == w.net[h][o]
           qq == w.net[o][h]
<1>1. SUFFICES ASSUME st \in {"LOCK_EXITING", "WAITING"}, NEW t \in Entry(w.tickets[h], e)
      PROVE  /\ ~Lacks(pp, Grants(e)) \/ ~Lacks(qq, Grants(e)) => t.ready
             /\ \A u \in Entry(w.tickets[o], e) : u.ready => t.ready
             /\ ~Lacks(pp, Of(e, {"ACTIVATE_LOCK"})) => Clear(w.tickets[h], t)
             /\ ~Lacks(qq, Of(e, {"ACTIVATE_LOCK"})) => Clear(w.tickets[o], t)
             /\ ~Lacks(pp, Dones(e)) \/ ~Lacks(qq, Dones(e)) =>
                  Clear(w.tickets[h], t) /\ Clear(w.tickets[o], t)
  BY DEF Sure
<1>2. o \in Leader /\ Other(o) = h
  BY OtherLeader
<1>3. Same(e, v, w, Apart(c)) /\ Entry(w.tickets[h], e) = Entry(v.tickets[h], e)
      /\ Entry(w.tickets[o], e) = Entry(v.tickets[o], e)
  BY <1>2 DEF Beside, Same
<1>4. SameOrder(pp, p, Apart(c)) /\ SameOrder(qq, q, Apart(c))
  BY <1>2, <1>3, Zenon DEF Same
<1>5. \A S \in SUBSET Apart(c) : (Lacks(pp, S) <=> Lacks(p, S)) /\ (Lacks(qq, S) <=> Lacks(q, S))
  BY <1>4 DEF SameOrder
<1>6. /\ ~Lacks(p, Grants(e)) \/ ~Lacks(q, Grants(e)) => t.ready
      /\ \A u \in Entry(v.tickets[o], e) : u.ready => t.ready
      /\ ~Lacks(p, Of(e, {"ACTIVATE_LOCK"})) => Clear(v.tickets[h], t)
      /\ ~Lacks(q, Of(e, {"ACTIVATE_LOCK"})) => Clear(v.tickets[o], t)
      /\ ~Lacks(p, Dones(e)) \/ ~Lacks(q, Dones(e)) =>
           Clear(v.tickets[h], t) /\ Clear(v.tickets[o], t)
  BY <1>1, <1>3 DEF Sure
<1>7. /\ Grants(e) \in SUBSET Apart(c) /\ Of(e, {"ACTIVATE_LOCK"}) \in SUBSET Apart(c)
      /\ Dones(e) \in SUBSET Apart(c)
  BY AboutApart
<1>8. /\ ~Lacks(p, Of(e, {"ACTIVATE_LOCK"})) \/ ~Lacks(p, Dones(e)) => ~Lacks(p, Grants(e))
      /\ ~Lacks(q, Of(e, {"ACTIVATE_LOCK"})) \/ ~Lacks(q, Dones(e)) => ~Lacks(q, Grants(e))
  BY DEF Lacks, Grants, Of
<1>9. t.owner = h /\ t.quorum /\ t.client = e
  <2>1. Keeps(e, h, st, v) /\ st \notin Outside /\ st \in Late
    BY <1>1 DEF Own, Late, Outside
  <2>2. AtHome(t, h, st)
    BY <1>3, <2>1 DEF Keeps
  <2> QED BY <2>1, <2>2 DEF AtHome, Entry
<1>10. t.ready => Fair(t, c, v, w)
  BY <1>3, <1>9
<1>11. ASSUME t.ready, NEW k \in Leader, Clear(v.tickets[k], t) PROVE Clear(w.tickets[k], t)
  BY <1>9, <1>10, <1>11, ClearSame
<1> HIDE DEF o, p, q, pp, qq
<1>12. h \in Leader
  OBVIOUS
<1> QED
  BY <1>2, <1>3, <1>5, <1>6, <1>7, <1>8, <1>11, <1>12

\* Drops of c that led to messages of others still do, where leader l reads them.
DropsLead(l, c, v, w) ==
  \A B \in SUBSET Apart(c) : Led(v.net[Other(l)][l], Drops(c), B) => Led(w.net[Other(l)][l], Drops(c), B)

LEMMA LaterSame ==
  ASSUME TwoLeaders, NEW c \in Client, NEW v, NEW w, Beside(c, v, w), NEW d \in Client, d # c,
         NEW l \in Leader, NEW t, t.client # c \/ DropsLead(l, c, v, w),
         NEW h \in Leader, NEW st, Later(t, l, d, h, st, v)
  PROVE  Later(t, l, d, h, st, w)
<1>1. Same(d, v, w, Apart(c)) /\ Entry(w.tickets[h], d) = Entry(v.tickets[h], d)
  BY DEF Beside, Same
<1>2. ASSUME h # l, Led(v.net[h][l], Drops(t.client), Of(d, {st}))
      PROVE  Led(w.net[h][l], Drops(t.client), Of(d, {st}))
  <2>1. h = Other(l)
    BY <1>2, OtherLeader
  <2>2. SameOrder(w.net[h][l], v.net[h][l], Apart(c))
    BY <1>1, <1>2, <2>1, OtherLeader DEF Same
  <2>3. Of(d, {st}) \in SUBSET Apart(c)
    BY AboutApart
  <2>4. CASE t.client # c
    <3>1. Drops(t.client) \in SUBSET Apart(c)
      BY <2>4, AboutApart
    <3> QED BY <1>2, <2>2, <2>3, <3>1 DEF SameOrder
  <2>5. CASE t.client = c /\ DropsLead(l, c, v, w)
    BY <1>2, <2>1, <2>3, <2>5, Zenon DEF DropsLead
  <2> QED BY <2>4, <2>5
<1> QED
  BY <1>1, <1>2 DEF Later

\* Client c, on its way to stage st, gets by no ticket that waits.
Yields(t, l, c, h, st, v, w) ==
  /\ c \in Held(t) \/ Later(t, l, c, h, st, w)
  /\ c \in Held(t) => \E u \in Entry(w.tickets[l], c) : u.entering
  /\ t.ready => Fair(t, c, v, w)

\* Only client c moves.
Moving(c, home, g, home2, g2) ==
  /\ home \in [Client -> Leader] /\ g \in [Client -> Stage]
  /\ home2 \in [Client -> Leader] /\ g2 \in [Client -> Stage]
  /\ \A e \in Client \ {c} : home2[e] = home[e] /\ g2[e] = g[e]

LEMMA QueuedSame ==
  ASSUME TwoLeaders, NEW c \in Client, NEW v, NEW w, World(v), World(w), Beside(c, v, w),
         NEW l \in Leader, NEW t \in v.tickets[l], t.client # c, t.locked => t.ready,
         NEW home, NEW g, NEW home2, NEW g2, Moving(c, home, g, home2, g2),
         Queued(t, l, home, g, v), Yields(t, l, c, home2[c], g2[c], v, w)
  PROVE  Queued(t, l, home2, g2, w)
<1>1. \A d \in Client \ {t.client} : d \in Held(t) \/ Later(t, l, d, home2[d], g2[d], w)
  <2> SUFFICES ASSUME NEW d \in Client, d # t.client, d # c, d \notin Held(t)
               PROVE  Later(t, l, d, home2[d], g2[d], w)
    BY DEF Yields
  <2>1. /\ Later(t, l, d, home[d], g[d], v) /\ home[d] \in Leader
        /\ home2[d] = home[d] /\ g2[d] = g[d]
    BY DEF Queued, Moving
  <2> QED BY <2>1, LaterSame
<1>2. \A d \in Held(t) : \E u \in Entry(w.tickets[l], d) : u.entering
  <2> SUFFICES ASSUME NEW d \in Held(t), d # c
               PROVE  \E u \in Entry(w.tickets[l], d) : u.entering
    BY DEF Yields
  <2>1. d \in Client
    BY DEF Held, World, Ticket, Pending
  <2>2. Entry(w.tickets[l], d) = Entry(v.tickets[l], d)
    BY <2>1 DEF Beside, Same
  <2> QED BY <2>2 DEF Queued
<1>3. t.locked => \A k \in Leader : Clear(w.tickets[k], t)
  BY ClearSame DEF Queued, Yields
<1> QED
  BY <1>1, <1>2, <1>3 DEF Queued

\* A ticket of c itself that stays as it is.
LEMMA QueuedOwn ==
  ASSUME TwoLeaders, NEW c \in Client, NEW v, NEW w, World(v), World(w), Beside(c, v, w),
         NEW l \in Leader, NEW t \in v.tickets[l], t.client = c, DropsLead(l, c, v, w),
         c \in Held(t) => \E u \in Entry(w.tickets[l], c) : u.entering,
         NEW home, NEW g, NEW home2, NEW g2, Moving(c, home, g, home2, g2),
         Queued(t, l, home, g, v)
  PROVE  Queued(t, l, home2, g2, w)
<1>1. \A d \in Client \ {t.client} : d \in Held(t) \/ Later(t, l, d, home2[d], g2[d], w)
  <2> SUFFICES ASSUME NEW d \in Client, d # t.client, d # c, d \notin Held(t)
               PROVE  Later(t, l, d, home2[d], g2[d], w)
    OBVIOUS
  <2>1. /\ Later(t, l, d, home[d], g[d], v) /\ home[d] \in Leader
        /\ home2[d] = home[d] /\ g2[d] = g[d]
    BY DEF Queued, Moving
  <2> QED BY <2>1, LaterSame
<1>2. \A d \in Held(t) : \E u \in Entry(w.tickets[l], d) : u.entering
  <2> SUFFICES ASSUME NEW d \in Held(t), d # c
               PROVE  \E u \in Entry(w.tickets[l], d) : u.entering
    OBVIOUS
  <2>1. d \in Client
    BY DEF Held, World, Ticket, Pending
  <2>2. Entry(w.tickets[l], d) = Entry(v.tickets[l], d)
    BY <2>1 DEF Beside, Same
  <2> QED BY <2>2 DEF Queued
<1>3. ASSUME t.locked, NEW k \in Leader, NEW u \in w.tickets[k], u.listed, u.client # t.client
      PROVE  Before(KeyOf(t), KeyOf(u))
  <2>1. u.client \in Client
    BY DEF World, Ticket
  <2>2. u \in Entry(w.tickets[k], u.client)
    BY DEF Entry
  <2>3. u \in Entry(v.tickets[k], u.client)
    BY <1>3, <2>1, <2>2 DEF Beside, Same
  <2> QED BY <1>3, <2>3 DEF Entry, Clear, Queued
<1> QED
  BY <1>1, <1>2, <1>3 DEF Queued, Clear

\* If all goes well for c, it does for everybody.
LEMMA Bystanders ==
  ASSUME TwoLeaders, NEW c \in Client, NEW v, NEW w, World(v), World(w), Beside(c, v, w),
         NEW home, NEW g, NEW home2, NEW g2, Moving(c, home, g, home2, g2), Core(home, g, v),
         \A l \in Leader : \A t \in v.tickets[l] : t.client # c /\ t.owner = l /\ t.quorum =>
           Yields(t, l, c, home2[c], g2[c], v, w),
         Own(c, home2[c], g2[c], w), Waits(c, home2, g2, w), Sure(c, home2[c], g2[c], w)
  PROVE  /\ Core(home2, g2, w)
         /\ \A e \in Client \ {c} : Quits(e, home[e], g[e], v) => Quits(e, home2[e], g2[e], w)
<1>1. ASSUME NEW e \in Client, e # c
      PROVE  /\ Own(e, home2[e], g2[e], w) /\ Waits(e, home2, g2, w) /\ Sure(e, home2[e], g2[e], w)
             /\ Quits(e, home[e], g[e], v) => Quits(e, home2[e], g2[e], w)
  <2>0. /\ home2[e] = home[e] /\ g2[e] = g[e] /\ home[e] \in Leader /\ g[e] \in Stage
        /\ Same(e, v, w, Apart(c)) /\ Other(home[e]) \in Leader
    BY <1>1, OtherLeader DEF Beside, Moving
  <2>1. Own(e, home[e], g[e], v) /\ Waits(e, home, g, v) /\ Sure(e, home[e], g[e], v)
    BY DEF Core
  <2>2. Own(e, home[e], g[e], w)
    BY <1>1, <2>0, <2>1, OwnSame
  <2>3. Sure(e, home[e], g[e], w)
    <3>1. \A t \in Entry(v.tickets[home[e]], e) : t.owner = home[e] /\ t.quorum /\ t.ready => Fair(t, c, v, w)
      BY <1>1, <2>0 DEF Entry, Yields
    <3> QED BY <1>1, <2>0, <2>1, <3>1, SureSame
  <2>4. Waits(e, home2, g2, w)
    <3> SUFFICES ASSUME NEW l \in Leader, NEW t \in Entry(w.tickets[l], e), t.owner = l, t.quorum
                 PROVE  Queued(t, l, home2, g2, w)
      BY DEF Waits
    <3>1. t \in Entry(v.tickets[l], e)
      BY <2>0 DEF Same
    <3>2. t \in v.tickets[l] /\ t.client = e
      BY <3>1 DEF Entry
    <3>3. t.locked => t.ready
      BY <2>0, <2>1, <3>1, Quorate
    <3>4. Queued(t, l, home, g, v)
      BY <2>1, <3>1 DEF Waits
    <3>5. Yields(t, l, c, home2[c], g2[c], v, w)
      BY <1>1, <3>2
    <3>6. t.client # c
      BY <1>1, <3>2
    <3> QED BY <3>2, <3>3, <3>4, <3>5, <3>6, QueuedSame
  <2>5. Quits(e, home[e], g[e], v) => Quits(e, home2[e], g2[e], w)
    <3> DEFINE h == home[e]
    <3>1. SameOrder(w.net[h][Other(h)], v.net[h][Other(h)], Apart(c))
      BY <2>0 DEF Same
    <3>2. Of(e, {g[e]}) \in SUBSET Apart(c)
      BY <1>1, AboutApart
    <3>3. Lacks(w.net[h][Other(h)], Of(e, {g[e]})) <=> Lacks(v.net[h][Other(h)], Of(e, {g[e]}))
      BY <3>1, <3>2 DEF SameOrder
    <3> QED BY <2>0, <3>3 DEF Quits, Same
  <2> QED BY <2>0, <2>2, <2>3, <2>4, <2>5
<1> QED
  BY <1>1 DEF Core, Moving

\* Client c lists nothing, stays where it is entering and asks for no number.
LEMMA YieldsSame ==
  ASSUME TwoLeaders, NEW c \in Client, NEW v, NEW w,
         NEW home \in [Client -> Leader], NEW g \in [Client -> Stage],
         NEW l \in Leader, NEW t \in v.tickets[l], t.client # c, Queued(t, l, home, g, v),
         NEW h \in Leader, NEW st \in Stage, st \notin {"GET_MAX_TICKET", "MAX_TICKET", "ADD_TICKET"},
         (\E u \in Entry(v.tickets[l], c) : u.entering) => \E u \in Entry(w.tickets[l], c) : u.entering,
         \A k \in Leader : \A u \in Entry(w.tickets[k], c) : u.listed =>
           \E x \in Entry(v.tickets[k], c) : x.listed /\ KeyOf(x) = KeyOf(u)
  PROVE  Yields(t, l, c, h, st, v, w)
<1>1. Later(t, l, c, h, st, w)
  BY DEF Later
<1>2. Fair(t, c, v, w)
  BY DEF Fair
<1> QED
  BY <1>1, <1>2 DEF Yields, Queued

-----------------------------------------------------------------------------
(* A handler's steps, when nothing is late and there is another leader.    *)

LEMMA PromptContext ==
  ASSUME TwoLeaders, NEW l \in Leader, NEW D, Prompt(l, D), NEW E, Sound(l, E), E.tickets \subseteq Punctual,
         E.out[Other(l)] \in Seq(InTime), E.mail \in [Client -> Seq(Gentle)]
  PROVE  Prompt(l, E)
<1>1. E.out \in [Leader -> Seq(Message)] /\ E.out[l] = <<>> /\ Leader = {l, Other(l)}
  BY OtherLeader DEF Sound, Context
<1>2. <<>> \in Seq(InTime)
  OBVIOUS
<1> HIDE DEF Other
<1>3. E.out \in [Leader -> Seq(InTime)]
  BY <1>1, <1>2
<1> QED
  BY <1>3 DEF Prompt

\* activate_first_lock() asks for the first ticket, and changes no ticket.
LEMMA PromptFirst ==
  ASSUME TwoLeaders, NEW l \in Leader, NEW D, Prompt(l, D)
  PROVE  LET E == ActivateFirstLock(D)
             t == First(Listed(D))
         IN  /\ Prompt(l, E)
             /\ \/ E = D
                \/ /\ Listed(D) # {} /\ t.ready /\ ~t.locked
                   /\ E = SendToLeaders(D, Msg("ACTIVATE_LOCK", KeyOf(t)))
<1> DEFINE t == First(Listed(D))
           m == Msg("ACTIVATE_LOCK", KeyOf(t))
<1>1. D \in Context /\ D.tickets \subseteq Ticket /\ ~OneLeader(D) /\ Sound(l, D)
  BY PromptTickets DEF Prompt
<1>2. ActivateFirstLock(D) = IF Listed(D) = {} THEN D ELSE ActivateLock(D, t)
  BY NothingExpires DEF ActivateFirstLock
<1>3. \/ ActivateFirstLock(D) = D
      \/ /\ Listed(D) # {} /\ t.ready /\ ~t.locked
         /\ ActivateFirstLock(D) = SendToLeaders(D, m)
  BY <1>1, <1>2 DEF ActivateLock
<1>4. ASSUME Listed(D) # {} PROVE Prompt(l, SendToLeaders(D, m))
  <2>1. t \in Ticket
    BY <1>1, <1>4, FirstListed
  <2> HIDE DEF t
  <2>2. m \in InTime
    BY <2>1, KeyTypes, MsgType DEF InTime, Msg
  <2> HIDE DEF m
  <2> QED BY <2>2, PromptSend
<1> QED
  BY <1>3, <1>4

\* lock_activated()
LEMMA PromptActivated ==
  ASSUME TwoLeaders, NEW l \in Leader, NEW D, Prompt(l, D), NEW t \in D.tickets
  PROVE  LET E == LockActivated(D, t)
             u == [t EXCEPT !.locked = TRUE, !.lockDate = now + Duration]
             n == [Note("LOCKED") EXCEPT !.date = now + Duration]
         IN  /\ Prompt(l, E)
             /\ u \in Punctual
             /\ IF t.ready /\ ~t.locked
                THEN E = IF t.owner = l THEN TellClient(Update(D, t, u), t.client, n)
                         ELSE Update(D, t, u)
                ELSE E = D
<1> DEFINE u == [t EXCEPT !.locked = TRUE, !.lockDate = now + Duration]
           n == [Note("LOCKED") EXCEPT !.date = now + Duration]
           F == Update(D, t, u)
<1>1. /\ D \in Context /\ Sound(l, D) /\ t \in Ticket /\ t \in Punctual
      /\ D.me = l /\ t.failed = "NONE" /\ now \in Nat /\ 1 <= now /\ now <= LastDate
  BY PromptTickets DEF Prompt, Sound
<1>2. now + Duration \in Nat /\ now + Duration > LastDate
  BY <1>1, Dates
<1>3. u \in Ticket /\ u \in Punctual /\ KeyOf(u) = KeyOf(t) /\ u.listed = t.listed
      /\ u.lockDate = now + Duration
  BY <1>1, <1>2 DEF Ticket, Punctual, KeyOf
<1>4. n \in Gentle
  BY <1>2 DEF Gentle, Note, Notice
<1>5. IF t.ready /\ ~t.locked
      THEN LockActivated(D, t) = IF t.owner = l THEN TellClient(F, t.client, n) ELSE F
      ELSE LockActivated(D, t) = D
  BY <1>1, <1>3 DEF LockActivated
<1> HIDE DEF u, n
<1>6. Prompt(l, F)
  BY <1>1, <1>3, PromptUpdate
<1> HIDE DEF F
<1>7. Prompt(l, TellClient(F, t.client, n))
  BY <1>4, <1>6, PromptTellClient
<1> QED
  BY <1>3, <1>5, <1>6, <1>7 DEF u, n, F

\* What remove_entering() makes of a ticket of the table.
Relieved(u, c) == IF u.listed THEN RemoveEntering(u, c) ELSE u

LEMMA RelievedTicket ==
  ASSUME TwoLeaders, now \in Nat, 1 <= now, now <= LastDate, NEW u \in Punctual, NEW c
  PROVE  LET x == Relieved(u, c)
         IN  /\ x \in Ticket /\ x \in Punctual /\ KeyOf(x) = KeyOf(u)
             /\ x = [u EXCEPT !.still = x.still, !.ready = x.ready]
             /\ ~(u.listed /\ Freed(u, c)) => x = u
             /\ u.listed /\ Freed(u, c) => /\ Held(x) = Held(u) \ {c}
                                           /\ x.ready <=> x.still = {}
<1> DEFINE left == {p \in u.still : p.client # c /\ p.until > now}
           none == (left = {})
           y == [u EXCEPT !.still = left, !.ready = none]
<1>1. u \in Ticket /\ LastDate \in Nat /\ \A p \in u.still : p.until > LastDate /\ p \in Pending
  BY Dates DEF Punctual, Ticket
<1>2. left = {p \in u.still : p.client # c}
  BY <1>1 DEF Pending
<1>3. left \subseteq Pending /\ none \in BOOLEAN /\ left \subseteq u.still
  BY <1>1
<1>4. Relieved(u, c) = IF u.listed /\ Freed(u, c) THEN y ELSE u
  BY DEF Relieved, RemoveEntering
<1>5. {p.client : p \in left} = {p.client : p \in u.still} \ {c}
  BY <1>2
<1> HIDE DEF left
<1>6. none <=> left = {}
  OBVIOUS
<1> HIDE DEF none
<1>7. /\ y \in Ticket /\ y.still = left /\ y.ready = none /\ KeyOf(y) = KeyOf(u)
      /\ y.entering = u.entering /\ y.listed = u.listed /\ y.failed = u.failed
      /\ y.obtention = u.obtention /\ y.alive = u.alive /\ y.locked = u.locked
      /\ y.lockDate = u.lockDate
  BY <1>1, <1>3 DEF Ticket, KeyOf
<1>8. y \in Punctual
  BY <1>1, <1>3, <1>7 DEF Punctual
<1>9. y = [u EXCEPT !.still = y.still, !.ready = y.ready]
  BY <1>1, <1>7 DEF Ticket
<1>10. Held(y) = Held(u) \ {c} /\ (y.ready <=> y.still = {})
  BY <1>5, <1>6, <1>7 DEF Held
<1>11. u = [u EXCEPT !.still = u.still, !.ready = u.ready]
  BY <1>1 DEF Ticket
<1> HIDE DEF y
<1> QED
  BY <1>1, <1>4, <1>7, <1>8, <1>9, <1>10, <1>11

\* The tickets once t has left f_entering_tickets, and who is said to be ready then.
Leaving(S, t) == (S \ {t}) \cup {[t EXCEPT !.entering = FALSE]}
FreeNow(S, c) == {Msg("TICKET_READY", KeyOf(u)) : u \in {x \in S : x.listed /\ Freed(x, c) /\ Relieved(x, c).ready}}

\* A ticket leaves f_entering_tickets, the tickets that waited for it are told, and the first
\* one is activated.
LEMMA PromptExiting ==
  ASSUME TwoLeaders, NEW l \in Leader, NEW D, Prompt(l, D), NEW c, NEW t,
         EnteringOf(D, c) = {t}, t.listed
  PROVE  \E G, s : /\ LockExiting(D, c) = ActivateFirstLock(G) /\ Prompt(l, G)
                   /\ G.tickets = {Relieved(u, c) : u \in Leaving(D.tickets, t)}
                   /\ G.mail = D.mail
                   /\ s \in Seq(FreeNow(Leaving(D.tickets, t), c)) /\ s \in Seq(Message)
                   /\ G.out[Other(l)] = D.out[Other(l)] \o s
<1> DEFINE t2 == [t EXCEPT !.entering = FALSE]
           S == (D.tickets \ {t}) \cup {t2}
           E == Update(D, t, t2)
           freed == {u \in Listed(E) : Freed(u, c) /\ RemoveEntering(u, c).ready}
           f == [u \in S |-> Relieved(u, c)]
           F == [E EXCEPT !.tickets = Range(f)]
           M == {Msg("TICKET_READY", KeyOf(u)) : u \in freed}
           s == SetToSeq(M)
           G == SendAllToLeaders(F, s)
<1>0. /\ Sound(l, D) /\ D \in Context /\ now \in Nat /\ 1 <= now /\ now <= LastDate
      /\ D.tickets \subseteq Ticket /\ D.tickets \subseteq Punctual
  BY DEF Prompt, Sound, Context
<1>1. t \in D.tickets /\ t \in Ticket /\ t \in Punctual /\ One(EnteringOf(D, c)) = t
  BY <1>0 DEF EnteringOf, One
<1>2. t2 \in Ticket /\ t2 \in Punctual /\ t2.listed /\ KeyOf(t2) = KeyOf(t)
  BY <1>1 DEF Ticket, Punctual, KeyOf
<1> HIDE DEF t2
<1>3. Prompt(l, E)
  BY <1>1, <1>2, PromptUpdate
<1>4. E.tickets = S /\ E.out = D.out /\ E.mail = D.mail
  <2>1. E.tickets = Alive(S) /\ E.out = D.out /\ E.mail = D.mail
    BY <1>0 DEF Update, Context
  <2>2. \A u \in S : u.entering \/ u.listed
    BY <1>0, <1>2 DEF Punctual
  <2> QED BY <2>1, <2>2 DEF Alive
<1>5. LockExiting(D, c) = Cleanup(IF Listed(G) = {} THEN G ELSE ActivateFirstLock(G))
  <2>1. Range(f) = {IF u.listed THEN RemoveEntering(u, c) ELSE u : u \in E.tickets}
    BY <1>4 DEF Range, Relieved
  <2> QED BY <1>1, <2>1, Zenon DEF LockExiting, t2
<1> HIDE DEF E
<1>6. S \subseteq Punctual /\ S \subseteq Ticket /\ IsFiniteSet(S) /\ KeysDiffer(S)
  BY <1>3, <1>4 DEF Prompt, Sound, Context
<1> HIDE DEF S
<1>7. \A u \in S : /\ f[u] \in Ticket /\ f[u] \in Punctual /\ KeyOf(f[u]) = KeyOf(u)
                   /\ f[u].listed = u.listed
  <2> SUFFICES ASSUME NEW u \in S
               PROVE  /\ Relieved(u, c) \in Ticket /\ Relieved(u, c) \in Punctual
                      /\ KeyOf(Relieved(u, c)) = KeyOf(u) /\ Relieved(u, c).listed = u.listed
    OBVIOUS
  <2>1. u \in Ticket
    BY <1>6
  <2>2. Relieved(u, c).listed = u.listed
    BY <2>1, RemoveEnteringType DEF Relieved
  <2>3. u \in Punctual
    BY <1>6
  <2>4. Relieved(u, c) \in Ticket /\ Relieved(u, c) \in Punctual /\ KeyOf(Relieved(u, c)) = KeyOf(u)
    BY <1>0, <2>1, <2>3, RelievedTicket, ZenonT(30)
  <2> QED BY <2>2, <2>4
<1>8. Range(f) \subseteq Ticket /\ IsFiniteSet(Range(f)) /\ KeysDiffer(Range(f)) /\ Range(f) \subseteq Punctual
  <2>1. f \in [S -> Ticket] /\ Range(f) \subseteq Punctual
    BY <1>7 DEF Range
  <2> HIDE DEF f
  <2> QED BY <1>6, <1>7, <2>1, ImageTable
<1>9. Prompt(l, F) /\ F.tickets = Range(f) /\ F.out = D.out /\ F.mail = D.mail
  <2>0. Sound(l, E)
    BY <1>3 DEF Prompt
  <2> HIDE DEF f
  <2>1. Sound(l, F) /\ F.tickets = Range(f)
    BY <1>8, <2>0, TableSound
  <2>2. F.out = E.out /\ F.mail = E.mail
    BY <1>3 DEF Prompt, Sound, Context
  <2> HIDE DEF F
  <2> QED BY <1>3, <1>4, <1>8, <2>1, <2>2, PromptTable
<1>10. freed = {x \in S : x.listed /\ Freed(x, c) /\ Relieved(x, c).ready}
  BY <1>4 DEF Listed, Relieved
<1>11. s \in Seq(M) /\ M \subseteq InTime /\ M \subseteq Message
  <2> DEFINE g == [u \in freed |-> Msg("TICKET_READY", KeyOf(u))]
  <2>1. freed \subseteq S
    BY <1>10
  <2>2. IsFiniteSet(freed)
    BY <1>6, <2>1, FS_Subset
  <2>3. g \in [freed -> InTime]
    BY <1>6, <2>1, MsgType, KeyTypes DEF InTime, Msg
  <2>4. M = Range(g)
    BY DEF Range
  <2> HIDE DEF g, freed, M
  <2>5. IsFiniteSet(Range(g)) /\ Range(g) \subseteq InTime
    BY <2>2, <2>3, FiniteImage
  <2> QED BY <2>4, <2>5, SetToSeqType DEF InTime
<1> HIDE DEF M
<1>12. s \in Seq(Message) /\ s \in Seq(InTime)
  BY <1>11
<1> HIDE DEF s, F
<1>13. Prompt(l, G) /\ G.tickets = Range(f) /\ G.mail = D.mail /\ G.out[Other(l)] = D.out[Other(l)] \o s
  <2>1. Sound(l, F)
    BY <1>9 DEF Prompt
  <2>2. Prompt(l, G)
    BY <1>9, <1>12, PromptSends
  <2>3. G.tickets = F.tickets /\ G.mail = F.mail /\ G.out[Other(l)] = F.out[Other(l)] \o s
    BY <1>12, <2>1, SendAll
  <2> HIDE DEF G, f
  <2> QED BY <1>9, <2>2, <2>3
<1> HIDE DEF G
<1>14. LockExiting(D, c) = ActivateFirstLock(G)
  <2>1. Listed(G) = {} => ActivateFirstLock(G) = G
    BY <1>13, PromptFirst
  <2>2. Prompt(l, ActivateFirstLock(G))
    BY <1>13, PromptFirst
  <2> QED BY <1>5, <2>1, <2>2, NothingExpires
<1>15. Range(f) = {Relieved(u, c) : u \in S}
  BY DEF Range
<1>16. S = Leaving(D.tickets, t) /\ M = FreeNow(Leaving(D.tickets, t), c)
  BY <1>10 DEF Leaving, FreeNow, S, M, t2
<1> HIDE DEF f, freed
<1>17. /\ G.tickets = {Relieved(u, c) : u \in Leaving(D.tickets, t)}
       /\ s \in Seq(FreeNow(Leaving(D.tickets, t), c))
  BY <1>11, <1>13, <1>15, <1>16
<1> QED
  BY <1>12, <1>13, <1>14, <1>17

-----------------------------------------------------------------------------
(* From one world to the next.                                             *)

\* What there is when leader l leaves the handler of a message of s with the context D.
After(s, l, D) ==
  [tickets |-> [tickets EXCEPT ![l] = D.tickets],
   net |-> [n \in Node |-> [d \in Leader |->
              IF n = s /\ d = l THEN Tail(net[n][d])
              ELSE IF n = l THEN net[n][d] \o D.out[d] ELSE net[n][d]]],
   mail |-> Delivered(l, D)]

LEMMA NowWorld ==
  ASSUME TypeInv
  PROVE  /\ World(Now) /\ Now.tickets = tickets /\ Now.net = net /\ Now.mail = mail
         /\ \A l \in Leader : tickets[l] \subseteq Ticket
         /\ \A n \in Node, l \in Leader : net[n][l] \in Seq(Message)
         /\ \A c \in Client, l \in Leader : mail[c][l] \in Seq(Notice)
BY DEF TypeInv, TypeOK, World, Now

\* The same, one connection at a time.
Turned(w, s, l, o, D) ==
  /\ World(w)
  /\ w.tickets[l] = D.tickets /\ w.tickets[o] = tickets[o]
  /\ w.net[l][o] = net[l][o] \o D.out[o]
  /\ w.net[o][l] = IF s = o THEN Tail(net[o][l]) ELSE net[o][l]
  /\ \A c \in Client :
       /\ w.net[c][o] = net[c][o]
       /\ w.net[c][l] = IF s = c THEN Tail(net[c][l]) ELSE net[c][l]
       /\ w.mail[c][l] = mail[c][l] \o D.mail[c] /\ w.mail[c][o] = mail[c][o]

LEMMA Turn ==
  ASSUME TwoLeaders, TypeInv, NEW s \in Node, NEW l \in Leader, net[s][l] # <<>>,
         NEW D, Sound(l, D)
  PROVE  Turned(After(s, l, D), s, l, Other(l), D)
<1> DEFINE w == After(s, l, D)
           o == Other(l)
<1>0. /\ o \in Leader /\ o # l /\ Other(o) = l /\ Leader = {l, o}
      /\ l \in Node /\ o \in Node /\ Leader \cap Client = {} /\ Client \subseteq Node
  BY OtherLeader, DisjointAssumption DEF Node
<1> HIDE DEF o
<1>1. /\ D.tickets \in SUBSET Ticket /\ D.out \in [Leader -> Seq(Message)]
      /\ D.mail \in [Client -> Seq(Notice)] /\ D.out[l] = <<>>
  BY DEF Sound, Context
<1>2. /\ tickets \in [Leader -> SUBSET Ticket] /\ net \in [Node -> [Leader -> Seq(Message)]]
      /\ mail \in [Client -> [Leader -> Seq(Notice)]]
  BY DEF TypeInv, TypeOK
<1>3. \A n \in Node, d \in Leader :
        /\ net[n][d] \in Seq(Message)
        /\ net[n][d] # <<>> => Tail(net[n][d]) \in Seq(Message)
        /\ net[n][d] \o D.out[d] \in Seq(Message)
  BY <1>1, <1>2, HeadTailProperties, ConcatProperties
<1>4. \A c \in Client, d \in Leader : mail[c][d] \in Seq(Notice) /\ mail[c][d] \o D.mail[c] \in Seq(Notice)
  BY <1>1, <1>2, ConcatProperties
<1>5. w.tickets \in [Leader -> SUBSET Ticket] /\ w.tickets[l] = D.tickets /\ w.tickets[o] = tickets[o]
  BY <1>0, <1>1, <1>2 DEF After
<1>6. /\ w.net \in [Node -> [Leader -> Seq(Message)]]
      /\ \A n \in Node, d \in Leader : w.net[n][d] =
           IF n = s /\ d = l THEN Tail(net[n][d])
           ELSE IF n = l THEN net[n][d] \o D.out[d] ELSE net[n][d]
  BY <1>3 DEF After
<1>7. /\ w.mail \in [Client -> [Leader -> Seq(Notice)]]
      /\ \A c \in Client : w.mail[c][l] = mail[c][l] \o D.mail[c] /\ w.mail[c][o] = mail[c][o]
  BY <1>0, <1>2, <1>4 DEF After, Delivered
<1> HIDE DEF w
<1>8. World(w)
  BY <1>5, <1>6, <1>7 DEF World
<1>9. net[s][l] # <<>> /\ (s = l => FALSE)
  BY DEF TypeInv, NoEcho
<1>10. w.net[l][o] = net[l][o] \o D.out[o]
  BY <1>0, <1>6
<1>11. w.net[o][l] = IF s = o THEN Tail(net[o][l]) ELSE net[o][l]
  BY <1>0, <1>6
<1>12. \A c \in Client : /\ w.net[c][o] = net[c][o]
                        /\ w.net[c][l] = IF s = c THEN Tail(net[c][l]) ELSE net[c][l]
  BY <1>0, <1>6
<1> QED
  BY <1>5, <1>7, <1>8, <1>10, <1>11, <1>12 DEF w, o, Turned

LEMMA BothLeaders ==
  ASSUME NEW T, NEW f \in [Leader -> T], NEW x \in [Leader -> T], NEW l, NEW o, Leader = {l, o},
         f[l] = x[l], f[o] = x[o]
  PROVE  f = x
OBVIOUS

LEMMA Returns ==
  ASSUME NEW s, NEW l, NEW D, Sound(l, D), Done(s, l, D)
  PROVE  Now' = After(s, l, D) /\ UNCHANGED <<now, client>>
BY DEF Sound, Done, Return, Leave, Now, After

\* A handler in good time leaves everybody in good time.
LEMMA TimelyDone ==
  ASSUME TwoLeaders, TypeInv, Timely, NEW s \in Node, NEW l \in Leader, net[s][l] # <<>>,
         NEW D, Prompt(l, D), Done(s, l, D)
  PROVE  Timely'
<1>0. Return(s, l, D) /\ LastDate \in Nat
  BY Dates DEF Done, Prompt, Sound
<1>1. /\ D.tickets \subseteq Punctual /\ D.out \in [Leader -> Seq(InTime)]
      /\ D.mail \in [Client -> Seq(Gentle)]
  BY DEF Prompt
<1>2. /\ tickets' = [tickets EXCEPT ![l] = D.tickets]
      /\ net' = [n \in Node |-> [d \in Leader |->
              IF n = s /\ d = l THEN Tail(net[n][d])
              ELSE IF n = l THEN net[n][d] \o D.out[d] ELSE net[n][d]]]
      /\ mail' = [c \in Client |-> [mail[c] EXCEPT ![l] = @ \o D.mail[c]]]
      /\ now' = now /\ client' = client
  BY <1>0 DEF Return, Leave, Delivered
<1>3. \A n \in Node, d \in Leader :
        /\ net[n][d] \in Seq(InTime)
        /\ net[n][d] # <<>> => Tail(net[n][d]) \in Seq(InTime)
        /\ net[n][d] \o D.out[d] \in Seq(InTime)
  BY <1>1, HeadTailProperties, ConcatProperties DEF Timely
<1>4. \A c \in Client, d \in Leader : mail[c][d] \in Seq(Gentle) /\ mail[c][d] \o D.mail[c] \in Seq(Gentle)
  BY <1>1, ConcatProperties DEF Timely
<1>5. tickets \in [Leader -> SUBSET Ticket] /\ mail \in [Client -> [Leader -> Seq(Notice)]]
  BY DEF TypeInv, TypeOK
<1>6. \A d \in Leader : tickets'[d] \subseteq Punctual
  BY <1>1, <1>2, <1>5 DEF Timely
<1>7. \A n \in Node, d \in Leader : net'[n][d] \in Seq(InTime)
  BY <1>2, <1>3
<1>8. \A c \in Client, d \in Leader : mail'[c][d] \in Seq(Gentle)
  BY <1>2, <1>4, <1>5
<1> QED
  BY <1>2, <1>6, <1>7, <1>8 DEF Timely

LEMMA HerePrompt ==
  ASSUME TwoLeaders, TypeInv, Timely, NEW l \in Leader
  PROVE  /\ Prompt(l, Here(l)) /\ Here(l).tickets = tickets[l] /\ Here(l).me = l
         /\ \A d \in Leader : Here(l).out[d] = <<>>
         /\ \A c \in Client : Here(l).mail[c] = <<>>
<1>1. Sound(l, Here(l)) /\ now \in Nat /\ Here(l).tickets = tickets[l]
  BY HereSound
<1>2. /\ Here(l).out = [d \in Leader |-> <<>>] /\ Here(l).mail = [c \in Client |-> <<>>]
      /\ Here(l).me = l
  BY DEF Here, Start
<1>3. <<>> \in Seq(InTime) /\ <<>> \in Seq(Gentle)
  OBVIOUS
<1> QED
  BY <1>1, <1>2, <1>3 DEF Prompt, Timely

\* A handler whose message, answers and changes are all about client c.
LEMMA TurnBeside ==
  ASSUME TwoLeaders, TypeInv, NEW s \in Node, NEW l \in Leader, net[s][l] # <<>>,
         NEW D, Sound(l, D), NEW c \in Client, Head(net[s][l]) \notin Apart(c),
         s \in Client => s = c, Lacks(D.out[Other(l)], Apart(c)),
         \A e \in Client \ {c} : Entry(D.tickets, e) = Entry(tickets[l], e) /\ D.mail[e] = <<>>
  PROVE  /\ Beside(c, Now, After(s, l, D))
         /\ DropsLead(Other(l), c, Now, After(s, l, D))
         /\ Head(net[s][l]) \notin Drops(c) => DropsLead(l, c, Now, After(s, l, D))
<1> DEFINE w == After(s, l, D)
           o == Other(l)
<1>0. /\ o \in Leader /\ o # l /\ Other(o) = l /\ Leader = {l, o}
      /\ l \in Node /\ o \in Node /\ Leader \cap Client = {} /\ Client \subseteq Node
  BY OtherLeader, DisjointAssumption DEF Node
<1>1. Turned(w, s, l, o, D)
  BY Turn
<1> HIDE DEF w, o
<1>2. /\ net[l][o] \in Seq(Message) /\ net[o][l] \in Seq(Message) /\ D.out[o] \in Seq(Message)
      /\ net \in [Node -> [Leader -> Seq(Message)]] /\ mail \in [Client -> [Leader -> Seq(Notice)]]
  <2>1. D.out \in [Leader -> Seq(Message)]
    BY DEF Sound, Context
  <2>2. net \in [Node -> [Leader -> Seq(Message)]] /\ mail \in [Client -> [Leader -> Seq(Notice)]]
    BY DEF TypeInv, TypeOK
  <2>3. net[l][o] \in Seq(Message) /\ net[o][l] \in Seq(Message)
    <3>1. \A n \in Node, d \in Leader : net[n][d] \in Seq(Message)
      BY <2>2
    <3> QED BY <1>0, <3>1
  <2> QED BY <1>0, <2>1, <2>2, <2>3
<1>3. SameOrder(w.net[l][o], net[l][o], Apart(c))
  BY <1>1, <1>2, JoinOrder DEF o, Turned
<1>4. SameOrder(w.net[o][l], net[o][l], Apart(c))
  BY <1>1, <1>2, ReadOrder, OrderTransitive DEF Turned
<1>5. \A k \in Leader : SameOrder(w.net[k][Other(k)], net[k][Other(k)], Apart(c))
  BY <1>0, <1>3, <1>4 DEF o
<1>6. ASSUME NEW e \in Client, e # c
      PROVE  Same(e, Now, w, Apart(c))
  <2>1. w.net[e] = net[e]
    <3>1. w.net[e][l] = net[e][l] /\ w.net[e][o] = net[e][o] /\ e \in Node
      BY <1>0, <1>1, <1>6 DEF Turned
    <3>2. w.net[e] \in [Leader -> Seq(Message)] /\ net[e] \in [Leader -> Seq(Message)]
      BY <1>1, <1>2, <3>1 DEF Turned, World
    <3> QED BY <1>0, <3>1, <3>2, BothLeaders
  <2>2. w.mail[e] = mail[e]
    <3>1. mail[e][l] \in Seq(Notice)
      BY <1>2
    <3>2. w.mail[e][l] = mail[e][l] \o <<>> /\ w.mail[e][o] = mail[e][o]
      BY <1>1, <1>6 DEF Turned
    <3>4. mail[e][l] \o <<>> = mail[e][l]
      BY <3>1, ConcatEmptySeq
    <3>3. w.mail[e] \in [Leader -> Seq(Notice)] /\ mail[e] \in [Leader -> Seq(Notice)]
      BY <1>1, <1>2 DEF Turned, World
    <3> QED BY <1>0, <3>2, <3>3, <3>4, BothLeaders
  <2>3. \A k \in Leader : Entry(w.tickets[k], e) = Entry(tickets[k], e)
    BY <1>0, <1>1, <1>6 DEF Turned
  <2> QED BY <1>5, <2>1, <2>2, <2>3 DEF Same, Now
<1>7. DropsLead(o, c, Now, w)
  <2> SUFFICES ASSUME NEW B \in SUBSET Apart(c), Led(net[l][o], Drops(c), B)
               PROVE  Led(w.net[l][o], Drops(c), B)
    BY <1>0 DEF DropsLead, Now, o
  <2>1. Lacks(D.out[o], B)
    BY DEF Lacks, o
  <2> QED BY <1>1, <1>2, <2>1, LedJoin DEF Turned
<1>8. ASSUME Head(net[s][l]) \notin Drops(c) PROVE DropsLead(l, c, Now, w)
  <2> SUFFICES ASSUME NEW B \in SUBSET Apart(c), Led(net[o][l], Drops(c), B)
               PROVE  Led(w.net[o][l], Drops(c), B)
    BY DEF DropsLead, Now, o
  <2> QED BY <1>1, <1>2, <1>8, LedRead DEF Turned
<1> QED
  BY <1>6, <1>7, <1>8 DEF Beside, w, o

\* A handler goes on from D to E, and sends r: the one world, and the other.
GoneOn(v, w, l, o, r, D, E) ==
  /\ World(v) /\ World(w)
  /\ v.tickets[l] = D.tickets /\ w.tickets[l] = E.tickets /\ w.tickets[o] = v.tickets[o]
  /\ w.net[l][o] = v.net[l][o] \o r /\ w.net[o][l] = v.net[o][l]
  /\ \A e \in Client : w.net[e] = v.net[e] /\ (E.mail[e] = D.mail[e] => w.mail[e] = v.mail[e])

LEMMA GoOn ==
  ASSUME TwoLeaders, TypeInv, NEW s \in Node, NEW l \in Leader, net[s][l] # <<>>,
         NEW D, Sound(l, D), NEW E, Sound(l, E), NEW r \in Seq(Message),
         E.out[Other(l)] = D.out[Other(l)] \o r
  PROVE  GoneOn(After(s, l, D), After(s, l, E), l, Other(l), r, D, E)
<1> DEFINE v == After(s, l, D)
           w == After(s, l, E)
           o == Other(l)
<1>0. o \in Leader /\ o # l /\ Leader = {l, o} /\ l \in Node /\ o \in Node /\ Client \subseteq Node
  BY OtherLeader DEF Node
<1>1. Turned(v, s, l, o, D) /\ Turned(w, s, l, o, E)
  BY Turn
<1> HIDE DEF v, w, o
<1>2. net[l][o] \in Seq(Message) /\ D.out[o] \in Seq(Message) /\ E.out[o] = D.out[o] \o r
  BY <1>0 DEF TypeInv, TypeOK, Sound, Context, o
<1>3. w.net[l][o] = v.net[l][o] \o r
  <2> DEFINE x == net[l][o]
             y == D.out[o]
  <2>1. w.net[l][o] = x \o (y \o r) /\ v.net[l][o] = x \o y
    BY <1>1, <1>2 DEF Turned
  <2>2. x \in Seq(Message) /\ y \in Seq(Message) /\ r \in Seq(Message)
    BY <1>2
  <2> HIDE DEF x, y
  <2>3. x \o (y \o r) = (x \o y) \o r
    BY <2>2, ConcatAssociative, SMTT(40)
  <2> QED BY <2>1, <2>3, Zenon
<1>4. ASSUME NEW e \in Client PROVE w.net[e] = v.net[e] /\ (E.mail[e] = D.mail[e] => w.mail[e] = v.mail[e])
  <2>1. /\ v.net[e] \in [Leader -> Seq(Message)] /\ w.net[e] \in [Leader -> Seq(Message)]
        /\ v.mail[e] \in [Leader -> Seq(Notice)] /\ w.mail[e] \in [Leader -> Seq(Notice)]
    BY <1>0, <1>1 DEF World, Turned
  <2>2. v.net[e][l] = w.net[e][l] /\ v.net[e][o] = w.net[e][o]
    BY <1>1 DEF Turned
  <2>3. E.mail[e] = D.mail[e] => v.mail[e][l] = w.mail[e][l] /\ v.mail[e][o] = w.mail[e][o]
    <3>1. /\ v.mail[e][l] = mail[e][l] \o D.mail[e] /\ v.mail[e][o] = mail[e][o]
          /\ w.mail[e][l] = mail[e][l] \o E.mail[e] /\ w.mail[e][o] = mail[e][o]
      BY <1>1, Zenon DEF Turned
    <3> QED BY <3>1
  <2>4. v.net[e] = w.net[e]
    <3> DEFINE f == v.net[e]
               x == w.net[e]
    <3>1. f \in [Leader -> Seq(Message)] /\ x \in [Leader -> Seq(Message)] /\ f[l] = x[l] /\ f[o] = x[o]
      BY <2>1, <2>2
    <3> HIDE DEF f, x
    <3>2. f = x
      BY <1>0, <3>1, BothLeaders
    <3> QED BY <3>2 DEF f, x
  <2>5. E.mail[e] = D.mail[e] => v.mail[e] = w.mail[e]
    <3> DEFINE f == v.mail[e]
               x == w.mail[e]
    <3>1. f \in [Leader -> Seq(Notice)] /\ x \in [Leader -> Seq(Notice)]
      BY <2>1
    <3>2. E.mail[e] = D.mail[e] => f[l] = x[l] /\ f[o] = x[o]
      BY <2>3
    <3> HIDE DEF f, x
    <3>3. f[l] = x[l] /\ f[o] = x[o] => f = x
      BY <1>0, <3>1, BothLeaders
    <3>4. E.mail[e] = D.mail[e] => f = x
      BY <3>2, <3>3
    <3> QED BY <3>4 DEF f, x
  <2> QED BY <2>4, <2>5
<1> QED
  BY <1>1, <1>3, <1>4 DEF v, w, o, Turned, GoneOn

LEMMA GoOnBeside ==
  ASSUME TwoLeaders, NEW l \in Leader, NEW v, NEW w, World(v), World(w), NEW r \in Seq(Message),
         w.tickets[Other(l)] = v.tickets[Other(l)],
         w.net[l][Other(l)] = v.net[l][Other(l)] \o r, w.net[Other(l)][l] = v.net[Other(l)][l],
         NEW c \in Client, Lacks(r, Apart(c)),
         \A e \in Client \ {c} : /\ w.net[e] = v.net[e] /\ w.mail[e] = v.mail[e]
                                 /\ Entry(w.tickets[l], e) = Entry(v.tickets[l], e)
  PROVE  Beside(c, v, w) /\ \A k \in Leader : DropsLead(k, c, v, w)
<1> DEFINE o == Other(l)
<1>0. o \in Leader /\ o # l /\ Other(o) = l /\ Leader = {l, o} /\ l \in Node /\ o \in Node
  BY OtherLeader DEF Node
<1>1. v.net[l][o] \in Seq(Message) /\ v.net[o][l] \in Seq(Message)
  BY <1>0 DEF World
<1>2. SameOrder(w.net[l][o], v.net[l][o], Apart(c)) /\ SameOrder(w.net[o][l], v.net[o][l], Apart(c))
  BY <1>1, JoinOrder, OrderTransitive
<1> HIDE DEF o
<1>3. \A k \in Leader : SameOrder(w.net[k][Other(k)], v.net[k][Other(k)], Apart(c))
  BY <1>0, <1>2 DEF o
<1>4. \A e \in Client \ {c}, k \in Leader : Entry(w.tickets[k], e) = Entry(v.tickets[k], e)
  BY <1>0 DEF o
<1>5. Beside(c, v, w)
  BY <1>3, <1>4 DEF Beside, Same
<1>6. ASSUME NEW B \in SUBSET Apart(c)
      PROVE  /\ Led(v.net[l][o], Drops(c), B) => Led(w.net[l][o], Drops(c), B)
             /\ Led(v.net[o][l], Drops(c), B) => Led(w.net[o][l], Drops(c), B)
  <2>1. Lacks(r, B)
    BY DEF Lacks
  <2>2. w.net[l][o] = v.net[l][o] \o r /\ w.net[o][l] = v.net[o][l]
    BY DEF o
  <2> QED BY <1>1, <2>1, <2>2, LedJoin
<1>7. \A k \in Leader : DropsLead(k, c, v, w)
  BY <1>0, <1>6 DEF DropsLead, o
<1> QED
  BY <1>5, <1>7

-----------------------------------------------------------------------------
(* A message of a request is read, and the next one is sent.               *)

\* No message of the request of c is on its way in q, or anywhere.
Free(q, c) == Lacks(q, Of(c, Steps))
Quiet(c, w) ==
  /\ \A l \in Leader : w.net[c][l] = <<>> /\ w.mail[c][l] = <<>>
  /\ \A l \in Leader : Free(w.net[l][Other(l)], c)

LEMMA FreeBears ==
  ASSUME NEW q, NEW c
  PROVE  (\A T : Free(q, c) /\ T \subseteq Steps => Bears(q, c, T)) /\ (Bears(q, c, {}) => Free(q, c))
<1>1. \A T : T \subseteq Steps => Of(c, T) \subseteq Of(c, Steps) /\ Of(c, Steps \ T) \subseteq Of(c, Steps)
  BY DEF Of
<1>2. ASSUME NEW T, Free(q, c), T \subseteq Steps PROVE Bears(q, c, T)
  <2>1. Lacks(q, Of(c, T)) /\ Lacks(q, Of(c, Steps \ T))
    BY <1>1, <1>2 DEF Free, Lacks
  <2> QED BY <2>1 DEF Bears, Once, Lacks
<1>3. Bears(q, c, {}) => Free(q, c)
  <2>1. Steps \ {} = Steps
    OBVIOUS
  <2> QED BY <2>1 DEF Bears, Free
<1> QED
  BY <1>2, <1>3

LEMMA BearsRead ==
  ASSUME NEW q \in Seq(Message), q # <<>>, NEW c, NEW T, T \subseteq Steps, Bears(q, c, T)
  PROVE  /\ Bears(Tail(q), c, T)
         /\ Head(q) \in Of(c, Steps) => Head(q).type \in T /\ Free(Tail(q), c)
<1>1. /\ Lacks(Tail(q), Of(c, Steps \ T)) /\ Head(q) \notin Of(c, Steps \ T)
      /\ Once(Tail(q), Of(c, T)) /\ (Head(q) \in Of(c, T) => Lacks(Tail(q), Of(c, T)))
  BY LacksTail, OnceRead DEF Bears
<1>2. ASSUME Head(q) \in Of(c, Steps) PROVE Head(q).type \in T /\ Free(Tail(q), c)
  <2>1. Head(q).type \in T /\ Head(q) \in Of(c, T)
    BY <1>1, <1>2 DEF Of
  <2>2. Lacks(Tail(q), Of(c, T)) /\ Lacks(Tail(q), Of(c, Steps \ T))
    BY <1>1, <2>1
  <2>3. Of(c, Steps) \subseteq Of(c, T) \cup Of(c, Steps \ T)
    BY DEF Of
  <2> QED BY <2>1, <2>2, <2>3, LacksLess DEF Free
<1> QED
  BY <1>1, <1>2 DEF Bears

LEMMA BearsJoin ==
  ASSUME NEW q \in Seq(Message), NEW r \in Seq(Message), NEW c, Free(r, c)
  PROVE  /\ \A T : T \subseteq Steps /\ Bears(q, c, T) => Bears(q \o r, c, T)
         /\ Free(q, c) => Free(q \o r, c)
<1>1. SameOrder(q \o r, q, Of(c, Steps))
  BY JoinOrder DEF Free
<1>2. \A T : T \subseteq Steps => Of(c, T) \in SUBSET Of(c, Steps) /\ Of(c, Steps \ T) \in SUBSET Of(c, Steps)
  BY DEF Of
<1>3. Of(c, Steps) \in SUBSET Of(c, Steps)
  OBVIOUS
<1> QED
  BY <1>1, <1>2, <1>3 DEF SameOrder, Bears, Free

LEMMA BearsSend ==
  ASSUME NEW q \in Seq(Message), NEW c, Free(q, c), NEW ty \in Steps, NEW m \in Of(c, {ty})
  PROVE  Bears(q \o <<m>>, c, {ty})
<1>1. m \in Message /\ m.type = ty
  BY DEF Of
<1>2. Append(q, m) = q \o <<m>> /\ <<m>> \in Seq(Message) /\ \A S : Lacks(<<m>>, S) <=> m \notin S
  BY <1>1, AppendJoin
<1>3. Lacks(q, Of(c, Steps \ {ty})) /\ (ty \in Steps => Lacks(q, Of(c, {ty})))
  BY DEF Free, Lacks, Of
<1>4. Lacks(q \o <<m>>, Of(c, Steps \ {ty}))
  <2>1. m \notin Of(c, Steps \ {ty})
    BY <1>1 DEF Of
  <2>2. Lacks(<<m>>, Of(c, Steps \ {ty}))
    BY <1>2, <2>1
  <2> QED BY <1>2, <1>3, <2>2, LacksConcat
<1>5. Once(Append(q, m), Of(c, {ty}))
  BY <1>1, <1>3, OnceJoin
<1> QED
  BY <1>2, <1>4, <1>5 DEF Bears

\* Only messages that are read are missing.
Less(r, q) ==
  /\ \A S : (Lacks(q, S) => Lacks(r, S)) /\ (Once(q, S) => Once(r, S))
  /\ \A A, B : Ahead(q, A, B) => Ahead(r, A, B)

LEMMA TailLess ==
  ASSUME NEW q \in Seq(Message), NEW r, r = q \/ (q # <<>> /\ r = Tail(q))
  PROVE  Less(r, q)
<1>1. CASE r = q
  BY <1>1 DEF Less
<1>2. CASE q # <<>> /\ r = Tail(q)
  BY <1>2, LacksTail, OnceRead, AheadRead DEF Less
<1> QED
  BY <1>1, <1>2

LEMMA OwnLess ==
  ASSUME TwoLeaders, NEW v, NEW w, NEW c, NEW h \in Leader, NEW st, Own(c, h, st, v), Talks(c, h, st, w),
         \A k \in Leader : /\ Entry(w.tickets[k], c) = Entry(v.tickets[k], c)
                           /\ Less(w.net[k][Other(k)], v.net[k][Other(k)])
                           /\ Left(c, k, w) <=> Left(c, k, v)
  PROVE  Own(c, h, st, w)
<1> DEFINE o == Other(h)
<1>1. o \in Leader /\ Other(o) = h /\ Leader = {h, o}
  BY OtherLeader
<1>2. \A k \in Leader : Less(w.net[Other(k)][k], v.net[Other(k)][k])
  BY OtherLeader
<1>3. Less(w.net[h][o], v.net[h][o]) /\ Less(w.net[o][h], v.net[o][h])
  BY <1>1
<1> HIDE DEF o
<1>4. Moves(c, h, st, w)
  <2>1. Moves(c, h, st, v)
    BY DEF Own
  <2>2. \A l \in Leader : Once(w.net[l][Other(l)], Drops(c))
    BY <2>1 DEF Moves, Less
  <2> QED BY <1>3, <2>1, <2>2 DEF Moves, Bears, Less, o
<1>5. ASSUME NEW l \in Leader, Rid(c, l, v) PROVE Rid(c, l, w)
  BY <1>2, <1>5 DEF Rid, Less
<1>6. Keeps(c, h, st, w)
  <2>1. Keeps(c, h, st, v)
    BY DEF Own
  <2>2. /\ st \in Outside => Rid(c, h, w)
        /\ st \in Outside \cup Opening => Rid(c, o, w)
    BY <1>1, <1>5, <2>1 DEF Keeps, o
  <2>3. /\ Entry(w.tickets[h], c) = Entry(v.tickets[h], c) /\ (Left(c, h, w) <=> Left(c, h, v))
        /\ Entry(w.tickets[o], c) = Entry(v.tickets[o], c) /\ (Left(c, o, w) <=> Left(c, o, v))
    BY <1>1
  <2>4. \A S : Lacks(v.net[h][o], S) => Lacks(w.net[h][o], S)
    BY <1>3 DEF Less
  <2> QED BY <2>1, <2>2, <2>3, <2>4, Zenon DEF Keeps, o
<1>7. InOrder(c, h, st, w)
  <2>1. InOrder(c, h, st, v)
    BY DEF Own
  <2> QED BY <1>3, <2>1, Zenon DEF InOrder, Less, o
<1> QED
  BY <1>4, <1>6, <1>7 DEF Own

LEMMA SureLess ==
  ASSUME TwoLeaders, NEW v, NEW w, NEW c, NEW h \in Leader, NEW st, Sure(c, h, st, v),
         \A k \in Leader : w.tickets[k] = v.tickets[k] /\ Less(w.net[k][Other(k)], v.net[k][Other(k)])
  PROVE  Sure(c, h, st, w)
<1> DEFINE o == Other(h)
<1>1. o \in Leader /\ Other(o) = h /\ Leader = {h, o}
  BY OtherLeader
<1>2. /\ \A S : ~Lacks(w.net[h][o], S) => ~Lacks(v.net[h][o], S)
      /\ \A S : ~Lacks(w.net[o][h], S) => ~Lacks(v.net[o][h], S)
      /\ w.tickets[h] = v.tickets[h] /\ w.tickets[o] = v.tickets[o]
  BY <1>1 DEF Less
<1> HIDE DEF o
<1> QED
  BY <1>2 DEF Sure, o

\* The world when leader l has read the message of s and done nothing yet.
Read(w, s, l, o) ==
  /\ World(w)
  /\ \A k \in Leader : w.tickets[k] = tickets[k]
  /\ w.net[l][o] = net[l][o]
  /\ w.net[o][l] = IF s = o THEN Tail(net[o][l]) ELSE net[o][l]
  /\ \A c \in Client : /\ w.mail[c] = mail[c] /\ (s # c => w.net[c] = net[c])
                       /\ w.net[c][o] = net[c][o] /\ (s = c => w.net[c][l] = Tail(net[c][l]))

LEMMA Reads ==
  ASSUME TwoLeaders, TypeInv, NEW s \in Node, NEW l \in Leader, net[s][l] # <<>>
  PROVE  Read(After(s, l, Here(l)), s, l, Other(l))
<1> DEFINE w == After(s, l, Here(l))
           o == Other(l)
<1>0. /\ o \in Leader /\ o # l /\ Other(o) = l /\ Leader = {l, o}
      /\ l \in Node /\ o \in Node /\ Leader \cap Client = {} /\ Client \subseteq Node
  BY OtherLeader, DisjointAssumption DEF Node
<1>1. Sound(l, Here(l)) /\ Here(l).tickets = tickets[l]
  BY HereSound
<1>2. Here(l).out = [d \in Leader |-> <<>>] /\ Here(l).mail = [c \in Client |-> <<>>]
  BY DEF Here, Start
<1>3. Turned(w, s, l, o, Here(l))
  BY <1>1, Turn
<1> HIDE DEF w, o
<1>4. net \in [Node -> [Leader -> Seq(Message)]] /\ mail \in [Client -> [Leader -> Seq(Notice)]]
  BY DEF TypeInv, TypeOK
<1>5. \A n \in Node, d \in Leader : net[n][d] \in Seq(Message) /\ net[n][d] \o <<>> = net[n][d]
  BY <1>4, ConcatEmptySeq
<1>6. \A c \in Client, d \in Leader : mail[c][d] \in Seq(Notice) /\ mail[c][d] \o <<>> = mail[c][d]
  BY <1>4, ConcatEmptySeq
<1>7. w.net[l][o] = net[l][o]
  BY <1>0, <1>2, <1>3, <1>5 DEF Turned
<1>8. ASSUME NEW c \in Client PROVE w.mail[c] = mail[c] /\ (s # c => w.net[c] = net[c])
  <2>1. w.mail[c][l] = mail[c][l] /\ w.mail[c][o] = mail[c][o]
    <3>1. Here(l).mail[c] = <<>>
      BY <1>2
    <3>2. w.mail[c][l] = mail[c][l] \o <<>> /\ w.mail[c][o] = mail[c][o]
      BY <1>3, <3>1 DEF Turned
    <3> QED BY <1>6, <3>2
  <2>2. w.mail[c] \in [Leader -> Seq(Notice)] /\ mail[c] \in [Leader -> Seq(Notice)]
    BY <1>3, <1>4 DEF Turned, World
  <2>3. w.net[c] \in [Leader -> Seq(Message)] /\ net[c] \in [Leader -> Seq(Message)]
    BY <1>0, <1>3, <1>4 DEF Turned, World
  <2>4. s # c => w.net[c][l] = net[c][l] /\ w.net[c][o] = net[c][o]
    BY <1>3 DEF Turned
  <2>5. w.mail[c] = mail[c]
    BY <1>0, <2>1, <2>2, BothLeaders
  <2>6. s # c => w.net[c] = net[c]
    BY <1>0, <2>3, <2>4, BothLeaders
  <2> QED BY <2>5, <2>6
<1>9. \A k \in Leader : w.tickets[k] = tickets[k]
  BY <1>0, <1>1, <1>3 DEF Turned
<1> QED
  BY <1>3, <1>7, <1>8, <1>9 DEF Turned, Read, w, o


\* Who sends what: the message m about c, from s to l.
Sent(m, c, s, l, home, g) ==
  /\ m \in Message /\ c \in Client /\ m.key.client = c
  /\ m \notin Apart(c) /\ m \in Of(c, {m.type})
  /\ s \in Client => /\ s = c /\ m.type = g[c] /\ m.type \in Asks
                     /\ m.type # "UNLOCK" => l = home[c]
  /\ s \notin Client =>
       /\ s = Other(l)
       /\ m.type \in Steps =>
            /\ m.type = g[c]
            /\ \/ m.type \in Down /\ s = home[c] /\ l = Other(home[c])
               \/ m.type \in Up /\ l = home[c] /\ s = Other(home[c])

LEMMA Token ==
  ASSUME TwoLeaders, TypeInv, NEW home, NEW g, Core(home, g, Now),
         NEW s \in Node, NEW l \in Leader, net[s][l] # <<>>
  PROVE  /\ Sent(Head(net[s][l]), Head(net[s][l]).key.client, s, l, home, g)
         /\ s \in Client => Tail(net[s][l]) = <<>> /\ net[s][Other(l)] = <<>>
<1> DEFINE m == Head(net[s][l])
           c == m.key.client
<1>1. m \in Message /\ net[s][l] \in Seq(Message)
  <2>1. net[s][l] \in Seq(Message)
    BY DEF TypeInv, TypeOK
  <2> QED BY <2>1, HeadTailProperties
<1>2. c \in Client /\ m \in Of(c, {m.type}) /\ m \notin Apart(c)
  BY <1>1 DEF Message, Key, Of, Apart
<1>3. s \in Leader \/ s \in Client
  BY DEF Node
<1>4. ASSUME s \in Client
      PROVE  /\ s = c /\ m.type = g[s] /\ m.type \in Asks
             /\ m.type # "UNLOCK" => l = home[s]
             /\ Tail(net[s][l]) = <<>> /\ net[s][Other(l)] = <<>>
  <2>1. Talks(s, home[s], g[s], Now)
    BY <1>4 DEF Core, Own
  <2>2. g[s] \in Asks
    BY <2>1 DEF Talks, Now
  <2>3. PICK k \in Leader : (g[s] # "UNLOCK" => k = home[s]) /\ OneAt(net[s], k, Of(s, {g[s]}))
    BY <2>1 DEF Talks, Now
  <2>4. k = l /\ m \in Of(s, {g[s]}) /\ Tail(net[s][l]) = <<>>
    BY <2>3 DEF OneAt
  <2>5. net[s][Other(l)] = <<>>
    BY <2>3, <2>4, OtherLeader DEF OneAt
  <2> QED BY <2>2, <2>3, <2>4, <2>5 DEF Of
<1>5. ASSUME s \notin Client PROVE s = Other(l)
  <2>1. s \in Leader /\ s # l
    BY <1>3, <1>5 DEF TypeInv, NoEcho
  <2> QED BY <2>1, OtherLeader
<1>6. ASSUME s \notin Client, m.type \in Steps
      PROVE  /\ m.type = g[c]
             /\ \/ m.type \in Down /\ s = home[c] /\ l = Other(home[c])
                \/ m.type \in Up /\ l = home[c] /\ s = Other(home[c])
  <2>1. Moves(c, home[c], g[c], Now) /\ home[c] \in Leader
    BY <1>2 DEF Core, Own
  <2>2. m \in Of(c, Steps)
    BY <1>6, <1>2 DEF Of
  <2>3. s = Other(l)
    BY <1>5, <1>6
  <2> HIDE DEF c
  <2>6. /\ Bears(net[home[c]][Other(home[c])], c, Down \cap {g[c]})
        /\ Bears(net[Other(home[c])][home[c]], c, Up \cap {g[c]})
    BY <2>1 DEF Moves, Now
  <2>7. s = home[c] \/ l = home[c]
    BY <2>1, <2>3, OtherLeader
  <2>4. CASE s = home[c]
    <3>1. l = Other(home[c])
      BY <2>3, <2>4, OtherLeader
    <3>2. Bears(net[s][l], c, Down \cap {g[c]})
      BY <2>4, <2>6, <3>1
    <3>3. Down \cap {g[c]} \subseteq Steps
      BY DEF Steps
    <3>4. m.type \in Down \cap {g[c]}
      BY <1>1, <2>2, <3>2, <3>3, BearsRead
    <3> QED BY <2>4, <3>1, <3>4
  <2>5. CASE l = home[c]
    <3>2. Bears(net[s][l], c, Up \cap {g[c]})
      BY <2>3, <2>5, <2>6
    <3>3. Up \cap {g[c]} \subseteq Steps
      BY DEF Steps
    <3>4. m.type \in Up \cap {g[c]}
      BY <1>1, <2>2, <3>2, <3>3, BearsRead
    <3> QED BY <2>3, <2>5, <3>4
  <2> QED BY <2>4, <2>5, <2>7
<1> QED
  BY <1>1, <1>2, <1>4, <1>5, <1>6 DEF Sent

\* Reading a message of a request silences it.
LEMMA ReadQuiet ==
  ASSUME TwoLeaders, TypeInv, NEW home, NEW g, Core(home, g, Now),
         NEW s \in Node, NEW l \in Leader, net[s][l] # <<>>, Head(net[s][l]).type \in Steps,
         NEW w, Read(w, s, l, Other(l)), NEW c, Head(net[s][l]).key.client = c
  PROVE  Quiet(c, w)
<1> DEFINE m == Head(net[s][l])
           o == Other(l)
           h == home[c]
           st == g[c]
<1>0. /\ o \in Leader /\ o # l /\ Other(o) = l /\ Leader = {l, o}
      /\ Leader \cap Client = {}
  BY OtherLeader, DisjointAssumption
<1>1. /\ m \in Message /\ c \in Client /\ m \in Of(c, {m.type})
      /\ s \in Client => /\ s = c /\ m.type = g[s] /\ m.type \in Asks
                         /\ Tail(net[s][l]) = <<>> /\ net[s][o] = <<>>
      /\ s \notin Client => s = o /\ m.type = g[c]
      /\ s \notin Client => (m.type \in Down /\ s = home[c]) \/ (m.type \in Up /\ l = home[c])
  <2>1. Sent(m, m.key.client, s, l, home, g) /\ (s \in Client => Tail(net[s][l]) = <<>> /\ net[s][o] = <<>>)
    BY Token
  <2>2. m.key.client = c
    OBVIOUS
  <2> HIDE DEF m, o
  <2>3. Sent(m, c, s, l, home, g)
    BY <2>1, <2>2
  <2>4. m.type \in Steps
    BY DEF m
  <2> QED BY <2>1, <2>3, <2>4 DEF Sent, o
<1>2. st = m.type /\ m \in Of(c, Steps)
  BY <1>1 DEF Of
<1>3. Talks(c, h, st, Now) /\ Moves(c, h, st, Now) /\ h \in Leader
  BY <1>1 DEF Core, Own
<1>4. /\ \A n \in Node, k \in Leader : net[n][k] \in Seq(Message)
      /\ l \in Node /\ o \in Node
  BY <1>0 DEF TypeInv, TypeOK, Node
<1> HIDE DEF o
<1>5. /\ \A k \in Leader : w.net[c][k] = <<>> /\ w.mail[c][k] = <<>>
  <2>1. st \notin Says
    BY <1>1, <1>2 DEF Asks, Says, Down, Up
  <2>2. \A k \in Leader : mail[c][k] = <<>>
    BY <1>3, <2>1 DEF Talks, Now
  <2>3. CASE s \in Client
    <3>1. w.net[c][l] = <<>> /\ w.net[c][o] = <<>> /\ \A k \in Leader : w.mail[c][k] = <<>>
      BY <1>1, <2>2, <2>3 DEF Read, o
    <3> QED BY <1>0, <3>1
  <2>4. CASE s \notin Client
    <3>1. st \notin Asks
      BY <1>1, <1>2, <2>4 DEF Asks, Down, Up
    <3>2. \A k \in Leader : net[c][k] = <<>>
      BY <1>3, <3>1 DEF Talks, Now
    <3> QED BY <1>1, <2>2, <2>4, <3>2 DEF Read
  <2> QED BY <2>3, <2>4
<1>6. Free(w.net[l][o], c) /\ Free(w.net[o][l], c)
  <2>0. w.net[l][o] = net[l][o] /\ w.net[o][l] = IF s = o THEN Tail(net[o][l]) ELSE net[o][l]
    BY DEF Read, o
  <2>1. CASE s \in Client
    <3>1. Down \cap {st} = {} /\ Up \cap {st} = {}
      BY <1>1, <1>2, <2>1 DEF Asks, Down, Up
    <3>2. Bears(net[h][Other(h)], c, {}) /\ Bears(net[Other(h)][h], c, {})
      BY <1>3, <3>1 DEF Moves, Now
    <3>3. Free(net[h][Other(h)], c) /\ Free(net[Other(h)][h], c)
      BY <3>2, FreeBears
    <3>4. Free(net[l][o], c) /\ Free(net[o][l], c)
      BY <1>0, <1>3, <3>3 DEF o
    <3>5. s # o
      BY <1>0, <2>1
    <3> QED BY <2>0, <3>4, <3>5
  <2>2. CASE s \notin Client /\ m.type \in Down /\ s = home[c]
    <3>1. h = o /\ Other(h) = l /\ Up \cap {st} = {} /\ Down \cap {st} \subseteq Steps
      BY <1>0, <1>1, <1>2, <2>2 DEF Down, Up, Steps, o
    <3>2. Bears(net[o][l], c, Down \cap {st}) /\ Bears(net[l][o], c, {})
      BY <1>3, <3>1 DEF Moves, Now
    <3>3. Free(Tail(net[o][l]), c)
      BY <1>0, <1>1, <1>2, <1>4, <2>2, <3>1, <3>2, BearsRead
    <3>4. Free(net[l][o], c)
      BY <3>2, FreeBears
    <3> QED BY <1>1, <2>0, <2>2, <3>3, <3>4
  <2>3. CASE s \notin Client /\ m.type \in Up /\ l = home[c]
    <3>1. h = l /\ Down \cap {st} = {} /\ Up \cap {st} \subseteq Steps
      BY <1>0, <1>1, <1>2, <2>3 DEF Down, Up, Steps, o
    <3>2. Bears(net[o][l], c, Up \cap {st}) /\ Bears(net[l][o], c, {})
      BY <1>3, <3>1 DEF Moves, Now, o
    <3>3. Free(Tail(net[o][l]), c)
      BY <1>0, <1>1, <1>2, <1>4, <2>3, <3>1, <3>2, BearsRead
    <3>4. Free(net[l][o], c)
      BY <3>2, FreeBears
    <3> QED BY <1>1, <2>0, <2>3, <3>3, <3>4
  <2> QED BY <1>1, <2>1, <2>2, <2>3
<1>7. \A k \in Leader : Free(w.net[k][Other(k)], c)
  BY <1>0, <1>6 DEF o
<1> QED
  BY <1>5, <1>7 DEF Quiet


\* Reading alone changes nothing for anybody, unless a DROP_TICKET or a LOCK_EXITING is read.
LEMMA ReadCore ==
  ASSUME TwoLeaders, TypeInv, NEW home, NEW g, Core(home, g, Now),
         NEW s \in Node, NEW l \in Leader, net[s][l] # <<>>, Head(net[s][l]).type # "DROP_TICKET",
         NEW w, Read(w, s, l, Other(l))
  PROVE  /\ Core(home, g, w)
         /\ \A e \in Client :
              Quits(e, home[e], g[e], Now) /\ Head(net[s][l]) \notin Of(e, {"LOCK_EXITING"})
                => Quits(e, home[e], g[e], w)
<1> DEFINE m == Head(net[s][l])
           o == Other(l)
<1>0. /\ o \in Leader /\ o # l /\ Other(o) = l /\ Leader = {l, o} /\ l \in Node /\ o \in Node
      /\ Leader \cap Client = {}
  BY OtherLeader, DisjointAssumption DEF Node
<1>1. /\ \A n \in Node, k \in Leader : net[n][k] \in Seq(Message)
      /\ \A k \in Leader : Now.tickets[k] = tickets[k] /\ w.tickets[k] = tickets[k]
      /\ Now.net = net
  BY DEF TypeInv, TypeOK, Now, Read
<1>2. /\ \A e \in Client : m \notin Drops(e)
      /\ s \in Client => Tail(net[s][l]) = <<>> /\ net[s][o] = <<>>
  BY Token DEF Drops, Of
<1> HIDE DEF o
<1>3. /\ w.net[l][o] = net[l][o]
      /\ w.net[o][l] = net[o][l] \/ (s = o /\ net[o][l] # <<>> /\ Head(net[o][l]) = m /\ w.net[o][l] = Tail(net[o][l]))
  BY DEF Read, o
<1> HIDE DEF m
<1>4. \A k \in Leader : Less(w.net[k][Other(k)], net[k][Other(k)])
  <2>1. net[l][o] \in Seq(Message) /\ net[o][l] \in Seq(Message)
    BY <1>0, <1>1
  <2>2. Less(w.net[l][o], net[l][o]) /\ Less(w.net[o][l], net[o][l])
    BY <1>3, <2>1, TailLess
  <2> QED BY <1>0, <2>2 DEF o
<1>5. ASSUME NEW S, m \notin S
      PROVE  \A k \in Leader : Lacks(w.net[k][Other(k)], S) <=> Lacks(net[k][Other(k)], S)
  <2>1. net[o][l] \in Seq(Message)
    BY <1>0, <1>1
  <2>2. Lacks(w.net[o][l], S) <=> Lacks(net[o][l], S)
    BY <1>3, <1>5, <2>1, LacksTail
  <2> QED BY <1>0, <1>3, <2>2 DEF o
<1>6. ASSUME NEW A, m \notin A, NEW B, NEW h \in Leader, NEW k \in Leader, h # k, Led(net[h][k], A, B)
      PROVE  Led(w.net[h][k], A, B)
  <2>1. net[o][l] \in Seq(Message)
    BY <1>0, <1>1
  <2>2. CASE h = l /\ k = o
    BY <1>3, <1>6, <2>2
  <2>3. CASE h = o /\ k = l
    BY <1>3, <1>6, <2>1, <2>3, LedRead
  <2> QED BY <1>0, <1>6, <2>2, <2>3
<1>7. ASSUME NEW e \in Client
      PROVE  /\ Own(e, home[e], g[e], w) /\ Waits(e, home, g, w) /\ Sure(e, home[e], g[e], w)
             /\ Quits(e, home[e], g[e], Now) /\ m \notin Of(e, {"LOCK_EXITING"})
                  => Quits(e, home[e], g[e], w)
  <2>1. /\ Own(e, home[e], g[e], Now) /\ Waits(e, home, g, Now) /\ Sure(e, home[e], g[e], Now)
        /\ home[e] \in Leader /\ Other(home[e]) \in Leader
    BY OtherLeader DEF Core
  <2>2. Talks(e, home[e], g[e], w)
    <3>1. Talks(e, home[e], g[e], Now) /\ w.mail[e] = mail[e] /\ Now.net = net /\ Now.mail = mail
      BY <2>1 DEF Own, Read, Now
    <3>2. CASE s # e
      <4>1. w.net[e] = net[e]
        BY <3>2 DEF Read
      <4> QED BY <3>1, <4>1 DEF Talks
    <3>3. CASE s = e
      <4>1. w.net[e][l] = <<>> /\ w.net[e][o] = <<>>
        BY <1>2, <3>3 DEF Read, o
      <4>2. \A k \in Leader : w.net[e][k] = <<>>
        BY <1>0, <4>1
      <4>3. OneAt(w.net[e], home[e], Of(e, {g[e]}))
        BY <2>1, <4>2 DEF OneAt
      <4> QED BY <2>1, <3>1, <4>2, <4>3 DEF Talks
    <3> QED BY <3>2, <3>3
  <2>3. \A k \in Leader : Left(e, k, w) <=> Left(e, k, Now)
    BY <1>1, <1>2, <1>5, OtherLeader DEF Left
  <2>4. Own(e, home[e], g[e], w)
    BY <1>1, <1>4, <2>1, <2>2, <2>3, OwnLess DEF Entry
  <2>5. Sure(e, home[e], g[e], w)
    BY <1>1, <1>4, <2>1, SureLess
  <2>6. Waits(e, home, g, w)
    <3> SUFFICES ASSUME NEW k \in Leader, NEW t \in Entry(w.tickets[k], e), t.owner = k, t.quorum
                 PROVE  Queued(t, k, home, g, w)
      BY DEF Waits
    <3>1. Queued(t, k, home, g, Now) /\ t.client = e
      BY <1>1, <2>1 DEF Waits, Entry
    <3>2. ASSUME NEW d \in Client, Later(t, k, d, home[d], g[d], Now)
          PROVE  Later(t, k, d, home[d], g[d], w)
      <4>1. home[d] \in Leader /\ w.tickets[home[d]] = Now.tickets[home[d]]
        BY <1>1 DEF Core
      <4>2. m \notin Drops(t.client)
        BY <1>2, <3>1
      <4>3. home[d] # k /\ Led(net[home[d]][k], Drops(t.client), Of(d, {g[d]}))
              => Led(w.net[home[d]][k], Drops(t.client), Of(d, {g[d]}))
        BY <1>6, <4>1, <4>2
      <4> QED BY <1>1, <3>2, <4>1, <4>3 DEF Later
    <3>3. \A j \in Leader : w.tickets[j] = Now.tickets[j]
      BY <1>1
    <3> QED BY <3>1, <3>2, <3>3 DEF Queued
  <2>7. Quits(e, home[e], g[e], Now) /\ m \notin Of(e, {"LOCK_EXITING"}) => Quits(e, home[e], g[e], w)
    BY <1>1, <1>5, <2>1 DEF Quits
  <2> QED BY <2>4, <2>5, <2>6, <2>7
<1> QED
  BY <1>7 DEF Core, m


-----------------------------------------------------------------------------
(* A leader acts.                                                          *)

\* Leader l does something about client c alone, and sends r.
Acts(l, c, r, v, w) ==
  /\ World(v) /\ World(w) /\ r \in Seq(Message) /\ Lacks(r, Apart(c))
  /\ w.tickets[Other(l)] = v.tickets[Other(l)]
  /\ w.net[l][Other(l)] = v.net[l][Other(l)] \o r /\ w.net[Other(l)][l] = v.net[Other(l)][l]
  /\ \A e \in Client : w.net[e] = v.net[e]
  /\ \A e \in Client \ {c} : w.mail[e] = v.mail[e] /\ Entry(w.tickets[l], e) = Entry(v.tickets[l], e)

LEMMA ActsBeside ==
  ASSUME TwoLeaders, NEW l \in Leader, NEW c \in Client, NEW r, NEW v, NEW w, Acts(l, c, r, v, w)
  PROVE  /\ Beside(c, v, w) /\ \A k \in Leader : DropsLead(k, c, v, w)
         /\ World(v) /\ World(w)
         /\ v.net[l][Other(l)] \in Seq(Message) /\ v.net[Other(l)][l] \in Seq(Message)
<1>1. l \in Node /\ Other(l) \in Node /\ Other(l) \in Leader
  BY OtherLeader DEF Node
<1>2. v.net[l][Other(l)] \in Seq(Message) /\ v.net[Other(l)][l] \in Seq(Message)
  BY <1>1 DEF Acts, World
<1>3. Beside(c, v, w) /\ \A k \in Leader : DropsLead(k, c, v, w)
  BY GoOnBeside DEF Acts
<1> QED
  BY <1>2, <1>3 DEF Acts

\* From the context D to the context E of one handler.
Acted(v, w, l, c, r, D, E) ==
  /\ Acts(l, c, r, v, w)
  /\ v.tickets[l] = D.tickets /\ w.tickets[l] = E.tickets
  /\ E.mail[c] = D.mail[c] => w.mail[c] = v.mail[c]
  /\ \A n \in Notice : E.mail[c] = Append(D.mail[c], n) =>
       w.mail[c][l] = Append(v.mail[c][l], n) /\ w.mail[c][Other(l)] = v.mail[c][Other(l)]

LEMMA Acting ==
  ASSUME TwoLeaders, TypeInv, NEW s \in Node, NEW l \in Leader, net[s][l] # <<>>,
         NEW D, Sound(l, D), NEW E, Sound(l, E), NEW r \in Seq(Message),
         E.out[Other(l)] = D.out[Other(l)] \o r, NEW c \in Client, Lacks(r, Apart(c)),
         \A e \in Client \ {c} : Entry(E.tickets, e) = Entry(D.tickets, e) /\ E.mail[e] = D.mail[e]
  PROVE  Acted(After(s, l, D), After(s, l, E), l, c, r, D, E)
<1> DEFINE v == After(s, l, D)
           w == After(s, l, E)
           o == Other(l)
<1>1. /\ World(v) /\ World(w)
      /\ v.tickets[l] = D.tickets /\ w.tickets[l] = E.tickets /\ w.tickets[o] = v.tickets[o]
      /\ w.net[l][o] = v.net[l][o] \o r /\ w.net[o][l] = v.net[o][l]
      /\ \A e \in Client : w.net[e] = v.net[e] /\ (E.mail[e] = D.mail[e] => w.mail[e] = v.mail[e])
  <2> HIDE DEF v, w, o
  <2>1. GoneOn(v, w, l, o, r, D, E)
    BY GoOn DEF v, w, o
  <2> QED BY <2>1 DEF GoneOn
<1>2. Turned(v, s, l, o, D) /\ Turned(w, s, l, o, E)
  BY Turn
<1>3. mail[c][l] \in Seq(Notice) /\ D.mail[c] \in Seq(Notice)
  BY DEF TypeInv, TypeOK, Sound, Context
<1> HIDE DEF v, w, o
<1>4. Acts(l, c, r, v, w)
  BY <1>1 DEF Acts, o
<1>5. ASSUME NEW n \in Notice, E.mail[c] = Append(D.mail[c], n)
      PROVE  w.mail[c][l] = Append(v.mail[c][l], n) /\ w.mail[c][o] = v.mail[c][o]
  <2>1. /\ w.mail[c][l] = mail[c][l] \o Append(D.mail[c], n) /\ v.mail[c][l] = mail[c][l] \o D.mail[c]
        /\ w.mail[c][o] = v.mail[c][o]
    BY <1>2, <1>5 DEF Turned
  <2>2. mail[c][l] \o Append(D.mail[c], n) = Append(mail[c][l] \o D.mail[c], n)
    <3>1. \A x, y \in Seq(Notice), z \in Notice : x \o Append(y, z) = Append(x \o y, z)
      OBVIOUS
    <3> QED BY <1>3, <3>1
  <2> QED BY <2>1, <2>2
<1> QED
  BY <1>1, <1>4, <1>5 DEF v, w, o, Acted

LEMMA TalksSilent ==
  ASSUME NEW c, NEW v, Quiet(c, v), NEW w, w.net[c] = v.net[c], w.mail[c] = v.mail[c],
         NEW h \in Leader, NEW st
  PROVE  Talks(c, h, st, w)
<1>1. \A l \in Leader : w.net[c][l] = <<>> /\ w.mail[c][l] = <<>>
  BY DEF Quiet
<1>2. \A S : OneAt(w.net[c], h, S) /\ OneAt(w.mail[c], h, S)
  BY <1>1 DEF OneAt
<1> QED
  BY <1>1, <1>2 DEF Talks

LEMMA TalksTold ==
  ASSUME TwoLeaders, NEW c, NEW v, NEW w, w.net[c] = v.net[c],
         \A k \in Leader : v.net[c][k] = <<>> /\ v.mail[c][k] = <<>>,
         NEW l \in Leader, NEW n \in Notice, w.mail[c][l] = Append(v.mail[c][l], n),
         w.mail[c][Other(l)] = v.mail[c][Other(l)],
         NEW h \in Leader, NEW st \in Says, n.type = st, st # "UNLOCKED" => l = h
  PROVE  Talks(c, h, st, w)
<1>1. \A k \in Leader : w.net[c][k] = <<>>
  OBVIOUS
<1>2. OneAt(w.net[c], h, Of(c, {st}))
  BY <1>1 DEF OneAt
<1>3. w.mail[c][l] = <<n>> /\ w.mail[c][Other(l)] = <<>>
  <2>1. v.mail[c][l] = <<>> /\ v.mail[c][Other(l)] = <<>>
    BY OtherLeader
  <2> QED BY <2>1
<1>4. OneAt(w.mail[c], l, {x \in Notice : x.type = st})
  <2>1. \A k \in Leader \ {l} : w.mail[c][k] = <<>>
    BY <1>3, OtherLeader
  <2> QED BY <1>3, <2>1 DEF OneAt
<1> QED
  BY <1>1, <1>2, <1>4 DEF Talks

LEMMA ActsDrops ==
  ASSUME TwoLeaders, NEW l \in Leader, NEW c \in Client, NEW r, NEW v, NEW w, Acts(l, c, r, v, w),
         Lacks(r, Drops(c))
  PROVE  \A k \in Leader :
           /\ Left(c, k, w) <=> Left(c, k, v)
           /\ Entry(w.tickets[k], c) = Entry(v.tickets[k], c) /\ Rid(c, k, v) => Rid(c, k, w)
           /\ Once(v.net[k][Other(k)], Drops(c)) => Once(w.net[k][Other(k)], Drops(c))
<1> DEFINE o == Other(l)
<1>0. /\ o \in Leader /\ o # l /\ Other(o) = l /\ Leader = {l, o}
      /\ v.net[l][o] \in Seq(Message) /\ v.net[o][l] \in Seq(Message) /\ r \in Seq(Message)
      /\ w.net[l][o] = v.net[l][o] \o r /\ w.net[o][l] = v.net[o][l]
  BY OtherLeader, ActsBeside DEF Acts
<1> HIDE DEF o
<1>1. SameOrder(w.net[l][o], v.net[l][o], Drops(c)) /\ SameOrder(w.net[o][l], v.net[o][l], Drops(c))
  BY <1>0, JoinOrder, OrderTransitive
<1>2. \A k \in Leader : SameOrder(w.net[k][Other(k)], v.net[k][Other(k)], Drops(c))
  BY <1>0, <1>1 DEF o
<1>3. \A k \in Leader : SameOrder(w.net[Other(k)][k], v.net[Other(k)][k], Drops(c))
  BY <1>2, OtherLeader
<1>4. Drops(c) \in SUBSET Drops(c) /\ \A K : {m \in Drops(c) : m.key # K} \in SUBSET Drops(c)
  OBVIOUS
<1> QED
  BY <1>2, <1>3, <1>4 DEF SameOrder, Left, Rid

LEMMA MovesQuiet ==
  ASSUME TwoLeaders, NEW l \in Leader, NEW c \in Client, NEW r, NEW v, NEW w, Acts(l, c, r, v, w),
         Quiet(c, v), Free(r, c), \A k \in Leader : Once(w.net[k][Other(k)], Drops(c)),
         NEW h \in Leader, NEW st
  PROVE  Moves(c, h, st, w) /\ Free(w.net[h][Other(h)], c) /\ Free(w.net[Other(h)][h], c)
<1> DEFINE o == Other(l)
<1>0. /\ o \in Leader /\ o # l /\ Other(o) = l /\ Leader = {l, o}
      /\ v.net[l][o] \in Seq(Message) /\ v.net[o][l] \in Seq(Message) /\ r \in Seq(Message)
      /\ w.net[l][o] = v.net[l][o] \o r /\ w.net[o][l] = v.net[o][l]
  BY OtherLeader, ActsBeside DEF Acts
<1>1. Free(v.net[l][o], c) /\ Free(v.net[o][l], c)
  BY <1>0 DEF Quiet
<1> HIDE DEF o
<1>2. Free(w.net[l][o], c) /\ Free(w.net[o][l], c)
  BY <1>0, <1>1, BearsJoin
<1>3. Free(w.net[h][Other(h)], c) /\ Free(w.net[Other(h)][h], c)
  BY <1>0, <1>2 DEF o
<1>4. Down \cap {st} \subseteq Steps /\ Up \cap {st} \subseteq Steps
  BY DEF Steps
<1>5. Bears(w.net[h][Other(h)], c, Down \cap {st}) /\ Bears(w.net[Other(h)][h], c, Up \cap {st})
  BY <1>3, <1>4, FreeBears
<1> QED
  BY <1>3, <1>5 DEF Moves

LEMMA MovesSend ==
  ASSUME TwoLeaders, NEW l \in Leader, NEW c \in Client, NEW v, NEW w,
         NEW st, NEW m \in Of(c, {st}), Acts(l, c, <<m>>, v, w),
         Quiet(c, v), \A k \in Leader : Once(w.net[k][Other(k)], Drops(c)),
         NEW h \in Leader, (l = h /\ st \in Down) \/ (l = Other(h) /\ st \in Up)
  PROVE  Moves(c, h, st, w)
<1> DEFINE o == Other(l)
<1>0. /\ o \in Leader /\ o # l /\ Other(o) = l /\ Leader = {l, o}
      /\ v.net[l][o] \in Seq(Message) /\ v.net[o][l] \in Seq(Message)
      /\ w.net[l][o] = v.net[l][o] \o <<m>> /\ w.net[o][l] = v.net[o][l]
  BY OtherLeader, ActsBeside DEF Acts
<1>1. Free(v.net[l][o], c) /\ Free(v.net[o][l], c)
  BY <1>0 DEF Quiet
<1> HIDE DEF o
<1>2. st \in Steps
  BY DEF Steps
<1>3. Bears(w.net[l][o], c, {st}) /\ Bears(w.net[o][l], c, {})
  <2>1. Bears(v.net[l][o] \o <<m>>, c, {st})
    BY <1>0, <1>1, <1>2, BearsSend
  <2>2. Bears(v.net[o][l], c, {})
    BY <1>1, FreeBears
  <2> QED BY <1>0, <2>1, <2>2
<1>4. CASE l = h /\ st \in Down
  <2>1. Down \cap {st} = {st} /\ Up \cap {st} = {}
    BY <1>4 DEF Down, Up
  <2> QED BY <1>0, <1>3, <1>4, <2>1 DEF Moves, o
<1>5. CASE l = Other(h) /\ st \in Up
  <2>1. Up \cap {st} = {st} /\ Down \cap {st} = {}
    BY <1>5 DEF Down, Up
  <2>2. h = o
    BY <1>5, OtherLeader DEF o
  <2> QED BY <1>0, <1>3, <1>5, <2>1, <2>2 DEF Moves, o
<1> QED
  BY <1>4, <1>5


\* What a step of client c owes the tickets that wait.
Courteous(c, home, g, v, w) ==
  \A l \in Leader : \A t \in v.tickets[l] :
    t.client # c /\ t.owner = l /\ t.quorum => Yields(t, l, c, home[c], g[c], v, w)

LEMMA Onward ==
  ASSUME TwoLeaders, NEW l \in Leader, NEW c \in Client, NEW r, NEW v, NEW w, Acts(l, c, r, v, w),
         NEW home, NEW g, NEW home2, NEW g2, Moving(c, home, g, home2, g2), Core(home, g, v),
         Courteous(c, home2, g2, v, w),
         Own(c, home2[c], g2[c], w), Waits(c, home2, g2, w), Sure(c, home2[c], g2[c], w)
  PROVE  /\ Core(home2, g2, w)
         /\ \A e \in Client \ {c} : Quits(e, home[e], g[e], v) => Quits(e, home2[e], g2[e], w)
<1>1. Beside(c, v, w) /\ World(v) /\ World(w)
  BY ActsBeside
<1>2. \A k \in Leader : \A t \in v.tickets[k] : t.client # c /\ t.owner = k /\ t.quorum =>
           Yields(t, k, c, home2[c], g2[c], v, w)
  BY DEF Courteous
<1> QED
  BY <1>1, <1>2, Bystanders

LEMMA Polite ==
  ASSUME TwoLeaders, NEW l \in Leader, NEW c \in Client, NEW r, NEW v, NEW w, Acts(l, c, r, v, w),
         NEW home, NEW g, NEW home2, NEW g2, Moving(c, home, g, home2, g2), Core(home, g, v),
         g2[c] \notin {"GET_MAX_TICKET", "MAX_TICKET", "ADD_TICKET"},
         (\E u \in Entry(v.tickets[l], c) : u.entering) => \E u \in Entry(w.tickets[l], c) : u.entering,
         \A u \in Entry(w.tickets[l], c) : u.listed =>
           \E x \in Entry(v.tickets[l], c) : x.listed /\ KeyOf(x) = KeyOf(u)
  PROVE  Courteous(c, home2, g2, v, w)
<1>1. World(v) /\ World(w) /\ Leader = {l, Other(l)} /\ w.tickets[Other(l)] = v.tickets[Other(l)]
  BY ActsBeside, OtherLeader DEF Acts
<1>2. SUFFICES ASSUME NEW k \in Leader, NEW t \in v.tickets[k], t.client # c, t.owner = k, t.quorum
               PROVE  Yields(t, k, c, home2[c], g2[c], v, w)
  BY DEF Courteous
<1>3. t.client \in Client /\ t \in Entry(v.tickets[k], t.client)
  BY <1>1 DEF World, Ticket, Entry
<1>4. Queued(t, k, home, g, v)
  BY <1>2, <1>3 DEF Core, Waits
<1>5. (\E u \in Entry(v.tickets[k], c) : u.entering) => \E u \in Entry(w.tickets[k], c) : u.entering
  BY <1>1
<1>6. \A j \in Leader : \A u \in Entry(w.tickets[j], c) : u.listed =>
           \E x \in Entry(v.tickets[j], c) : x.listed /\ KeyOf(x) = KeyOf(u)
  BY <1>1
<1>7. /\ home \in [Client -> Leader] /\ g \in [Client -> Stage]
      /\ home2[c] \in Leader /\ g2[c] \in Stage
  BY DEF Moving
<1> QED
  BY <1>2, <1>4, <1>5, <1>6, <1>7, YieldsSame

LEMMA WaitsLeft ==
  ASSUME TwoLeaders, NEW l \in Leader, NEW c \in Client, NEW r, NEW v, NEW w, Acts(l, c, r, v, w),
         NEW home, NEW g, NEW home2, NEW g2, Moving(c, home, g, home2, g2), Core(home, g, v),
         g2[c] \notin Late, Own(c, home2[c], g2[c], w),
         \A t \in Entry(w.tickets[l], c) : t.quorum /\ t.owner = l => t \in v.tickets[l]
  PROVE  Waits(c, home2, g2, w)
<1>1. /\ World(v) /\ World(w) /\ Leader = {l, Other(l)} /\ w.tickets[Other(l)] = v.tickets[Other(l)]
      /\ Beside(c, v, w) /\ \A k \in Leader : DropsLead(k, c, v, w)
  BY ActsBeside, OtherLeader DEF Acts
<1>2. SUFFICES ASSUME NEW k \in Leader, NEW t \in Entry(w.tickets[k], c), t.owner = k, t.quorum
               PROVE  Queued(t, k, home2, g2, w)
  BY DEF Waits
<1>3. t \in v.tickets[k] /\ t.client = c
  BY <1>1, <1>2 DEF Entry
<1>4. Queued(t, k, home, g, v)
  BY <1>2, <1>3 DEF Core, Waits, Entry
<1>5. c \notin Held(t)
  <2>1. Gone(t, k)
    BY <1>1, <1>2, Quorate DEF Moving
  <2> QED BY <1>2, <2>1 DEF Gone, Held
<1> QED
  BY <1>1, <1>3, <1>4, <1>5, QueuedOwn

\* Client c goes on to stage g2[c], which is not one of those with the quorum, or a number to come.
LEMMA EarlyStep ==
  ASSUME TwoLeaders, NEW l \in Leader, NEW c \in Client, NEW r, NEW v, NEW w, Acts(l, c, r, v, w),
         NEW home, NEW g, NEW home2, NEW g2, Moving(c, home, g, home2, g2), Core(home, g, v),
         g2[c] \notin Late, Own(c, home2[c], g2[c], w),
         \/ Courteous(c, home2, g2, v, w)
         \/ /\ g2[c] \notin {"GET_MAX_TICKET", "MAX_TICKET", "ADD_TICKET"}
            /\ (\E u \in Entry(v.tickets[l], c) : u.entering) => \E u \in Entry(w.tickets[l], c) : u.entering
            /\ \A u \in Entry(w.tickets[l], c) : u.listed =>
                 \E x \in Entry(v.tickets[l], c) : x.listed /\ KeyOf(x) = KeyOf(u),
         \A t \in Entry(w.tickets[l], c) : t.quorum /\ t.owner = l => t \in v.tickets[l]
  PROVE  /\ Core(home2, g2, w)
         /\ (\A e \in Client \ {c} : Quits(e, home[e], g[e], v)) => Pairing(home2, g2, w)
<1>1. Waits(c, home2, g2, w)
  BY WaitsLeft
<1>2. Sure(c, home2[c], g2[c], w) /\ Quits(c, home2[c], g2[c], w)
  BY DEF Sure, Quits, Late
<1>3. Courteous(c, home2, g2, v, w)
  BY Polite
<1>4. /\ Core(home2, g2, w)
      /\ \A e \in Client \ {c} : Quits(e, home[e], g[e], v) => Quits(e, home2[e], g2[e], w)
  BY <1>1, <1>2, <1>3, Onward
<1> QED
  BY <1>2, <1>4 DEF Pairing

\* How the tables come to be as they are to be.
LEMMA KeepsOutside ==
  ASSUME NEW c, NEW h, NEW w, NEW st \in Outside, Rid(c, h, w), Rid(c, Other(h), w)
  PROVE  Keeps(c, h, st, w)
BY DEF Keeps, Outside, Opening

LEMMA KeepsOpening ==
  ASSUME NEW c, NEW h, NEW w, NEW st \in Opening, Rid(c, Other(h), w), ~Left(c, h, w),
         NEW t \in Ticket, Entry(w.tickets[h], c) = {t}, AtHome(t, h, st), Free(w.net[h][Other(h)], c) \/
         Lacks(w.net[h][Other(h)], Of(c, {"ADD_TICKET"}))
  PROVE  Keeps(c, h, st, w)
<1>1. Lacks(w.net[h][Other(h)], {m \in Of(c, {"ADD_TICKET"}) : m.key # KeyOf(t)})
  BY DEF Free, Lacks, Of, Steps, Down
<1> QED
  BY <1>1 DEF Keeps, Outside, Opening

LEMMA KeepsInside ==
  ASSUME NEW c, NEW h, NEW w, NEW st, st \notin Outside \cup Opening,
         ~Left(c, h, w), ~Left(c, Other(h), w),
         NEW t \in Ticket, Entry(w.tickets[h], c) = {t}, AtHome(t, h, st),
         Lacks(w.net[h][Other(h)], {m \in Of(c, {"ADD_TICKET"}) : m.key # KeyOf(t)}),
         NEW u \in Ticket, Entry(w.tickets[Other(h)], c) = {u}, AtOther(u, h, st),
         st \in {"TICKET_ADDED"} \cup Late => t.number = u.number
  PROVE  Keeps(c, h, st, w)
BY DEF Keeps

\* And how they are.
LEMMA KeptInside ==
  ASSUME NEW c, NEW h, NEW w, NEW st, st \notin Outside \cup Opening, Keeps(c, h, st, w)
  PROVE  /\ ~Left(c, h, w) /\ ~Left(c, Other(h), w)
         /\ \E t, u \in Ticket :
              /\ Entry(w.tickets[h], c) = {t} /\ AtHome(t, h, st)
              /\ Lacks(w.net[h][Other(h)], {m \in Of(c, {"ADD_TICKET"}) : m.key # KeyOf(t)})
              /\ Entry(w.tickets[Other(h)], c) = {u} /\ AtOther(u, h, st)
              /\ st \in {"TICKET_ADDED"} \cup Late => t.number = u.number
<1>1. PICK t \in Ticket :
        /\ Entry(w.tickets[h], c) = {t} /\ AtHome(t, h, st)
        /\ Lacks(w.net[h][Other(h)], {m \in Of(c, {"ADD_TICKET"}) : m.key # KeyOf(t)})
  BY DEF Keeps
<1>2. PICK u \in Ticket :
        /\ Entry(w.tickets[Other(h)], c) = {u} /\ AtOther(u, h, st)
        /\ st \in {"TICKET_ADDED"} \cup Late => \A x \in Entry(w.tickets[h], c) : x.number = u.number
  BY DEF Keeps
<1> QED
  BY <1>1, <1>2 DEF Keeps


-----------------------------------------------------------------------------
(* A handler, from the message it reads to the world it leaves.            *)

\* Leader l is done with the message of s, everybody being where home2 and g2 say.
Advance(s, l, D, home, g, home2, g2) ==
  /\ Prompt(l, D) /\ Done(s, l, D)
  /\ home2 \in [Client -> Leader] /\ g2 \in [Client -> Stage]
  /\ Pairing(home2, g2, After(s, l, D))
  /\ \A c \in Client : StateOf(g2[c]) = StateOf(g[c])

\* Or it stops, because the number of a ticket does not fit.
Halts(s, l, home, g) == Stop(s, l) /\ Pairing(home, g, After(s, l, Here(l)))
Advances(s, l, home, g) ==
  (\E D, home2, g2 : Advance(s, l, D, home, g, home2, g2)) \/ Halts(s, l, home, g)

\* The message m about c is read, in the world v.
Opens(m, c, s, l, home, g, v) ==
  /\ Sent(m, c, s, l, home, g) /\ m \in InTime
  /\ Read(v, s, l, Other(l)) /\ World(v) /\ World(Now)
  /\ v.tickets[l] = tickets[l] /\ v.tickets[Other(l)] = tickets[Other(l)]
  /\ home \in [Client -> Leader] /\ g \in [Client -> Stage]
  /\ m.type # "DROP_TICKET" => Core(home, g, v)
  /\ m.type \in Steps =>
       /\ Quiet(c, v)
       /\ \A e \in Client \ {c} : Quits(e, home[e], g[e], v)
       /\ m.type # "LOCK_EXITING" => Quits(c, home[c], g[c], v)
  /\ m.type \notin Steps \cup {"DROP_TICKET"} => Pairing(home, g, v)

LEMMA Opened ==
  ASSUME TwoLeaders, TypeInv, Timely, NEW home, NEW g, Pairing(home, g, Now),
         NEW s \in Node, NEW l \in Leader, net[s][l] # <<>>
  PROVE  Opens(Head(net[s][l]), Head(net[s][l]).key.client, s, l, home, g, After(s, l, Here(l)))
<1> DEFINE m == Head(net[s][l])
           c == m.key.client
           v == After(s, l, Here(l))
<1>1. Core(home, g, Now) /\ home \in [Client -> Leader] /\ g \in [Client -> Stage]
  BY DEF Pairing, Core
<1>2. Sent(m, c, s, l, home, g)
  BY <1>1, Token
<1>3. m \in InTime
  <2>1. net[s][l] \in Seq(InTime)
    BY DEF Timely
  <2> QED BY <2>1, HeadTailProperties
<1>4. Read(v, s, l, Other(l))
  BY Reads
<1>5. m.type \in Steps => Quiet(c, v)
  BY <1>1, <1>4, ReadQuiet
<1>6. m.type # "DROP_TICKET" =>
        /\ Core(home, g, v)
        /\ \A e \in Client : Quits(e, home[e], g[e], Now) /\ m \notin Of(e, {"LOCK_EXITING"})
                               => Quits(e, home[e], g[e], v)
  BY <1>1, <1>4, ReadCore
<1>7. \A e \in Client : Quits(e, home[e], g[e], Now)
  BY DEF Pairing
<1>8. "DROP_TICKET" \notin Steps
  BY DEF Steps, Asks, Down, Up
<1>9. World(Now) /\ World(v) /\ v.tickets[l] = tickets[l] /\ v.tickets[Other(l)] = tickets[Other(l)]
  BY <1>4, NowWorld, OtherLeader DEF Read
<1> HIDE DEF v, m
<1>10. m.type \in Steps =>
         /\ \A e \in Client \ {c} : Quits(e, home[e], g[e], v)
         /\ m.type # "LOCK_EXITING" => Quits(c, home[c], g[c], v)
  <2>1. \A e \in Client \ {c} : m \notin Of(e, {"LOCK_EXITING"})
    BY DEF Of
  <2>2. m.type # "LOCK_EXITING" => m \notin Of(c, {"LOCK_EXITING"})
    BY DEF Of
  <2>3. c \in Client
    BY <1>2 DEF Sent
  <2> QED BY <1>6, <1>7, <1>8, <2>1, <2>2, <2>3
<1>11. m.type \notin Steps \cup {"DROP_TICKET"} => Pairing(home, g, v)
  <2>1. ASSUME m.type \notin Steps \cup {"DROP_TICKET"} PROVE \A e \in Client : m \notin Of(e, {"LOCK_EXITING"})
    BY <2>1 DEF Of, Steps, Down
  <2> QED BY <1>6, <1>7, <2>1 DEF Pairing
<1> QED
  BY <1>1, <1>2, <1>3, <1>4, <1>5, <1>6, <1>9, <1>10, <1>11 DEF Opens, v, m

\* Messages to the leaders are for the other leader.
LEMMA Sending ==
  ASSUME TwoLeaders, NEW l \in Leader, NEW D, Prompt(l, D), NEW x \in InTime
  PROVE  /\ Prompt(l, SendToLeaders(D, x)) /\ Cleanup(SendToLeaders(D, x)) = SendToLeaders(D, x)
         /\ SendToLeaders(D, x).tickets = D.tickets /\ SendToLeaders(D, x).mail = D.mail
         /\ SendToLeaders(D, x).out[Other(l)] = D.out[Other(l)] \o <<x>>
<1>1. Prompt(l, SendToLeaders(D, x))
  BY PromptSend
<1>2. <<x>> \in Seq(Message) /\ Sound(l, D)
  BY DEF InTime, Prompt
<1>3. /\ SendAllToLeaders(D, <<x>>).tickets = D.tickets /\ SendAllToLeaders(D, <<x>>).mail = D.mail
      /\ SendAllToLeaders(D, <<x>>).out[Other(l)] = D.out[Other(l)] \o <<x>>
  BY <1>2, SendAll
<1> QED
  BY <1>1, <1>3, NothingExpires DEF SendToLeaders

LEMMA Telling ==
  ASSUME TwoLeaders, NEW l \in Leader, NEW D, Prompt(l, D), NEW c \in Client, NEW n \in Gentle
  PROVE  /\ Prompt(l, TellClient(D, c, n)) /\ Cleanup(TellClient(D, c, n)) = TellClient(D, c, n)
         /\ TellClient(D, c, n).tickets = D.tickets /\ TellClient(D, c, n).out = D.out
         /\ TellClient(D, c, n).mail[c] = Append(D.mail[c], n)
         /\ \A e \in Client \ {c} : TellClient(D, c, n).mail[e] = D.mail[e]
<1>1. Prompt(l, TellClient(D, c, n)) /\ D \in Context
  BY PromptTellClient DEF Prompt, Sound
<1>2. /\ TellClient(D, c, n).tickets = D.tickets /\ TellClient(D, c, n).out = D.out
      /\ TellClient(D, c, n).mail[c] = Append(D.mail[c], n)
      /\ \A e \in Client \ {c} : TellClient(D, c, n).mail[e] = D.mail[e]
  BY <1>1 DEF TellClient, Context
<1> QED
  BY <1>1, <1>2, NothingExpires

\* Another table.
LEMMA Tabling ==
  ASSUME TwoLeaders, NEW l \in Leader, NEW D, Prompt(l, D), NEW S, S \subseteq Punctual, IsFiniteSet(S), KeysDiffer(S)
  PROVE  LET E == [D EXCEPT !.tickets = S]
         IN  Prompt(l, E) /\ E.tickets = S /\ E.out = D.out /\ E.mail = D.mail
<1> DEFINE E == [D EXCEPT !.tickets = S]
<1>1. S \subseteq Ticket /\ Sound(l, D) /\ D \in Context
  BY DEF Punctual, Prompt, Sound
<1>2. Sound(l, E) /\ E.tickets = S
  BY <1>1, TableSound
<1>3. E.out = D.out /\ E.mail = D.mail
  BY <1>1 DEF Context
<1> HIDE DEF E
<1>4. Prompt(l, E)
  BY <1>2, <1>3, PromptTable
<1> QED
  BY <1>2, <1>3, <1>4 DEF E

\* One ticket of client c takes the place of another one, or is gone.
LEMMA Updating ==
  ASSUME TwoLeaders, NEW l \in Leader, NEW D, Prompt(l, D), NEW t \in D.tickets, NEW u \in Ticket,
         u.client = t.client, Entry(D.tickets, t.client) = {t},
         u.listed => t.listed /\ KeyOf(u) = KeyOf(t), u \in Punctual \/ ~(u.entering \/ u.listed)
  PROVE  /\ Prompt(l, Update(D, t, u)) /\ Update(D, t, u).out = D.out /\ Update(D, t, u).mail = D.mail
         /\ \A e \in Client \ {t.client} : Entry(Update(D, t, u).tickets, e) = Entry(D.tickets, e)
         /\ Entry(Update(D, t, u).tickets, t.client) = IF u.entering \/ u.listed THEN {u} ELSE {}
<1>1. Prompt(l, Update(D, t, u)) /\ D \in Context
  BY PromptUpdate DEF Prompt, Sound
<1>2. /\ Update(D, t, u).out = D.out /\ Update(D, t, u).mail = D.mail
      /\ Update(D, t, u).tickets = Alive((D.tickets \ {t}) \cup {u})
  BY <1>1 DEF Update, Context
<1>3. \A x \in D.tickets : x.entering \/ x.listed
  BY PromptTickets
<1>4. \A x \in D.tickets \ {t} : x.client # t.client
  BY DEF Entry
<1> QED
  BY <1>1, <1>2, <1>3, <1>4 DEF Alive, Entry


-----------------------------------------------------------------------------
(* A request opens: LOCK, ABSOLUTELY and LOCK_ENTERING.                    *)

\* A ticket that begins.
Fresh(t, c, owner) ==
  /\ t \in Ticket /\ t \in Punctual /\ t.client = c /\ t.owner = owner
  /\ t.entering /\ ~t.listed /\ ~t.maxAsked /\ ~t.added /\ ~t.quorum /\ ~t.ready /\ ~t.locked
  /\ t.number = 0 /\ t.still = {}

LEMMA FreshTicket ==
  ASSUME NEW c \in Client, NEW owner \in Leader, NEW n \in Nat, n > LastDate
  PROVE  /\ Fresh(NewTicket(c, owner, n), c, owner)
         /\ \A a \in Nat : a = 0 \/ a > LastDate =>
              /\ Fresh([NewTicket(c, owner, n) EXCEPT !.alive = a], c, owner)
<1> DEFINE y == NewTicket(c, owner, n)
<1>1. /\ y \in Ticket /\ y.client = c /\ y.owner = owner /\ y.obtention = n /\ y.failed = "NONE"
      /\ y.entering /\ ~y.listed /\ ~y.maxAsked /\ ~y.added /\ ~y.quorum /\ ~y.ready /\ ~y.locked
      /\ y.number = 0 /\ y.still = {} /\ y.alive = 0
  BY NewTicketType DEF NewTicket
<1> HIDE DEF y
<1>2. Fresh(y, c, owner)
  BY <1>1 DEF Fresh, Punctual
<1>3. ASSUME NEW a \in Nat, a = 0 \/ a > LastDate
      PROVE  Fresh([y EXCEPT !.alive = a], c, owner)
  <2> DEFINE x == [y EXCEPT !.alive = a]
  <2>1. /\ x \in Ticket /\ x.client = c /\ x.owner = owner /\ x.obtention = n /\ x.failed = "NONE"
        /\ x.entering /\ ~x.listed /\ ~x.maxAsked /\ ~x.added /\ ~x.quorum /\ ~x.ready /\ ~x.locked
        /\ x.number = 0 /\ x.still = {} /\ x.alive = a
    BY <1>1 DEF Ticket
  <2> HIDE DEF x
  <2>2. Fresh(x, c, owner)
    BY <1>3, <2>1 DEF Fresh, Punctual
  <2> QED BY <2>2 DEF x
<1> QED
  BY <1>2, <1>3 DEF y

\* The worlds before and after an action of leader l about client c, o being the other leader.
Sides(l, o, c, v, w) ==
  /\ l \in Leader /\ o \in Leader /\ o # l /\ Leader = {l, o}
  /\ \A k, d \in Leader : k # d => Other(k) = d
  /\ c \in Client /\ World(v) /\ World(w)
  /\ w.tickets[o] = v.tickets[o] /\ w.net[c] = v.net[c]
Wires(l, o, r, v, w) ==
  /\ r \in Seq(Message) /\ v.net[l][o] \in Seq(Message) /\ v.net[o][l] \in Seq(Message)
  /\ w.net[l][o] = v.net[l][o] \o r /\ w.net[o][l] = v.net[o][l]
Worlds(l, o, c, r, v, w) == Sides(l, o, c, v, w) /\ Wires(l, o, r, v, w)

LEMMA OneWorld ==
  ASSUME TwoLeaders, NEW l \in Leader, NEW c \in Client, NEW r, NEW v, NEW w, Acts(l, c, r, v, w)
  PROVE  Worlds(l, Other(l), c, r, v, w)
<1>1. \A k, d \in Leader : k # d => Other(k) = d
  BY OtherLeader
<1>2. Other(l) \in Leader /\ Other(l) # l /\ Leader = {l, Other(l)}
  BY OtherLeader
<1>3. Sides(l, Other(l), c, v, w)
  BY <1>1, <1>2 DEF Acts, Sides
<1>4. Wires(l, Other(l), r, v, w)
  BY ActsBeside DEF Acts, Wires
<1> QED
  BY <1>3, <1>4 DEF Worlds

LEMMA OneMessage ==
  ASSUME NEW m \in Message
  PROVE  <<m>> \in Seq(Message) /\ \A S : Lacks(<<m>>, S) <=> m \notin S
<1>1. \A S : Lacks(<<m>>, S) <=> m \notin S
  BY DEF Lacks
<1> QED
  BY <1>1

LEMMA FreeLacks ==
  ASSUME NEW q, NEW c, Free(q, c), NEW T, T \subseteq Steps
  PROVE  Lacks(q, Of(c, T))
BY DEF Free, Lacks, Of

LEMMA MovesDown ==
  ASSUME TwoLeaders, NEW l \in Leader, NEW c \in Client, NEW v, NEW w,
         NEW st \in Down, NEW m \in Of(c, {st}), Acts(l, c, <<m>>, v, w),
         Quiet(c, v), \A k \in Leader : Once(w.net[k][Other(k)], Drops(c))
  PROVE  Moves(c, l, st, w)
<1> DEFINE h == l
<1>1. h \in Leader /\ l = h
  OBVIOUS
<1> HIDE DEF h
<1>2. Moves(c, h, st, w)
  BY <1>1, MovesSend
<1> QED
  BY <1>2 DEF h

LEMMA MovesUp ==
  ASSUME TwoLeaders, NEW l \in Leader, NEW c \in Client, NEW v, NEW w,
         NEW st \in Up, NEW m \in Of(c, {st}), Acts(l, c, <<m>>, v, w),
         Quiet(c, v), \A k \in Leader : Once(w.net[k][Other(k)], Drops(c))
  PROVE  Moves(c, Other(l), st, w)
<1> DEFINE h == Other(l)
<1>1. h \in Leader /\ l = Other(h)
  BY OtherLeader
<1> HIDE DEF h
<1>2. Moves(c, h, st, w)
  BY <1>1, MovesSend
<1> QED
  BY <1>2 DEF h

\* Client c goes on to stage st, its home being h.
Home(home, c, h) == [home EXCEPT ![c] = h]
To(g, c, st) == [g EXCEPT ![c] = st]

LEMMA Going ==
  ASSUME NEW home \in [Client -> Leader], NEW g \in [Client -> Stage], NEW c \in Client,
         NEW h \in Leader, NEW st \in Stage
  PROVE  /\ Moving(c, home, g, Home(home, c, h), To(g, c, st))
         /\ Home(home, c, h)[c] = h /\ To(g, c, st)[c] = st
         /\ Home(home, c, h) \in [Client -> Leader] /\ To(g, c, st) \in [Client -> Stage]
         /\ \A e \in Client \ {c} : Home(home, c, h)[e] = home[e] /\ To(g, c, st)[e] = g[e]
BY DEF Moving, Home, To

\* On to a stage without the quorum.
LEMMA EarlyTo ==
  ASSUME TwoLeaders, NEW l \in Leader, NEW c \in Client, NEW r, NEW v, NEW w, Acts(l, c, r, v, w),
         NEW home, NEW g, Core(home, g, v), NEW h \in Leader, NEW st \in Stage \ Late, Own(c, h, st, w),
         \/ Courteous(c, Home(home, c, h), To(g, c, st), v, w)
         \/ /\ st \notin {"GET_MAX_TICKET", "MAX_TICKET", "ADD_TICKET"}
            /\ (\E u \in Entry(v.tickets[l], c) : u.entering) => \E u \in Entry(w.tickets[l], c) : u.entering
            /\ \A u \in Entry(w.tickets[l], c) : u.listed =>
                 \E x \in Entry(v.tickets[l], c) : x.listed /\ KeyOf(x) = KeyOf(u),
         \A t \in Entry(w.tickets[l], c) : t.quorum /\ t.owner = l => t \in v.tickets[l]
  PROVE  /\ Core(Home(home, c, h), To(g, c, st), w)
         /\ (\A e \in Client \ {c} : Quits(e, home[e], g[e], v)) => Pairing(Home(home, c, h), To(g, c, st), w)
<1> DEFINE home2 == Home(home, c, h)
           g2 == To(g, c, st)
<1>1. /\ Moving(c, home, g, home2, g2) /\ home2[c] = h /\ g2[c] = st
  BY Going DEF Core
<1> HIDE DEF home2, g2
<1>2. Own(c, home2[c], g2[c], w) /\ g2[c] \notin Late
  BY <1>1
<1>3. \/ Courteous(c, home2, g2, v, w)
      \/ /\ g2[c] \notin {"GET_MAX_TICKET", "MAX_TICKET", "ADD_TICKET"}
         /\ (\E u \in Entry(v.tickets[l], c) : u.entering) => \E u \in Entry(w.tickets[l], c) : u.entering
         /\ \A u \in Entry(w.tickets[l], c) : u.listed =>
              \E x \in Entry(v.tickets[l], c) : x.listed /\ KeyOf(x) = KeyOf(u)
  BY <1>1 DEF home2, g2
<1>4. /\ Core(home2, g2, w)
      /\ (\A e \in Client \ {c} : Quits(e, home[e], g[e], v)) => Pairing(home2, g2, w)
  BY <1>1, <1>2, <1>3, EarlyStep
<1> QED
  BY <1>4 DEF home2, g2

LEMMA Settles ==
  ASSUME NEW s, NEW l, NEW D, Prompt(l, D), Done(s, l, D),
         NEW home \in [Client -> Leader], NEW g \in [Client -> Stage], NEW c \in Client,
         NEW h \in Leader, NEW st \in Stage, StateOf(st) = StateOf(g[c]),
         Pairing(Home(home, c, h), To(g, c, st), After(s, l, D))
  PROVE  Advances(s, l, home, g)
<1>1. /\ Home(home, c, h) \in [Client -> Leader] /\ To(g, c, st) \in [Client -> Stage]
      /\ To(g, c, st)[c] = st /\ \A e \in Client \ {c} : To(g, c, st)[e] = g[e]
  BY Going
<1>2. \A e \in Client : StateOf(To(g, c, st)[e]) = StateOf(g[e])
  BY <1>1
<1> QED
  BY <1>1, <1>2 DEF Advances, Advance

LEMMA Stays ==
  ASSUME NEW s, NEW l, NEW D, Prompt(l, D), Done(s, l, D),
         NEW home \in [Client -> Leader], NEW g \in [Client -> Stage], Pairing(home, g, After(s, l, D))
  PROVE  Advances(s, l, home, g)
BY DEF Advances, Advance

\* What is there of c at leader l when it asks for nothing.
LEMMA RidCases ==
  ASSUME NEW c, NEW l, NEW w, Rid(c, l, w)
  PROVE  \/ Entry(w.tickets[l], c) = {} /\ ~Left(c, l, w)
         \/ /\ Left(c, l, w)
            /\ \E t \in Ticket : Entry(w.tickets[l], c) = {t} /\ Gone(t, l) /\ t.listed /\ ~t.entering
BY DEF Rid, Gone

\* A LOCK is refused.
LEMMA LockRefused ==
  ASSUME TwoLeaders, NEW l \in Leader, NEW c \in Client, NEW v, NEW w, Acts(l, c, <<>>, v, w),
         Quiet(c, v), NEW home, NEW g, Core(home, g, v), Own(c, l, "LOCK", v),
         \A e \in Client \ {c} : Quits(e, home[e], g[e], v),
         w.tickets[l] = v.tickets[l], w.mail[c][l] = Append(v.mail[c][l], Note("LOCK_FAILED")),
         w.mail[c][Other(l)] = v.mail[c][Other(l)]
  PROVE  Pairing(Home(home, c, l), To(g, c, "LOCK_FAILED"), w)
<1> DEFINE o == Other(l)
           st == "LOCK_FAILED"
<1>1. Sides(l, o, c, v, w)
  BY OneWorld DEF Worlds
<1>2. Talks(c, l, "LOCK_FAILED", w)
  <2>1. Note("LOCK_FAILED") \in Notice /\ Note("LOCK_FAILED").type = "LOCK_FAILED" /\ "LOCK_FAILED" \in Says
    BY DEF Note, Notice, Says
  <2>2. w.net[c] = v.net[c] /\ \A k \in Leader : v.net[c][k] = <<>> /\ v.mail[c][k] = <<>>
    BY <1>1 DEF Quiet, Sides
  <2> QED BY <2>1, <2>2, TalksTold
<1> HIDE DEF o
<1>3. \A k \in Leader : Entry(w.tickets[k], c) = Entry(v.tickets[k], c)
  BY <1>1 DEF Sides
<1>4. Lacks(<<>>, Drops(c)) /\ Free(<<>>, c)
  BY DEF Lacks, Free
<1>5. /\ \A k \in Leader : Rid(c, k, v) => Rid(c, k, w)
      /\ \A k \in Leader : Once(w.net[k][Other(k)], Drops(c))
  <2>1. \A k \in Leader : Once(v.net[k][Other(k)], Drops(c))
    BY DEF Own, Moves
  <2> QED BY <1>3, <1>4, <2>1, ActsDrops
<1>6. Moves(c, l, "LOCK_FAILED", w)
  BY <1>4, <1>5, MovesQuiet
<1>7. Keeps(c, l, "LOCK_FAILED", w)
  <2>1. "LOCK" \in Outside /\ "LOCK_FAILED" \in Outside
    BY DEF Outside
  <2>2. Rid(c, l, v) /\ Rid(c, Other(l), v)
    BY <2>1 DEF Own, Keeps
  <2>3. Rid(c, l, w) /\ Rid(c, Other(l), w)
    BY <1>1, <1>5, <2>2 DEF Sides, o
  <2> QED BY <2>1, <2>3, KeepsOutside
<1>8. InOrder(c, l, "LOCK_FAILED", w)
  BY DEF InOrder, Choosing
<1>9. Own(c, l, "LOCK_FAILED", w)
  BY <1>2, <1>6, <1>7, <1>8 DEF Own
<1>10. "LOCK_FAILED" \in Stage \ Late
  BY DEF Stage, Outside, Late, Granted
<1>11. /\ (\E u \in Entry(v.tickets[l], c) : u.entering) => \E u \in Entry(w.tickets[l], c) : u.entering
       /\ \A u \in Entry(w.tickets[l], c) : u.listed =>
            \E x \in Entry(v.tickets[l], c) : x.listed /\ KeyOf(x) = KeyOf(u)
       /\ \A t \in Entry(w.tickets[l], c) : t.quorum /\ t.owner = l => t \in v.tickets[l]
  BY <1>3 DEF Entry
<1> QED
  BY <1>9, <1>10, <1>11, EarlyTo

\* What is to be shown of a request that opens.
LEMMA OwnOpening ==
  ASSUME TwoLeaders, NEW l \in Leader, NEW c \in Client, NEW w, NEW st \in Opening,
         Talks(c, l, st, w), Moves(c, l, st, w), Rid(c, Other(l), w), ~Left(c, l, w),
         NEW t, Fresh(t, c, l), Entry(w.tickets[l], c) = {t},
         Lacks(w.net[l][Other(l)], Of(c, {"ADD_TICKET"})),
         st = "LOCK_ENTERING" => Ahead(w.net[l][Other(l)], Grants(c) \cup Drops(c), Of(c, {st}))
  PROVE  Own(c, l, st, w)
<1>1. AtHome(t, l, st) /\ t \in Ticket
  BY DEF Fresh, AtHome, Opening, Choosing, Late, Granted
<1>2. Keeps(c, l, st, w)
  BY <1>1, KeepsOpening
<1>3. InOrder(c, l, st, w)
  BY DEF InOrder, Opening, Choosing
<1> QED
  BY <1>2, <1>3 DEF Own

\* A LOCK gets a ticket, and either the client or the other leader hears of it.
LEMMA LockTaken ==
  ASSUME TwoLeaders, NEW l \in Leader, NEW c \in Client, NEW r, NEW v, NEW w, Acts(l, c, r, v, w),
         Quiet(c, v), NEW home, NEW g, Core(home, g, v), Own(c, l, "LOCK", v),
         \A e \in Client \ {c} : Quits(e, home[e], g[e], v),
         NEW t, Fresh(t, c, l), Entry(v.tickets[l], c) = {}, Entry(w.tickets[l], c) = {t},
         NEW st,
         \/ /\ r = <<>> /\ st = "ALIVE" /\ w.mail[c][l] = Append(v.mail[c][l], Note("ALIVE"))
            /\ w.mail[c][Other(l)] = v.mail[c][Other(l)]
         \/ /\ st = "LOCK_ENTERING" /\ w.mail[c] = v.mail[c]
            /\ \E m \in Of(c, {"LOCK_ENTERING"}) : r = <<m>>
  PROVE  Pairing(Home(home, c, l), To(g, c, st), w)
<1> DEFINE o == Other(l)
<1>1. Sides(l, o, c, v, w)
  BY OneWorld DEF Worlds
<1>0. Wires(l, o, r, v, w)
  BY OneWorld DEF Worlds
<1> HIDE DEF o
<1>2. Lacks(r, Grants(c) \cup Drops(c)) /\ Lacks(r, Of(c, {"ADD_TICKET"}))
  <2>1. CASE r = <<>>
    BY <2>1 DEF Lacks
  <2>2. ASSUME NEW m \in Of(c, {"LOCK_ENTERING"}), r = <<m>>
        PROVE  Lacks(r, Grants(c) \cup Drops(c)) /\ Lacks(r, Of(c, {"ADD_TICKET"}))
    <3>1. m \in Message
      BY DEF Of
    <3>2. m \notin Grants(c) \cup Drops(c) /\ m \notin Of(c, {"ADD_TICKET"})
      BY DEF Of, Grants, Drops, Dones
    <3> QED BY <2>2, <3>1, <3>2, OneMessage
  <2> QED BY <2>1, <2>2
<1>3. /\ \A k \in Leader : Left(c, k, w) <=> Left(c, k, v)
      /\ \A k \in Leader : Entry(w.tickets[k], c) = Entry(v.tickets[k], c) /\ Rid(c, k, v) => Rid(c, k, w)
      /\ \A k \in Leader : Once(w.net[k][Other(k)], Drops(c))
  <2>1. \A k \in Leader : Once(v.net[k][Other(k)], Drops(c))
    BY DEF Own, Moves
  <2>2. Lacks(r, Drops(c))
    BY <1>2 DEF Lacks
  <2> QED BY <2>1, <2>2, ActsDrops
<1>4. Rid(c, o, w) /\ ~Left(c, l, w)
  <2>1. "LOCK" \in Outside
    BY DEF Outside
  <2>2. Rid(c, l, v) /\ Rid(c, Other(l), v)
    BY <2>1 DEF Own, Keeps
  <2>3. ~Left(c, l, v)
    BY <2>2, RidCases
  <2>4. Rid(c, o, v) /\ Entry(w.tickets[o], c) = Entry(v.tickets[o], c)
    BY <1>1, <2>2 DEF o, Sides
  <2> QED BY <1>1, <1>3, <2>3, <2>4 DEF Sides
<1>5. st \in Opening
  BY DEF Opening
<1>6. Talks(c, l, st, w)
  <2>1. CASE r = <<>> /\ st = "ALIVE" /\ w.mail[c][l] = Append(v.mail[c][l], Note("ALIVE"))
             /\ w.mail[c][Other(l)] = v.mail[c][Other(l)]
    <3>1. Note("ALIVE") \in Notice /\ Note("ALIVE").type = st /\ st \in Says
      BY <2>1 DEF Note, Notice, Says
    <3>2. w.net[c] = v.net[c] /\ \A k \in Leader : v.net[c][k] = <<>> /\ v.mail[c][k] = <<>>
      BY <1>1 DEF Quiet, Sides
    <3> QED BY <2>1, <3>1, <3>2, TalksTold
  <2>2. CASE w.mail[c] = v.mail[c]
    BY <1>1, <2>2, TalksSilent DEF Sides
  <2> QED BY <2>1, <2>2
<1>7. Free(v.net[l][o], c) /\ Free(v.net[o][l], c)
  BY <1>1 DEF Quiet, Sides
<1>8. Moves(c, l, st, w)
  <2>1. CASE r = <<>>
    <3>1. Free(r, c)
      BY <2>1 DEF Free, Lacks
    <3> QED BY <1>3, <3>1, MovesQuiet
  <2>2. ASSUME NEW m \in Of(c, {"LOCK_ENTERING"}), r = <<m>>, st = "LOCK_ENTERING"
        PROVE  Moves(c, l, st, w)
    <3>1. "LOCK_ENTERING" \in Down
      BY DEF Down
    <3>2. Acts(l, c, <<m>>, v, w)
      BY <2>2
    <3>3. Moves(c, l, "LOCK_ENTERING", w)
      BY <1>3, <3>1, <3>2, MovesDown
    <3> QED BY <2>2, <3>3
  <2> QED BY <2>1, <2>2
<1>9. Lacks(v.net[l][o], Of(c, {"ADD_TICKET", "LOCK_ENTERING"}))
  <2>1. "ADD_TICKET" \in Steps /\ "LOCK_ENTERING" \in Steps
    BY DEF Steps, Down
  <2> QED BY <1>7, <2>1, FreeLacks
<1>10. Lacks(w.net[l][o], Of(c, {"ADD_TICKET"}))
  <2> DEFINE p == v.net[l][o]
             S == Of(c, {"ADD_TICKET"})
  <2>1. Lacks(p, S)
    BY <1>9 DEF Lacks, Of
  <2>2. Lacks(r, S)
    BY <1>2
  <2>3. p \in Seq(Message) /\ r \in Seq(Message) /\ w.net[l][o] = p \o r
    BY <1>0 DEF Wires
  <2> HIDE DEF p, S
  <2>4. Lacks(p \o r, S)
    BY <2>1, <2>2, <2>3, LacksConcat
  <2> QED BY <2>3, <2>4 DEF S
<1>11. Ahead(w.net[l][o], Grants(c) \cup Drops(c), Of(c, {"LOCK_ENTERING"}))
  <2>1. Lacks(v.net[l][o], Of(c, {"LOCK_ENTERING"}))
    BY <1>9 DEF Lacks, Of
  <2>2. Ahead(v.net[l][o], Grants(c) \cup Drops(c), Of(c, {"LOCK_ENTERING"}))
    BY <2>1, LacksAhead
  <2> DEFINE p == v.net[l][o]
             A == Grants(c) \cup Drops(c)
             B == Of(c, {"LOCK_ENTERING"})
  <2>3. p \in Seq(Message) /\ r \in Seq(Message) /\ w.net[l][o] = p \o r
    BY <1>0 DEF Wires
  <2>4. Ahead(p, A, B)
    BY <2>2
  <2>5. Lacks(r, A)
    BY <1>2
  <2> HIDE DEF p, A, B
  <2>6. Ahead(p \o r, A, B)
    BY <2>3, <2>4, <2>5, AheadJoin
  <2> QED BY <2>3, <2>6 DEF A, B
<1>12. Own(c, l, st, w)
  BY <1>4, <1>5, <1>6, <1>8, <1>10, <1>11, OwnOpening DEF o
<1>13. st \in Stage \ Late /\ st \notin {"GET_MAX_TICKET", "MAX_TICKET", "ADD_TICKET"}
  BY <1>5 DEF Stage, Opening, Late, Granted
<1>14. ~t.listed /\ ~t.quorum
  BY DEF Fresh
<1> QED
  BY <1>12, <1>13, <1>14, EarlyTo

\* The message m of the type given, on the way of the request of c, is read by l in the world v.
Begins(type, m, c, s, l, h, home, g, v) ==
  /\ m \in InTime /\ m \in Message /\ m.type = type /\ m.key \in Key /\ m.key.client = c /\ m.value \in Nat
  /\ c \in Client /\ m \in Of(c, {type}) /\ m \notin Apart(c)
  /\ home \in [Client -> Leader] /\ g \in [Client -> Stage] /\ home[c] = h /\ g[c] = type
  /\ Core(home, g, v) /\ Quiet(c, v) /\ \A e \in Client \ {c} : Quits(e, home[e], g[e], v)
  /\ Own(c, h, type, v) /\ Own(c, h, type, Now)
  /\ World(v) /\ v.tickets[l] = tickets[l] /\ v.tickets[Other(l)] = tickets[Other(l)]
  /\ Read(v, s, l, Other(l))

LEMMA BeginsAt ==
  ASSUME TwoLeaders, TypeInv, Timely, NEW home, NEW g, Pairing(home, g, Now),
         NEW s \in Node, NEW l \in Leader, net[s][l] # <<>>,
         NEW type \in Steps, Head(net[s][l]).type = type, NEW h,
         LET c == Head(net[s][l]).key.client
         IN  Sent(Head(net[s][l]), c, s, l, home, g) => home[c] = h
  PROVE  Begins(type, Head(net[s][l]), Head(net[s][l]).key.client, s, l, h, home, g, After(s, l, Here(l)))
<1> DEFINE m == Head(net[s][l])
           c == m.key.client
           v == After(s, l, Here(l))
<1>1. Opens(m, c, s, l, home, g, v)
  BY Opened
<1>2. Sent(m, c, s, l, home, g) /\ m \in InTime /\ m.type = type
  BY <1>1 DEF Opens
<1>3. home[c] = h
  BY <1>2
<1>4. Core(home, g, Now)
  BY DEF Pairing
<1> HIDE DEF m, v
<1>5. /\ m \in Message /\ m.key.client = c /\ c \in Client /\ m \in Of(c, {type}) /\ m \notin Apart(c)
      /\ g[c] = type
  BY <1>2 DEF Sent
<1>6. m.key \in Key /\ m.value \in Nat
  BY <1>5 DEF Message
<1> HIDE DEF c
<1>7. type # "DROP_TICKET"
  BY DEF Steps, Asks, Down, Up
<1>8. /\ Core(home, g, v) /\ Quiet(c, v) /\ \A e \in Client \ {c} : Quits(e, home[e], g[e], v)
      /\ World(v) /\ v.tickets[l] = tickets[l] /\ v.tickets[Other(l)] = tickets[Other(l)]
      /\ Read(v, s, l, Other(l)) /\ home \in [Client -> Leader] /\ g \in [Client -> Stage]
  BY <1>1, <1>2, <1>7 DEF Opens
<1>9. Own(c, h, type, v) /\ Own(c, h, type, Now)
  BY <1>3, <1>4, <1>5, <1>8 DEF Core
<1>10. m \in InTime /\ m.type = type
  BY <1>2
<1>11. Begins(type, m, c, s, l, h, home, g, v)
  BY <1>3, <1>5, <1>6, <1>8, <1>9, <1>10 DEF Begins
<1> QED
  BY <1>11 DEF m, c, v

LEMMA AskBegins ==
  ASSUME TwoLeaders, TypeInv, Timely, NEW home, NEW g, Pairing(home, g, Now),
         NEW s \in Node, NEW l \in Leader, net[s][l] # <<>>,
         NEW type \in {"LOCK", "ABSOLUTELY"}, Head(net[s][l]).type = type
  PROVE  Begins(type, Head(net[s][l]), Head(net[s][l]).key.client, s, l, l, home, g, After(s, l, Here(l)))
<1>1. type \in Steps /\ type \notin Down /\ type \notin Up /\ type # "UNLOCK"
  BY DEF Steps, Asks, Down, Up
<1>2. Sent(Head(net[s][l]), Head(net[s][l]).key.client, s, l, home, g) => home[Head(net[s][l]).key.client] = l
  BY <1>1 DEF Sent
<1> QED
  BY <1>1, <1>2, BeginsAt

LEMMA DownBegins ==
  ASSUME TwoLeaders, TypeInv, Timely, NEW home, NEW g, Pairing(home, g, Now),
         NEW s \in Node, NEW l \in Leader, net[s][l] # <<>>,
         NEW type \in Down, Head(net[s][l]).type = type
  PROVE  /\ Begins(type, Head(net[s][l]), Head(net[s][l]).key.client, s, l, Other(l), home, g, After(s, l, Here(l)))
         /\ Other(l) = s
<1>1. type \in Steps /\ type \notin Asks /\ type \notin Up
  BY DEF Steps, Asks, Down, Up
<1>2. Sent(Head(net[s][l]), Head(net[s][l]).key.client, s, l, home, g)
        => home[Head(net[s][l]).key.client] = Other(l) /\ Other(l) = s
  BY <1>1 DEF Sent
<1>3. Begins(type, Head(net[s][l]), Head(net[s][l]).key.client, s, l, Other(l), home, g, After(s, l, Here(l)))
  BY <1>1, <1>2, BeginsAt
<1>4. Sent(Head(net[s][l]), Head(net[s][l]).key.client, s, l, home, g)
  BY Opened DEF Opens
<1> QED
  BY <1>2, <1>3, <1>4

LEMMA UpBegins ==
  ASSUME TwoLeaders, TypeInv, Timely, NEW home, NEW g, Pairing(home, g, Now),
         NEW s \in Node, NEW l \in Leader, net[s][l] # <<>>,
         NEW type \in Up, Head(net[s][l]).type = type
  PROVE  /\ Begins(type, Head(net[s][l]), Head(net[s][l]).key.client, s, l, l, home, g, After(s, l, Here(l)))
         /\ Other(l) = s
<1>1. type \in Steps /\ type \notin Asks /\ type \notin Down
  BY DEF Steps, Asks, Down, Up
<1>2. Sent(Head(net[s][l]), Head(net[s][l]).key.client, s, l, home, g)
        => home[Head(net[s][l]).key.client] = l /\ Other(l) = s
  BY <1>1 DEF Sent
<1>3. Begins(type, Head(net[s][l]), Head(net[s][l]).key.client, s, l, l, home, g, After(s, l, Here(l)))
  BY <1>1, <1>2, BeginsAt
<1>4. Sent(Head(net[s][l]), Head(net[s][l]).key.client, s, l, home, g)
  BY Opened DEF Opens
<1> QED
  BY <1>2, <1>3, <1>4

\* The context D of a handler of leader l: the table, what is said to the other leader and to
\* client c, nothing being said to other clients.
Carries(l, D, S, r, c, q) ==
  /\ Prompt(l, D) /\ D.tickets = S /\ D.out[Other(l)] = r /\ D.mail[c] = q
  /\ \A e \in Client \ {c} : D.mail[e] = <<>>

LEMMA CarriesHere ==
  ASSUME TwoLeaders, TypeInv, Timely, NEW l \in Leader, NEW c \in Client
  PROVE  Carries(l, Here(l), tickets[l], <<>>, c, <<>>)
<1>1. Other(l) \in Leader
  BY OtherLeader
<1> QED
  BY <1>1, HerePrompt DEF Carries

LEMMA CarriesCleanup ==
  ASSUME TwoLeaders, NEW l \in Leader, NEW D, NEW S, NEW r, NEW c, NEW q, Carries(l, D, S, r, c, q)
  PROVE  Cleanup(D) = D
BY NothingExpires DEF Carries

LEMMA CarriesReply ==
  ASSUME TwoLeaders, NEW l \in Leader, NEW D, NEW S, NEW r, NEW c, NEW q, Carries(l, D, S, r, c, q),
         NEW s, s = Other(l), NEW x \in InTime
  PROVE  /\ Carries(l, Tell(D, s, x), S, r \o <<x>>, c, q)
         /\ r = <<>> => Carries(l, Tell(D, s, x), S, <<x>>, c, q)
<1> DEFINE E == Tell(D, s, x)
<1>1. /\ Prompt(l, E) /\ E.tickets = D.tickets /\ E.mail = D.mail /\ E.out[Other(l)] = D.out[Other(l)] \o <<x>>
  <2>1. Other(l) \in Leader /\ s \in Leader /\ s # l /\ Prompt(l, D)
    BY OtherLeader DEF Carries
  <2>2. Prompt(l, E)
    BY <2>1, PromptTell
  <2>3. D \in Context /\ x \in Message /\ D.out[s] \in Seq(Message)
    BY <2>1 DEF Prompt, Sound, Context, InTime
  <2>4. E.tickets = D.tickets /\ E.mail = D.mail /\ E.out[s] = Append(D.out[s], x)
    BY <2>1, <2>3 DEF Tell, Context
  <2>5. Append(D.out[s], x) = D.out[s] \o <<x>>
    BY <2>3, AppendIsConcat
  <2> QED BY <2>2, <2>4, <2>5
<1> HIDE DEF E
<1>2. Carries(l, E, S, r \o <<x>>, c, q)
  BY <1>1 DEF Carries
<1>3. <<>> \o <<x>> = <<x>>
  OBVIOUS
<1> QED
  BY <1>2, <1>3 DEF E

LEMMA CarriesSend ==
  ASSUME TwoLeaders, NEW l \in Leader, NEW D, NEW S, NEW r, NEW c, NEW q, Carries(l, D, S, r, c, q),
         NEW x \in InTime
  PROVE  /\ Carries(l, SendToLeaders(D, x), S, r \o <<x>>, c, q)
         /\ r = <<>> => Carries(l, SendToLeaders(D, x), S, <<x>>, c, q)
<1> DEFINE E == SendToLeaders(D, x)
<1>1. /\ Prompt(l, E) /\ E.tickets = D.tickets /\ E.mail = D.mail /\ E.out[Other(l)] = D.out[Other(l)] \o <<x>>
  BY Sending DEF Carries
<1> HIDE DEF E
<1>2. Carries(l, E, S, r \o <<x>>, c, q)
  BY <1>1 DEF Carries
<1>3. <<>> \o <<x>> = <<x>>
  OBVIOUS
<1> QED
  BY <1>2, <1>3 DEF E

LEMMA CarriesNotice ==
  ASSUME TwoLeaders, NEW l \in Leader, NEW D, NEW S, NEW r, NEW c \in Client, NEW q, Carries(l, D, S, r, c, q),
         NEW n \in Gentle
  PROVE  /\ Carries(l, TellClient(D, c, n), S, r, c, Append(q, n))
         /\ q = <<>> => Carries(l, TellClient(D, c, n), S, r, c, <<n>>)
<1> DEFINE E == TellClient(D, c, n)
<1>1. /\ Prompt(l, E) /\ E.tickets = D.tickets /\ E.out = D.out /\ E.mail[c] = Append(D.mail[c], n)
      /\ \A e \in Client \ {c} : E.mail[e] = D.mail[e]
  BY Telling DEF Carries
<1> HIDE DEF E
<1>2. Carries(l, E, S, r, c, Append(q, n))
  BY <1>1 DEF Carries
<1>3. Append(<<>>, n) = <<n>>
  OBVIOUS
<1> QED
  BY <1>2, <1>3 DEF E

LEMMA CarriesTable ==
  ASSUME TwoLeaders, NEW l \in Leader, NEW D, NEW S, NEW r, NEW c, NEW q, Carries(l, D, S, r, c, q),
         NEW T, T \subseteq Punctual, IsFiniteSet(T), KeysDiffer(T)
  PROVE  Carries(l, [D EXCEPT !.tickets = T], T, r, c, q)
<1> DEFINE E == [D EXCEPT !.tickets = T]
<1>1. Prompt(l, E) /\ E.tickets = T /\ E.out = D.out /\ E.mail = D.mail
  BY Tabling DEF Carries
<1> HIDE DEF E
<1>2. Carries(l, E, T, r, c, q)
  BY <1>1 DEF Carries
<1> QED
  BY <1>2 DEF E

LEMMA CarriesNew ==
  ASSUME TwoLeaders, NEW l \in Leader, NEW D, NEW S, NEW r, NEW c, NEW q, Carries(l, D, S, r, c, q),
         NEW t, NEW owner, Fresh(t, c, owner)
  PROVE  Carries(l, [D EXCEPT !.tickets = @ \cup {t}], S \cup {t}, r, c, q)
<1> DEFINE E == [D EXCEPT !.tickets = @ \cup {t}]
<1>1. t \in Punctual /\ t.entering /\ ~t.listed
  BY DEF Fresh
<1>2. Prompt(l, E) /\ E.tickets = S \cup {t} /\ E.out = D.out /\ E.mail = D.mail
  <2>1. Prompt(l, D) /\ D.tickets = S
    BY DEF Carries
  <2>2. D \in Context /\ Sound(l, D) /\ t \in Ticket /\ D.tickets \subseteq Punctual
    BY <1>1, <2>1 DEF Prompt, Sound, Punctual
  <2>3. Sound(l, E)
    BY <1>1, <2>2, AddSound
  <2>4. E.tickets = D.tickets \cup {t} /\ E.out = D.out /\ E.mail = D.mail
    BY <2>2 DEF Context
  <2> HIDE DEF E
  <2>5. Prompt(l, E)
    BY <1>1, <2>1, <2>2, <2>3, <2>4, PromptTable
  <2> QED BY <2>1, <2>4, <2>5
<1> HIDE DEF E
<1>3. Carries(l, E, S \cup {t}, r, c, q)
  BY <1>2 DEF Carries
<1> QED
  BY <1>3 DEF E

\* Another ticket of c for the one there is.
Put(S, c, u) == {x \in S : x.client # c} \cup (IF u.entering \/ u.listed THEN {u} ELSE {})

LEMMA PutEntry ==
  ASSUME NEW S, NEW c, NEW u, u.client = c
  PROVE  /\ \A e : e # c => Entry(Put(S, c, u), e) = Entry(S, e)
         /\ Entry(Put(S, c, u), c) = IF u.entering \/ u.listed THEN {u} ELSE {}
BY DEF Put, Entry

LEMMA CarriesUpdate ==
  ASSUME TwoLeaders, NEW l \in Leader, NEW D, NEW S, NEW r, NEW c, NEW q, Carries(l, D, S, r, c, q),
         NEW t, Entry(S, c) = {t}, NEW u \in Ticket, u.client = c,
         u.listed => t.listed /\ KeyOf(u) = KeyOf(t), u \in Punctual \/ ~(u.entering \/ u.listed)
  PROVE  Carries(l, Update(D, t, u), Put(S, c, u), r, c, q)
<1> DEFINE E == Update(D, t, u)
<1>1. Prompt(l, D) /\ D.tickets = S /\ D \in Context
  BY DEF Carries, Prompt, Sound
<1>2. t \in S /\ t.client = c /\ \A x \in S \ {t} : x.client # c
  BY DEF Entry
<1>3. Prompt(l, E)
  BY <1>1, <1>2, PromptUpdate
<1>4. E.tickets = Alive((S \ {t}) \cup {u}) /\ E.out = D.out /\ E.mail = D.mail
  BY <1>1 DEF Update, Context
<1>5. \A x \in S : x.entering \/ x.listed
  BY <1>1, PromptTickets
<1>6. Alive((S \ {t}) \cup {u}) = Put(S, c, u)
  BY <1>2, <1>5 DEF Alive, Put
<1> HIDE DEF E
<1>7. Carries(l, E, Put(S, c, u), r, c, q)
  BY <1>3, <1>4, <1>6 DEF Carries
<1> QED
  BY <1>7 DEF E

\* The world that such a context leads to.
Handles(v, w, l, c, r, S, q) ==
  /\ Acts(l, c, r, v, w) /\ w.tickets[l] = S
  /\ q = <<>> => w.mail[c] = v.mail[c]
  /\ \A n \in Notice : q = <<n>> =>
       w.mail[c][l] = Append(v.mail[c][l], n) /\ w.mail[c][Other(l)] = v.mail[c][Other(l)]

LEMMA Handled ==
  ASSUME TwoLeaders, TypeInv, Timely, NEW s \in Node, NEW l \in Leader, net[s][l] # <<>>,
         NEW E, NEW S, NEW r \in Seq(Message), NEW c \in Client, NEW q, Carries(l, E, S, r, c, q),
         Lacks(r, Apart(c)), \A e \in Client \ {c} : Entry(S, e) = Entry(tickets[l], e)
  PROVE  Handles(After(s, l, Here(l)), After(s, l, E), l, c, r, S, q)
<1> DEFINE D == Here(l)
           v == After(s, l, D)
           w == After(s, l, E)
           o == Other(l)
<1>1. Carries(l, D, tickets[l], <<>>, c, <<>>)
  BY CarriesHere
<1> HIDE DEF D, o
<1>2. E.out[o] = D.out[o] \o r
  <2>1. <<>> \o r = r
    OBVIOUS
  <2>2. D.out[o] = <<>> /\ E.out[o] = r
    BY <1>1 DEF o, Carries
  <2> QED BY <2>1, <2>2
<1>3. Sound(l, D) /\ Sound(l, E)
  BY <1>1 DEF Prompt, Carries
<1>4. \A e \in Client \ {c} : Entry(E.tickets, e) = Entry(D.tickets, e) /\ E.mail[e] = D.mail[e]
  BY <1>1 DEF Carries
<1> HIDE DEF v, w
<1>5. Acted(v, w, l, c, r, D, E)
  BY <1>2, <1>3, <1>4, Acting DEF v, w, o
<1>6. \A n \in Notice : Append(D.mail[c], n) = <<n>>
  <2>1. D.mail[c] = <<>>
    BY <1>1 DEF Carries
  <2>2. \A n \in Notice : Append(<<>>, n) = <<n>>
    OBVIOUS
  <2> QED BY <2>1, <2>2
<1>7. w.tickets[l] = S
  BY <1>5 DEF Acted, Carries
<1>8. q = <<>> => w.mail[c] = v.mail[c]
  BY <1>1, <1>5 DEF Acted, Carries
<1>9. \A n \in Notice : q = <<n>> =>
        w.mail[c][l] = Append(v.mail[c][l], n) /\ w.mail[c][o] = v.mail[c][o]
  <2> SUFFICES ASSUME NEW n \in Notice, q = <<n>>
               PROVE  w.mail[c][l] = Append(v.mail[c][l], n) /\ w.mail[c][o] = v.mail[c][o]
    OBVIOUS
  <2>1. E.mail[c] = Append(D.mail[c], n)
    BY <1>6 DEF Carries
  <2> QED BY <1>5, <2>1 DEF Acted, o
<1>10. Acts(l, c, r, v, w)
  BY <1>5 DEF Acted
<1>11. Handles(v, w, l, c, r, S, q)
  BY <1>7, <1>8, <1>9, <1>10 DEF Handles, o
<1> QED
  BY <1>11 DEF v, w, D

\* A message about c and how it is sent.
LEMMA Posting ==
  ASSUME NEW c \in Client, NEW key \in Key, key.client = c,
         NEW type \in {"LOCK_ENTERED", "GET_MAX_TICKET", "TICKET_ADDED", "LOCK_EXITING", "TICKET_READY",
                       "ACTIVATE_LOCK", "DROP_TICKET"}
  PROVE  /\ Msg(type, key) \in InTime /\ Msg(type, key) \in Message /\ Msg(type, key) \in Of(c, {type})
         /\ Msg(type, key) \notin Apart(c) /\ Msg(type, key).key = key /\ Msg(type, key).type = type
         /\ Lacks(<<Msg(type, key)>>, Apart(c)) /\ <<Msg(type, key)>> \in Seq(Message)
<1> DEFINE m == Msg(type, key)
<1>1. m \in Message /\ m.type = type /\ m.key = key
  BY MsgType DEF Msg
<1> HIDE DEF m
<1>2. m \in InTime /\ m \in Of(c, {type}) /\ m \notin Apart(c)
  BY <1>1 DEF InTime, Of, Apart
<1>3. Lacks(<<m>>, Apart(c)) /\ <<m>> \in Seq(Message)
  BY <1>1, <1>2, OneMessage
<1> QED
  BY <1>1, <1>2, <1>3 DEF m

LEMMA PostingEntering ==
  ASSUME NEW c \in Client, NEW n \in Nat, n > LastDate
  PROVE  LET x == [Msg("LOCK_ENTERING", EnteringKey(c)) EXCEPT !.value = n]
         IN  x \in InTime /\ x \in Of(c, {"LOCK_ENTERING"}) /\ Lacks(<<x>>, Apart(c)) /\ <<x>> \in Seq(Message)
<1> DEFINE x == [Msg("LOCK_ENTERING", EnteringKey(c)) EXCEPT !.value = n]
<1>1. EnteringKey(c) \in Key /\ EnteringKey(c).client = c
  BY KeyTypes DEF EnteringKey
<1>2. x = [type |-> "LOCK_ENTERING", key |-> EnteringKey(c), value |-> n, other |-> NoKey]
  BY DEF Msg
<1>3. x \in Message /\ x.type = "LOCK_ENTERING" /\ x.key = EnteringKey(c) /\ x.value = n
  BY <1>1, <1>2 DEF Message
<1> HIDE DEF x
<1>4. x \in InTime /\ x \in Of(c, {"LOCK_ENTERING"}) /\ x \notin Apart(c)
  BY <1>1, <1>3 DEF InTime, Of, Apart
<1> QED
  BY <1>3, <1>4, OneMessage DEF x

\* What the client is told.
LEMMA Notices ==
  ASSUME NEW type \in {"ALIVE", "LOCK_FAILED", "UNLOCKED"}
  PROVE  Note(type) \in Gentle /\ Note(type) \in Notice /\ Note(type).type = type
BY DEF Note, Gentle, Notice

\* LOCK
LEMMA PairsLock ==
  ASSUME TwoLeaders, TypeInv, Timely, NEW home, NEW g, Pairing(home, g, Now),
         NEW s \in Node, NEW l \in Leader, MsgLock(s, l)
  PROVE  Advances(s, l, home, g)
<1> DEFINE m == Head(net[s][l])
           c == m.key.client
           D == Here(l)
           v == After(s, l, D)
           t == NewTicket(c, l, m.value)
           limit == IF now + AliveTimeout < m.value THEN now + AliveTimeout ELSE m.value
           waiting == [t EXCEPT !.alive = limit]
           x == [Msg("LOCK_ENTERING", EnteringKey(c)) EXCEPT !.value = m.value]
           S == tickets[l]
           n1 == Note("LOCK_FAILED")
           n2 == Note("ALIVE")
           D2 == [D EXCEPT !.tickets = @ \cup {waiting}]
           D3 == [D EXCEPT !.tickets = @ \cup {t}]
           F1 == TellClient(D, c, n1)
           F2 == TellClient(D2, c, n2)
           F3 == SendToLeaders(D3, x)
<1>1. net[s][l] # <<>> /\ m.type = "LOCK"
  BY DEF MsgLock, Arrived
<1>2. Begins("LOCK", m, c, s, l, l, home, g, v)
  BY <1>1, AskBegins
<1> HIDE DEF m
<1>3. /\ c \in Client /\ g[c] = "LOCK" /\ home \in [Client -> Leader] /\ g \in [Client -> Stage]
      /\ Core(home, g, v) /\ Quiet(c, v) /\ Own(c, l, "LOCK", v) /\ v.tickets[l] = S
      /\ \A e \in Client \ {c} : Quits(e, home[e], g[e], v)
  BY <1>2 DEF Begins
<1>4. /\ m.value \in Nat /\ m.value > LastDate /\ m.value > now /\ now \in Nat /\ LastDate \in Nat
      /\ now + AliveTimeout \in Nat /\ now + AliveTimeout > LastDate
  <2>1. now \in Nat /\ 1 <= now /\ now <= LastDate
    BY DEF Timely, TypeInv, TypeOK
  <2>2. LastDate \in Nat /\ now + AliveTimeout \in Nat /\ now + AliveTimeout > LastDate
    BY <2>1, Dates
  <2>3. m.value \in Nat /\ m.value > LastDate
    BY <1>1, <1>2 DEF Begins, InTime
  <2> QED BY <2>1, <2>2, <2>3
<1> HIDE DEF c, v
<1>5. /\ Fresh(t, c, l) /\ Fresh(waiting, c, l) /\ t.client = c /\ t.obtention = m.value
  <2>1. limit \in Nat /\ limit > LastDate
    BY <1>4
  <2> HIDE DEF limit
  <2>2. Fresh(t, c, l) /\ Fresh(waiting, c, l)
    BY <1>3, <1>4, <2>1, FreshTicket
  <2> QED BY <2>2 DEF NewTicket
<1> HIDE DEF t, waiting
<1>6. Rid(c, l, v)
  <2>1. "LOCK" \in Outside
    BY DEF Outside
  <2> QED BY <1>3, <2>1 DEF Own, Keeps
<1>7. Carries(l, D, S, <<>>, c, <<>>)
  BY <1>3, CarriesHere
<1>8. D \in Context /\ D.me = l /\ D.tickets = S /\ Cleanup(D) = D /\ ~OneLeader(D)
  <2>1. Prompt(l, D) /\ D.tickets = S /\ D.me = l
    BY HerePrompt
  <2>2. Cleanup(D) = D /\ ~OneLeader(D) /\ D \in Context
    BY <2>1, NothingExpires, PromptTickets
  <2> QED BY <2>1, <2>2
<1> HIDE DEF D, x, n1, n2, S
<1>9. n1 \in Gentle /\ n1 \in Notice /\ n2 \in Gentle /\ n2 \in Notice
  BY Notices DEF n1, n2
<1>10. x \in InTime /\ x \in Of(c, {"LOCK_ENTERING"}) /\ Lacks(<<x>>, Apart(c)) /\ <<x>> \in Seq(Message)
  BY <1>3, <1>4, PostingEntering DEF x
<1>11. /\ Carries(l, F1, S, <<>>, c, <<n1>>)
       /\ Carries(l, F2, S \cup {waiting}, <<>>, c, <<n2>>)
       /\ Carries(l, F3, S \cup {t}, <<x>>, c, <<>>)
  <2>1. Carries(l, F1, S, <<>>, c, <<n1>>)
    BY <1>3, <1>7, <1>9, CarriesNotice
  <2>2. Carries(l, D2, S \cup {waiting}, <<>>, c, <<>>)
    BY <1>3, <1>5, <1>7, CarriesNew
  <2>3. Carries(l, D3, S \cup {t}, <<>>, c, <<>>)
    BY <1>3, <1>5, <1>7, CarriesNew
  <2> HIDE DEF D2, D3
  <2>4. Carries(l, F2, S \cup {waiting}, <<>>, c, <<n2>>)
    BY <1>3, <1>9, <2>2, CarriesNotice
  <2>5. Carries(l, F3, S \cup {t}, <<x>>, c, <<>>)
    BY <1>3, <1>10, <2>3, CarriesSend
  <2> QED BY <2>1, <2>4, <2>5
<1>12. Cleanup(F2) = F2 /\ Cleanup(F3) = F3
  <2> HIDE DEF F1, F2, F3
  <2> QED BY <1>11, CarriesCleanup
<1>13. EnteringOf(D, c) = {} /\ (~Known(D, c) => Entry(S, c) = {})
  <2>1. Entry(S, c) = {} \/ \E y \in Ticket : Entry(S, c) = {y} /\ y.listed /\ ~y.entering
    BY <1>3, <1>6, RidCases
  <2> QED BY <1>8, <2>1 DEF EnteringOf, ListedOf, Known, Entry
<1>14. Enter(D3, t) = F3
  <2>1. ~OneLeader(D3)
    BY <1>8 DEF OneLeader, Context
  <2> QED BY <1>5, <2>1 DEF Enter, x
<1>15. \/ Done(s, l, F1)
       \/ Done(s, l, F2) /\ Entry(S, c) = {}
       \/ Done(s, l, F3) /\ Entry(S, c) = {}
  <2>1. PICK F \in Locking(Cleanup(Here(l)), Received(s, l), CheckAlive) : Done(s, l, F)
    BY DEF MsgLock
  <2>2. Cleanup(Here(l)) = D /\ Received(s, l) = m
    BY <1>8 DEF D, Received, m
  <2>3. F \in Locking(D, m, CheckAlive)
    BY <2>1, <2>2
  <2>4. Known(D, c) => Refused(D, m)
    BY DEF Refused, c
  <2>5. ~EnterOverflows(D, t)
    BY <1>8 DEF EnterOverflows
  <2>6. F \in IF Refused(D, m) THEN {F1}
              ELSE IF CheckAlive THEN {Cleanup(F2)} ELSE {Cleanup(Enter(D3, t))}
    BY <1>8, <1>13, <2>3, <2>5, Zenon DEF Locking, c, t, waiting, limit, n1, n2
  <2> HIDE DEF F1, F2, F3
  <2> QED BY <1>12, <1>13, <1>14, <2>1, <2>4, <2>6
<1> HIDE DEF F1, F2, F3
<1>16. CASE Done(s, l, F1)
  <2> DEFINE w == After(s, l, F1)
  <2>1. <<>> \in Seq(Message) /\ Lacks(<<>>, Apart(c))
    BY DEF Lacks
  <2>2. /\ Acts(l, c, <<>>, v, w) /\ w.tickets[l] = S
        /\ w.mail[c][l] = Append(v.mail[c][l], n1) /\ w.mail[c][Other(l)] = v.mail[c][Other(l)]
    <3>1. Handles(v, w, l, c, <<>>, S, <<n1>>)
      BY <1>1, <1>3, <1>11, <2>1, Handled DEF v, D, S
    <3> QED BY <1>9, <3>1 DEF Handles
  <2> HIDE DEF w
  <2>3. Pairing(Home(home, c, l), To(g, c, "LOCK_FAILED"), w)
    BY <1>3, <2>2, LockRefused DEF n1
  <2>4. "LOCK_FAILED" \in Stage /\ StateOf("LOCK_FAILED") = StateOf(g[c])
    BY <1>3 DEF Stage, Outside, StateOf
  <2>5. Prompt(l, F1)
    BY <1>11 DEF Carries
  <2> QED BY <1>3, <1>16, <2>3, <2>4, <2>5, Settles DEF w
<1>17. CASE Done(s, l, F2) /\ Entry(S, c) = {}
  <2> DEFINE w == After(s, l, F2)
  <2>1. <<>> \in Seq(Message) /\ Lacks(<<>>, Apart(c))
    BY DEF Lacks
  <2>2. Entry(S \cup {waiting}, c) = {waiting} /\ \A e \in Client \ {c} : Entry(S \cup {waiting}, e) = Entry(S, e)
    BY <1>5, <1>17 DEF Entry, Fresh
  <2>3. /\ Acts(l, c, <<>>, v, w) /\ w.tickets[l] = S \cup {waiting}
        /\ w.mail[c][l] = Append(v.mail[c][l], n2) /\ w.mail[c][Other(l)] = v.mail[c][Other(l)]
    <3>1. Handles(v, w, l, c, <<>>, S \cup {waiting}, <<n2>>)
      BY <1>1, <1>3, <1>11, <2>1, <2>2, Handled DEF v, D, S
    <3> QED BY <1>9, <3>1 DEF Handles
  <2> HIDE DEF w
  <2>4. Pairing(Home(home, c, l), To(g, c, "ALIVE"), w)
    BY <1>3, <1>5, <1>17, <2>2, <2>3, LockTaken DEF n2
  <2>5. "ALIVE" \in Stage /\ StateOf("ALIVE") = StateOf(g[c])
    BY <1>3 DEF Stage, Opening, StateOf
  <2>6. Prompt(l, F2)
    BY <1>11 DEF Carries
  <2> QED BY <1>3, <1>17, <2>4, <2>5, <2>6, Settles DEF w
<1>18. CASE Done(s, l, F3) /\ Entry(S, c) = {}
  <2> DEFINE w == After(s, l, F3)
  <2>1. Entry(S \cup {t}, c) = {t} /\ \A e \in Client \ {c} : Entry(S \cup {t}, e) = Entry(S, e)
    BY <1>5, <1>18 DEF Entry, Fresh
  <2>2. Acts(l, c, <<x>>, v, w) /\ w.tickets[l] = S \cup {t} /\ w.mail[c] = v.mail[c]
    <3>1. Handles(v, w, l, c, <<x>>, S \cup {t}, <<>>)
      BY <1>1, <1>3, <1>10, <1>11, <2>1, Handled DEF v, D, S
    <3> QED BY <3>1 DEF Handles
  <2> HIDE DEF w
  <2>3. Pairing(Home(home, c, l), To(g, c, "LOCK_ENTERING"), w)
    BY <1>3, <1>5, <1>10, <1>18, <2>1, <2>2, LockTaken
  <2>4. "LOCK_ENTERING" \in Stage /\ StateOf("LOCK_ENTERING") = StateOf(g[c])
    BY <1>3 DEF Stage, Opening, StateOf
  <2>5. Prompt(l, F3)
    BY <1>11 DEF Carries
  <2> QED BY <1>3, <1>18, <2>3, <2>4, <2>5, Settles DEF w
<1> QED
  BY <1>15, <1>16, <1>17, <1>18

\* The message m takes the request of c on to stage st, h being its home: leader l sends it to
\* the other leader o, and says nothing to the client.
Wired(l, o, c, m, st, v, w) ==
  /\ w.net[o][l] = v.net[o][l] /\ m \notin Grants(c) \cup Drops(c)
  /\ Free(v.net[l][o], c) /\ Free(v.net[o][l], c) /\ Free(w.net[o][l], c)
  /\ \A S : Lacks(v.net[l][o], S) /\ m \notin S => Lacks(w.net[l][o], S)
  /\ \A A : m \notin A => Ahead(w.net[l][o], A, Of(c, {st}))
Posts(l, o, h, c, m, st, v, w) ==
  /\ Sides(l, o, c, v, w) /\ Talks(c, h, st, w) /\ Moves(c, h, st, w)
  /\ Left(c, l, w) <=> Left(c, l, v)
  /\ Left(c, o, w) <=> Left(c, o, v)
  /\ Rid(c, o, v) => Rid(c, o, w)

LEMMA PostsSome ==
  ASSUME TwoLeaders, NEW l \in Leader, NEW c \in Client, NEW v, NEW w, NEW st \in Down \cup Up,
         NEW m \in Of(c, {st}), Acts(l, c, <<m>>, v, w), Quiet(c, v), w.mail[c] = v.mail[c],
         \A k \in Leader : Once(v.net[k][Other(k)], Drops(c))
  PROVE  /\ Wired(l, Other(l), c, m, st, v, w)
         /\ st \in Down => Posts(l, Other(l), l, c, m, st, v, w)
         /\ st \in Up => Posts(l, Other(l), Other(l), c, m, st, v, w)
<1> DEFINE o == Other(l)
           r == <<m>>
<1>1. Sides(l, o, c, v, w)
  BY OneWorld DEF Worlds
<1>2. Wires(l, o, r, v, w)
  BY OneWorld DEF Worlds
<1> HIDE DEF o
<1>3. m \in Message /\ m \notin Grants(c) \cup Drops(c) /\ r \in Seq(Message)
  BY DEF Of, Grants, Drops, Dones, Down, Up
<1>4. \A S : Lacks(r, S) <=> m \notin S
  BY <1>3, OneMessage
<1>14. Acts(l, c, r, v, w)
  OBVIOUS
<1> HIDE DEF r
<1>5. Free(v.net[l][o], c) /\ Free(v.net[o][l], c)
  BY <1>1 DEF Quiet, Sides
<1>6. \A S : Lacks(v.net[l][o], S) /\ m \notin S => Lacks(w.net[l][o], S)
  BY <1>2, <1>4, LacksConcat DEF Wires
<1>7. ASSUME NEW A, m \notin A PROVE Ahead(w.net[l][o], A, Of(c, {st}))
  <2>1. {st} \subseteq Steps
    BY DEF Steps
  <2>2. Lacks(v.net[l][o], Of(c, {st}))
    BY <1>5, <2>1, FreeLacks
  <2>3. Ahead(v.net[l][o], A, Of(c, {st}))
    BY <2>2, LacksAhead
  <2> QED BY <1>2, <1>4, <1>7, <2>3, AheadJoin DEF Wires
<1>8. Wired(l, o, c, m, st, v, w)
  BY <1>2, <1>3, <1>5, <1>6, <1>7 DEF Wired, Wires
<1>9. /\ \A k \in Leader : Left(c, k, w) <=> Left(c, k, v)
      /\ \A k \in Leader : Entry(w.tickets[k], c) = Entry(v.tickets[k], c) /\ Rid(c, k, v) => Rid(c, k, w)
      /\ \A k \in Leader : Once(w.net[k][Other(k)], Drops(c))
  <2>1. Lacks(r, Drops(c))
    BY <1>3, <1>4
  <2> QED BY <1>14, <2>1, ActsDrops
<1>10. Rid(c, o, v) => Rid(c, o, w)
  BY <1>1, <1>9 DEF Sides
<1>11. Talks(c, l, st, w) /\ Talks(c, o, st, w)
  <2>1. w.net[c] = v.net[c] /\ l \in Leader /\ o \in Leader
    BY <1>1 DEF Sides
  <2> QED BY <2>1, TalksSilent
<1>12. /\ Left(c, l, w) <=> Left(c, l, v)
       /\ Left(c, o, w) <=> Left(c, o, v)
  BY <1>1, <1>9 DEF Sides
<1>13. st \in Down => Moves(c, l, st, w)
  BY <1>9, MovesDown
<1>15. st \in Up => Moves(c, o, st, w)
  BY <1>9, MovesUp DEF o
<1>16. /\ st \in Down => Posts(l, o, l, c, m, st, v, w)
       /\ st \in Up => Posts(l, o, o, c, m, st, v, w)
  BY <1>1, <1>10, <1>11, <1>12, <1>13, <1>15 DEF Posts
<1> QED
  BY <1>8, <1>16 DEF o

\* The other leader gets a ticket of its own, and answers.
LEMMA EnteringTaken ==
  ASSUME TwoLeaders, NEW l \in Leader, NEW c \in Client, NEW v, NEW w,
         NEW m \in Of(c, {"LOCK_ENTERED"}), Acts(l, c, <<m>>, v, w), Quiet(c, v), w.mail[c] = v.mail[c],
         NEW home, NEW g, Core(home, g, v), Own(c, Other(l), "LOCK_ENTERING", v),
         \A e \in Client \ {c} : Quits(e, home[e], g[e], v),
         Lacks(v.net[Other(l)][l], Grants(c) \cup Drops(c)),
         NEW t, Fresh(t, c, Other(l)), Entry(w.tickets[l], c) = {t}
  PROVE  Pairing(Home(home, c, Other(l)), To(g, c, "LOCK_ENTERED"), w)
<1> DEFINE o == Other(l)
<1>0. "LOCK_ENTERED" \in Up
  BY DEF Up
<1>1. Wired(l, o, c, m, "LOCK_ENTERED", v, w) /\ Posts(l, o, o, c, m, "LOCK_ENTERED", v, w)
  <2>1. \A k \in Leader : Once(v.net[k][Other(k)], Drops(c))
    BY DEF Own, Moves
  <2> QED BY <1>0, <2>1, PostsSome
<1>2. Own(c, o, "LOCK_ENTERING", v) /\ Lacks(v.net[o][l], Grants(c) \cup Drops(c)) /\ Fresh(t, c, o)
  OBVIOUS
<1>3. Sides(l, o, c, v, w) /\ Other(l) = o /\ Other(o) = l
  BY <1>1 DEF Posts, Sides
<1> HIDE DEF o
<1>4. /\ Talks(c, o, "LOCK_ENTERED", w) /\ Moves(c, o, "LOCK_ENTERED", w)
      /\ Left(c, l, w) <=> Left(c, l, v)
      /\ Left(c, o, w) <=> Left(c, o, v)
  BY <1>1 DEF Posts
<1>5. PICK u \in Ticket : Entry(v.tickets[o], c) = {u} /\ AtHome(u, o, "LOCK_ENTERING")
  BY <1>2 DEF Own, Keeps, Outside
<1>6. ~Left(c, l, w) /\ ~Left(c, o, w)
  <2>1. ~Left(c, l, v)
    BY <1>2, <1>3 DEF Left, Lacks
  <2>2. ~Left(c, o, v)
    BY <1>2 DEF Own, Keeps, Outside
  <2> QED BY <1>4, <2>1, <2>2
<1>7. Entry(w.tickets[o], c) = {u}
  BY <1>3, <1>5 DEF Sides
<1>8. Keeps(c, o, "LOCK_ENTERED", w)
  <2>1. AtHome(u, o, "LOCK_ENTERED")
    BY <1>5 DEF AtHome, Opening, Choosing, Late, Granted
  <2>2. AtOther(t, o, "LOCK_ENTERED") /\ t \in Ticket
    BY <1>2 DEF Fresh, AtOther, Choosing, Late, Granted
  <2>3. Lacks(w.net[o][l], {y \in Of(c, {"ADD_TICKET"}) : y.key # KeyOf(u)})
    BY <1>1 DEF Wired, Free, Lacks, Of, Steps, Down
  <2>4. "LOCK_ENTERED" \notin {"TICKET_ADDED"} \cup Late /\ "LOCK_ENTERED" \notin Outside \cup Opening
    BY DEF Late, Granted, Outside, Opening
  <2> QED BY <1>3, <1>6, <1>7, <2>1, <2>2, <2>3, <2>4, KeepsInside
<1>9. InOrder(c, o, "LOCK_ENTERED", w)
  <2>1. Lacks(w.net[o][l], Grants(c))
    BY <1>1, <1>2 DEF Wired, Lacks
  <2>2. Ahead(w.net[l][o], Grants(c), Of(c, {"LOCK_ENTERED"}))
    BY <1>1 DEF Wired
  <2> QED BY <1>3, <2>1, <2>2 DEF InOrder, Choosing
<1>10. Own(c, o, "LOCK_ENTERED", w) /\ o \in Leader
  BY <1>3, <1>4, <1>8, <1>9 DEF Own, Sides
<1>11. /\ Entry(v.tickets[l], c) = {} \/ \E y \in Ticket : Entry(v.tickets[l], c) = {y} /\ ~y.entering
       /\ ~t.listed /\ ~t.quorum
  <2>1. Rid(c, l, v)
    BY <1>2, <1>3 DEF Own, Keeps, Opening
  <2> QED BY <1>2, <2>1, RidCases DEF Fresh
<1>12. "LOCK_ENTERED" \in Stage \ Late
  BY DEF Stage, Late, Granted
<1>13. Pairing(Home(home, c, o), To(g, c, "LOCK_ENTERED"), w)
  BY <1>10, <1>11, <1>12, EarlyTo
<1> QED
  BY <1>13 DEF o

LEMMA PairsLockEntering ==
  ASSUME TwoLeaders, TypeInv, Timely, NEW home, NEW g, Pairing(home, g, Now),
         NEW s \in Node, NEW l \in Leader, MsgLockEntering(s, l)
  PROVE  Advances(s, l, home, g)
<1> DEFINE m == Head(net[s][l])
           c == m.key.client
           o == Other(l)
           D == Here(l)
           v == After(s, l, D)
           t == NewTicket(c, s, m.value)
           S == tickets[l]
           T == S \cup {t}
           E == [D EXCEPT !.tickets = @ \cup {t}]
           x == Msg("LOCK_ENTERED", m.key)
           F == Tell(E, s, x)
           w == After(s, l, F)
<1>1. net[s][l] # <<>> /\ m.type = "LOCK_ENTERING"
  BY DEF MsgLockEntering, Arrived
<1>2. Begins("LOCK_ENTERING", m, c, s, l, o, home, g, v) /\ o = s
  <2>1. "LOCK_ENTERING" \in Down
    BY DEF Down
  <2> QED BY <1>1, <2>1, DownBegins
<1>3. o \in Leader /\ Other(l) = o /\ Other(o) = l
  BY OtherLeader
<1> HIDE DEF m, o
<1>4. /\ c \in Client /\ g[c] = "LOCK_ENTERING" /\ home \in [Client -> Leader] /\ g \in [Client -> Stage]
      /\ Core(home, g, v) /\ Quiet(c, v) /\ Own(c, o, "LOCK_ENTERING", v) /\ v.tickets[l] = S
      /\ m.key \in Key /\ m \in Of(c, {"LOCK_ENTERING"})
      /\ \A e \in Client \ {c} : Quits(e, home[e], g[e], v)
  BY <1>2 DEF Begins
<1>5. /\ m.value \in Nat /\ m.value > LastDate /\ m.value > now /\ now \in Nat /\ LastDate \in Nat
  <2>1. now \in Nat /\ 1 <= now /\ now <= LastDate
    BY DEF Timely, TypeInv, TypeOK
  <2>2. LastDate \in Nat
    BY <2>1, Dates
  <2>3. m.value \in Nat /\ m.value > LastDate
    BY <1>1, <1>2 DEF Begins, InTime
  <2> QED BY <2>1, <2>2, <2>3
<1>6. Lacks(v.net[o][l], Grants(c) \cup Drops(c))
  <2>1. Own(c, o, "LOCK_ENTERING", Now) /\ Read(v, s, l, o)
    BY <1>2, <1>3 DEF Begins
  <2>2. Ahead(net[o][l], Grants(c) \cup Drops(c), Of(c, {"LOCK_ENTERING"}))
    BY <1>3, <2>1 DEF Own, InOrder, Now
  <2>3. net[o][l] \in Seq(Message) /\ net[o][l] # <<>> /\ Head(net[o][l]) = m
    BY <1>1, <1>2 DEF TypeInv, TypeOK, m
  <2>4. Lacks(net[o][l], Grants(c) \cup Drops(c))
    BY <1>4, <2>2, <2>3, AheadRead
  <2>5. v.net[o][l] = Tail(net[o][l])
    BY <1>2, <2>1 DEF Read
  <2> QED BY <2>3, <2>4, <2>5, LacksTail
<1>7. m.key.client = c
  OBVIOUS
<1> HIDE DEF c, v
<1>8. Fresh(t, c, o)
  BY <1>2, <1>3, <1>4, <1>5, FreshTicket
<1> HIDE DEF t
<1>9. x \in InTime /\ x \in Of(c, {"LOCK_ENTERED"}) /\ Lacks(<<x>>, Apart(c)) /\ <<x>> \in Seq(Message)
  <2> DEFINE key == m.key
  <2>1. key \in Key /\ key.client = c /\ c \in Client
    BY <1>4, <1>7
  <2> HIDE DEF key
  <2> QED BY <2>1, Posting DEF key
<1> HIDE DEF x
<1>10. Carries(l, F, T, <<x>>, c, <<>>)
  <2>1. Carries(l, D, S, <<>>, c, <<>>)
    BY <1>4, CarriesHere
  <2> HIDE DEF D
  <2>2. Carries(l, E, T, <<>>, c, <<>>)
    BY <1>4, <1>8, <2>1, CarriesNew
  <2> HIDE DEF E
  <2>3. s = Other(l)
    BY <1>2, <1>3
  <2> QED BY <1>9, <2>2, <2>3, CarriesReply
<1>11. Entry(S, c) = {}
  <2>1. Rid(c, l, v)
    BY <1>3, <1>4 DEF Own, Keeps, Opening
  <2>2. ~Left(c, l, v)
    BY <1>3, <1>6 DEF Left, Lacks
  <2> QED BY <1>4, <2>1, <2>2, RidCases
<1>12. Done(s, l, F)
  <2>1. Cleanup(F) = F
    <3> HIDE DEF F
    <3> QED BY <1>10, CarriesCleanup
  <2>2. EnteringOf(D, c) = {}
    <3>1. D.tickets = S
      BY HerePrompt
    <3> QED BY <1>11, <3>1 DEF EnteringOf, Entry
  <2>3. ~(m.value <= now) /\ D.view.ready
    <3>1. view[l] = Whole(l)
      BY DEF TypeInv, TypeOK
    <3> QED BY <1>5, <3>1 DEF Here, Start, Whole
  <2> QED BY <2>1, <2>2, <2>3, Zenon DEF MsgLockEntering, Received, t, x, m, c, Reply
<1> HIDE DEF F
<1>13. Entry(T, c) = {t} /\ \A e \in Client \ {c} : Entry(T, e) = Entry(S, e)
  BY <1>8, <1>11 DEF Entry, Fresh
<1> HIDE DEF T, S
<1>14. Acts(l, c, <<x>>, v, w) /\ w.tickets[l] = T /\ w.mail[c] = v.mail[c]
  <2>1. Handles(v, w, l, c, <<x>>, T, <<>>)
    BY <1>1, <1>4, <1>9, <1>10, <1>13, Handled DEF v, D, S
  <2> QED BY <2>1 DEF Handles
<1> HIDE DEF w
<1>15. Pairing(Home(home, c, o), To(g, c, "LOCK_ENTERED"), w)
  BY <1>4, <1>6, <1>8, <1>9, <1>13, <1>14, EnteringTaken DEF o
<1>16. "LOCK_ENTERED" \in Stage /\ StateOf("LOCK_ENTERED") = StateOf(g[c])
  BY <1>4 DEF Stage, StateOf
<1>17. Prompt(l, F)
  BY <1>10 DEF Carries
<1> QED
  BY <1>3, <1>4, <1>12, <1>15, <1>16, <1>17, Settles DEF w

=============================================================================
