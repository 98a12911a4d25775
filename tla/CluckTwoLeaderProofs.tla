------------------------ MODULE CluckTwoLeaderProofs ------------------------
(***************************************************************************)
(* Two leaders, three: the lock goes to one client at a time and in turn,  *)
(* nobody waits for a ticket that entered, and nothing is left behind, for *)
(* any number of clients and of attempts, as long as nothing takes too long*)
(* and no client gives up before it has the lock.                          *)
(***************************************************************************)
EXTENDS CluckTwoLeaderNumberProofs

-----------------------------------------------------------------------------
(* TICKET_READY, ACTIVATE_LOCK and LOCK_ACTIVATED: what the ticket they    *)
(* name can be.                                                            *)

\* No ticket that leader l has of c can make a difference to a ticket that waits.
Idly(c, l, home, g) == g[c] \in Outside \cup Granted \/ (g[c] \in Opening /\ l # home[c])

\* The ticket of c waits to come first, and l is not its home.
Awaits(c, l, home, g, w) ==
  g[c] = "WAITING" /\ l # home[c] /\ \A a \in Entry(w.tickets[home[c]], c) : a.ready

\* The ticket of c comes first in both tables.
Cleared(c, home, w) == \A a \in Entry(w.tickets[home[c]], c) : \A k \in Leader : Clear(w.tickets[k], a)

\* A client has one ticket in a table at most.
LEMMA Lone ==
  ASSUME TwoLeaders, NEW c, NEW h \in Leader, NEW st, NEW w, Own(c, h, st, w),
         NEW l \in Leader, NEW t \in Entry(w.tickets[l], c)
  PROVE  /\ Entry(w.tickets[l], c) = {t}
         /\ \/ Gone(t, l) /\ (st \in Outside \/ (st \in Opening /\ l # h))
            \/ l = h /\ st \notin Outside /\ AtHome(t, h, st)
            \/ l # h /\ st \notin Outside \cup Opening /\ AtOther(t, h, st)
<1>1. Keeps(c, h, st, w) /\ (l = h \/ l = Other(h)) /\ Other(h) # h
  BY OtherLeader DEF Own
<1>2. CASE Rid(c, l, w) /\ (st \in Outside \/ (st \in Opening /\ l # h))
  <2>1. PICK x : Entry(w.tickets[l], c) = {x} /\ Gone(x, l)
    BY <1>2, RidCases
  <2> QED BY <1>2, <2>1
<1>3. CASE l = h /\ st \notin Outside
  <2>1. PICK x \in Ticket : Entry(w.tickets[h], c) = {x} /\ AtHome(x, h, st)
    BY <1>1, <1>3 DEF Keeps
  <2> QED BY <1>3, <2>1
<1>4. CASE l = Other(h) /\ st \notin Outside \cup Opening
  <2>1. PICK x \in Ticket : Entry(w.tickets[Other(h)], c) = {x} /\ AtOther(x, h, st)
    BY <1>1, <1>4 DEF Keeps
  <2> QED BY <1>1, <1>4, <2>1
<1> QED
  BY <1>1, <1>2, <1>3, <1>4 DEF Keeps

\* The ticket that such a message names.
Promise(m, t, c, l, home, g, w) ==
  /\ Entry(w.tickets[l], c) = {t}
  /\ \/ t.ready /\ t.locked /\ Idly(c, l, home, g)
     \/ ~t.quorum /\ t.owner # l /\ (Idly(c, l, home, g) \/ Awaits(c, l, home, g, w))
     \/ /\ l = home[c] /\ g[c] = "WAITING" /\ t.owner = l /\ t.quorum /\ t.ready /\ ~t.locked
        /\ m.type # "TICKET_READY"
  /\ (m \in Dones(c) \/ (m.type = "ACTIVATE_LOCK" /\ Clear(w.tickets[l], t))) /\ g[c] = "WAITING" =>
       Cleared(c, home, w)

LEMMA Promised ==
  ASSUME TwoLeaders, TypeInv, NEW home, NEW g, Pairing(home, g, Now), NEW c \in Client,
         NEW l \in Leader, net[Other(l)][l] # <<>>, NEW m, m = Head(net[Other(l)][l]), m \in Grants(c),
         NEW t \in Entry(tickets[l], c), t.listed
  PROVE  Promise(m, t, c, l, home, g, Now)
<1> DEFINE h == home[c]
           st == g[c]
           o == Other(l)
           p == net[o][l]
<1>1. /\ home \in [Client -> Leader] /\ g \in [Client -> Stage] /\ h \in Leader
      /\ Own(c, h, st, Now) /\ Sure(c, h, st, Now) /\ Quits(c, h, st, Now)
  BY DEF Pairing, Core
<1>2. Now.tickets = tickets /\ Now.net = net
  BY DEF Now
<1>3. o \in Leader /\ o # l /\ Other(o) = l /\ Leader = {l, o} /\ Other(h) \in Leader /\ (l # h => h = o)
  BY <1>1, OtherLeader
<1> HIDE DEF o
<1>4. p \in Seq(Message) /\ p # <<>> /\ Head(p) = m
  BY <1>3 DEF TypeInv, TypeOK, Node, o
<1> HIDE DEF p
<1>5. 1 \in DOMAIN p /\ p[1] = m
  BY <1>4, TailIndex
<1>6. \A X : m \in X => ~Lacks(p, X)
  BY <1>5 DEF Lacks
<1>7. ~Lacks(p, Grants(c))
  BY <1>6
<1>8. t.client = c /\ Entry(tickets[l], c) = {t}
      /\ \/ Gone(t, l) /\ (st \in Outside \/ (st \in Opening /\ l # h))
         \/ l = h /\ st \notin Outside /\ AtHome(t, h, st)
         \/ l # h /\ st \notin Outside \cup Opening /\ AtOther(t, h, st)
  <2>1. t \in Entry(Now.tickets[l], c)
    BY <1>2
  <2>2. /\ Entry(Now.tickets[l], c) = {t}
        /\ \/ Gone(t, l) /\ (st \in Outside \/ (st \in Opening /\ l # h))
           \/ l = h /\ st \notin Outside /\ AtHome(t, h, st)
           \/ l # h /\ st \notin Outside \cup Opening /\ AtOther(t, h, st)
    <3> HIDE DEF h, st
    <3> QED BY <1>1, <2>1, Lone, ZenonT(30)
  <2> QED BY <1>2, <2>1, <2>2 DEF Entry
<1> DEFINE A == \/ t.ready /\ t.locked /\ Idly(c, l, home, g)
                \/ ~t.quorum /\ t.owner # l /\ (Idly(c, l, home, g) \/ Awaits(c, l, home, g, Now))
                \/ /\ l = home[c] /\ g[c] = "WAITING" /\ t.owner = l /\ t.quorum /\ t.ready /\ ~t.locked
                   /\ m.type # "TICKET_READY"
           B == (m \in Dones(c) \/ (m.type = "ACTIVATE_LOCK" /\ Clear(tickets[l], t))) /\ g[c] = "WAITING" =>
                  Cleared(c, home, Now)
<1>9. CASE Gone(t, l) /\ (st \in Outside \/ (st \in Opening /\ l # h))
  <2>1. A
    BY <1>9 DEF Gone, Idly
  <2>2. g[c] # "WAITING"
    BY <1>9 DEF Outside, Opening
  <2> HIDE DEF A
  <2>3. B
    BY <2>2
  <2> HIDE DEF B
  <2> QED BY <1>2, <1>8, <2>1, <2>3 DEF Promise, A, B
<1>10. CASE l = h /\ st \notin Outside /\ AtHome(t, h, st)
  <2>1. Now.net[Other(h)][h] = p /\ Now.tickets[h] = tickets[h] /\ Now.tickets[o] = tickets[o]
    BY <1>2, <1>3, <1>10 DEF p, o
  <2>2. st \notin Choosing
    BY <1>1, <1>7, <2>1 DEF Own, InOrder
  <2>3. st # "LOCK_EXITING"
    BY <1>1, <1>7, <2>1 DEF Own, InOrder
  <2>4. st \in {"WAITING"} \cup Granted
    BY <1>10, <2>2, <2>3 DEF AtHome, Choosing, Late
  <2>5. t.owner = l /\ (t.locked <=> st \in Granted) /\ (t.locked => t.ready) /\ t.quorum
    BY <1>10, <2>4 DEF AtHome, Late
  <2>6. CASE st = "WAITING"
    <3>1. m.type # "TICKET_READY"
      <4>1. Lacks(p, Of(c, {"TICKET_READY"}))
        BY <1>1, <2>1, <2>6 DEF Own, InOrder
      <4>2. m \notin Of(c, {"TICKET_READY"})
        BY <1>6, <4>1
      <4>3. m \in Message /\ m.key.client = c
        BY DEF Grants, Dones, Of
      <4> QED BY <4>2, <4>3 DEF Of
    <3>2. /\ ~Lacks(p, Grants(c)) => t.ready
          /\ ~Lacks(p, Of(c, {"ACTIVATE_LOCK"})) => Clear(tickets[Other(h)], t)
          /\ ~Lacks(p, Dones(c)) => Clear(tickets[h], t) /\ Clear(tickets[Other(h)], t)
      <4> HIDE DEF h, st
      <4> QED BY <1>1, <1>2, <1>8, <1>10, <2>1, <2>6 DEF Sure
    <3>3. t.ready /\ ~t.locked
      BY <1>7, <2>5, <2>6, <3>2 DEF Granted
    <3>4. A
      BY <1>10, <2>5, <2>6, <3>1, <3>3
    <3>5. ASSUME m \in Dones(c) \/ (m.type = "ACTIVATE_LOCK" /\ Clear(tickets[l], t))
          PROVE  Cleared(c, home, Now)
      <4>1. m \in Dones(c) \/ m \in Of(c, {"ACTIVATE_LOCK"})
        BY <3>5 DEF Grants, Dones, Of
      <4>2. Clear(tickets[l], t) /\ Clear(tickets[o], t)
        BY <1>6, <1>10, <3>2, <3>5, <4>1 DEF o
      <4> QED BY <1>2, <1>3, <1>8, <1>10, <4>2 DEF Cleared
    <3> HIDE DEF A
    <3>6. B
      BY <3>5
    <3> HIDE DEF B
    <3> QED BY <1>2, <1>8, <3>4, <3>6 DEF Promise, A, B
  <2>7. CASE st \in Granted
    <3>1. A
      BY <2>5, <2>7 DEF Idly
    <3>2. g[c] # "WAITING"
      BY <2>7 DEF Granted
    <3> HIDE DEF A
    <3>3. B
      BY <3>2
    <3> HIDE DEF B
    <3> QED BY <1>2, <1>8, <3>1, <3>3 DEF Promise, A, B
  <2> QED BY <2>4, <2>6, <2>7
<1>11. CASE l # h /\ st \notin Outside \cup Opening /\ AtOther(t, h, st)
  <2>0. o = h /\ Other(h) = l
    BY <1>3, <1>11
  <2>1. Now.net[h][Other(h)] = p
    BY <1>2, <2>0 DEF p
  <2>2. st \notin Choosing
    BY <1>1, <1>7, <2>1 DEF Own, InOrder
  <2>3. st # "LOCK_EXITING"
    <3> SUFFICES ASSUME st = "LOCK_EXITING" PROVE FALSE
      OBVIOUS
    <3> DEFINE X == Of(c, {"LOCK_EXITING"})
    <3>1. Ahead(p, X, Grants(c))
      BY <1>1, <2>1 DEF Own, InOrder
    <3>2. ~Lacks(p, X)
      BY <1>1, <2>1 DEF Quits
    <3> HIDE DEF X
    <3>3. PICK i \in DOMAIN p : p[i] \in X
      BY <3>2 DEF Lacks
    <3>4. i < 1
      BY <1>5, <3>1, <3>3 DEF Ahead
    <3> QED BY <1>4, <3>3, <3>4
  <2>4. st \in {"WAITING"} \cup Granted
    BY <1>11, <2>2, <2>3 DEF AtOther, Choosing, Late
  <2>5. ~t.quorum /\ t.owner # l
    BY <1>11 DEF AtOther
  <2>6. CASE st = "WAITING"
    <3>1. PICK a, y : Both(a, y, c, h, l, st, Now)
      <4>1. Keeps(c, h, st, Now)
        BY <1>1 DEF Own
      <4> HIDE DEF h, st
      <4> QED BY <1>11, <2>0, <4>1, Inside
    <3>2. y = t /\ Entry(tickets[h], c) = {a} /\ a.client = c
      BY <1>2, <1>8, <3>1 DEF Both
    <3>3. KeyOf(a) = KeyOf(t)
      <4>1. a.rank = a.number /\ t.rank = t.number /\ a.number = t.number
        BY <2>6, <3>1, <3>2 DEF Both, AtHome, AtOther, Late
      <4> QED BY <1>8, <3>2, <4>1 DEF KeyOf
    <3>4. /\ ~Lacks(p, Grants(c)) => a.ready
          /\ ~Lacks(p, Of(c, {"ACTIVATE_LOCK"})) => Clear(tickets[h], a)
          /\ ~Lacks(p, Dones(c)) => Clear(tickets[h], a) /\ Clear(tickets[Other(h)], a)
      <4> HIDE DEF h, st
      <4> QED BY <1>1, <1>2, <2>1, <2>6, <3>2 DEF Sure
    <3>5. Awaits(c, l, home, g, Now)
      BY <1>2, <1>7, <1>11, <2>6, <3>2, <3>4 DEF Awaits
    <3>6. A
      BY <2>5, <3>5
    <3>7. ASSUME m \in Dones(c) \/ (m.type = "ACTIVATE_LOCK" /\ Clear(tickets[l], t))
          PROVE  Cleared(c, home, Now)
      <4>1. m \in Dones(c) \/ m \in Of(c, {"ACTIVATE_LOCK"})
        BY <3>7 DEF Grants, Dones, Of
      <4>2. Clear(tickets[l], t) => Clear(tickets[l], a)
        BY <1>8, <3>2, <3>3 DEF Clear
      <4>3. Clear(tickets[l], a) /\ Clear(tickets[o], a)
        BY <1>6, <2>0, <3>4, <3>7, <4>1, <4>2
      <4> QED BY <1>2, <1>3, <3>2, <4>3 DEF Cleared
    <3> HIDE DEF A
    <3>8. B
      BY <3>7
    <3> HIDE DEF B
    <3> QED BY <1>2, <1>8, <3>6, <3>8 DEF Promise, A, B
  <2>7. CASE st \in Granted
    <3>1. A
      BY <2>5, <2>7 DEF Idly
    <3>2. g[c] # "WAITING"
      BY <2>7 DEF Granted
    <3> HIDE DEF A
    <3>3. B
      BY <3>2
    <3> HIDE DEF B
    <3> QED BY <1>2, <1>8, <3>1, <3>3 DEF Promise, A, B
  <2> QED BY <2>4, <2>6, <2>7
<1> QED
  BY <1>8, <1>9, <1>10, <1>11


-----------------------------------------------------------------------------
(* A mark on a ticket that does not wait.                                  *)

\* The ticket but for f_ticket_ready, f_locked and f_lock_timeout_date.
Marked(t, u) ==
  /\ u \in Ticket /\ u.client = t.client /\ u.owner = t.owner /\ u.number = t.number /\ u.rank = t.rank
  /\ u.entering = t.entering /\ u.listed = t.listed /\ u.maxAsked = t.maxAsked /\ u.added = t.added
  /\ u.quorum = t.quorum /\ u.still = t.still

\* What a leader has of a client, before and after.
Marking(X, Y) == Y = X \/ \E t, u : X = {t} /\ Y = {u} /\ ~t.quorum /\ Marked(t, u)

\* A leader that answers with LOCK_ACTIVATED, or not at all.
Answers(r, c) == r \in Seq(Message) /\ \A X : X \cap Of(c, {"LOCK_ACTIVATED"}) = {} => Lacks(r, X)

\* Why the mark does no harm.
Harmless(c, l, r, X, Y, home, g, v) ==
  \/ Y = X /\ Lacks(r, Dones(c))
  \/ Idly(c, l, home, g)
  \/ Awaits(c, l, home, g, v) /\ (Lacks(r, Dones(c)) \/ Cleared(c, home, v))

LEMMA AnswersLack ==
  ASSUME NEW r, NEW c, Answers(r, c)
  PROVE  /\ Free(r, c) /\ Lacks(r, Drops(c))
         /\ Lacks(r, Of(c, {"TICKET_READY"})) /\ Lacks(r, Of(c, {"ACTIVATE_LOCK"}))
         /\ Lacks(r, Of(c, {"LOCK_EXITING"})) /\ Lacks(r, Of(c, {"GET_MAX_TICKET"}))
         /\ Lacks(r, Dones(c)) => Lacks(r, Grants(c))
         /\ \A K : Lacks(r, {x \in Of(c, {"ADD_TICKET"}) : x.key # K})
<1>1. /\ Of(c, Steps) \cap Of(c, {"LOCK_ACTIVATED"}) = {}
      /\ Drops(c) \cap Of(c, {"LOCK_ACTIVATED"}) = {}
  BY DEF Of, Steps, Asks, Down, Up, Drops
<1>2. /\ Of(c, {"TICKET_READY"}) \cap Of(c, {"LOCK_ACTIVATED"}) = {}
      /\ Of(c, {"ACTIVATE_LOCK"}) \cap Of(c, {"LOCK_ACTIVATED"}) = {}
      /\ Of(c, {"LOCK_EXITING"}) \cap Of(c, {"LOCK_ACTIVATED"}) = {}
      /\ Of(c, {"GET_MAX_TICKET"}) \cap Of(c, {"LOCK_ACTIVATED"}) = {}
      /\ Of(c, {"TICKET_READY", "ACTIVATE_LOCK"}) \cap Of(c, {"LOCK_ACTIVATED"}) = {}
  BY DEF Of
<1>3. \A K : {x \in Of(c, {"ADD_TICKET"}) : x.key # K} \cap Of(c, {"LOCK_ACTIVATED"}) = {}
  BY DEF Of
<1>4. \A X : X \cap Of(c, {"LOCK_ACTIVATED"}) = {} => Lacks(r, X)
  BY DEF Answers
<1>5. /\ Free(r, c) /\ Lacks(r, Drops(c))
      /\ Lacks(r, Of(c, {"TICKET_READY"})) /\ Lacks(r, Of(c, {"ACTIVATE_LOCK"}))
      /\ Lacks(r, Of(c, {"LOCK_EXITING"})) /\ Lacks(r, Of(c, {"GET_MAX_TICKET"}))
      /\ Lacks(r, Of(c, {"TICKET_READY", "ACTIVATE_LOCK"}))
  BY <1>1, <1>2, <1>4 DEF Free
<1>6. \A K : Lacks(r, {x \in Of(c, {"ADD_TICKET"}) : x.key # K})
  BY <1>3, <1>4
<1>7. Lacks(r, Dones(c)) => Lacks(r, Grants(c))
  BY <1>5, LacksLess DEF Grants
<1> QED
  BY <1>5, <1>6, <1>7

LEMMA MarkingEntries ==
  ASSUME NEW X, NEW Y, Marking(X, Y)
  PROVE  /\ \A t : X = {t} => \E u : Y = {u} /\ (u = t \/ (Marked(t, u) /\ ~t.quorum))
         /\ \A u \in Y : u.quorum => u \in X
         /\ \A u \in Y : \E t \in X : t.client = u.client /\ t.listed = u.listed /\ KeyOf(t) = KeyOf(u)
                                      /\ t.entering = u.entering /\ t.number = u.number
         /\ \A t \in X : \E u \in Y : u.entering = t.entering
BY DEF Marking, Marked, KeyOf

LEMMA AnswersSpread ==
  ASSUME TwoLeaders, NEW l \in Leader, NEW c \in Client, NEW r, NEW v, NEW w,
         Acts(l, c, r, v, w), NEW k \in Leader
  PROVE  /\ Spreads(v.net[k][Other(k)], w.net[k][Other(k)], r)
         /\ k # l => w.net[k][Other(k)] = v.net[k][Other(k)]
         /\ v.net[k][Other(k)] \in Seq(Message)
         /\ \/ w.net[k][Other(k)] = v.net[k][Other(k)]
            \/ w.net[k][Other(k)] = v.net[k][Other(k)] \o r
<1>1. /\ World(v) /\ r \in Seq(Message)
      /\ w.net[l][Other(l)] = v.net[l][Other(l)] \o r
      /\ w.net[Other(l)][l] = v.net[Other(l)][l]
  BY DEF Acts
<1>2. k = l \/ (k = Other(l) /\ Other(k) = l)
  BY OtherLeader
<1>3. v.net[k][Other(k)] \in Seq(Message)
  BY <1>1, OtherLeader DEF World, Node
<1> DEFINE q == v.net[k][Other(k)]
           q2 == w.net[k][Other(k)]
<1>4. q2 = q \o r \/ q2 = q
  BY <1>1, <1>2
<1>5. k # l => q2 = q
  BY <1>1, <1>2
<1> HIDE DEF q, q2
<1>6. Spreads(q, q2, r)
  BY <1>1, <1>3, <1>4, SpreadsJoin DEF q
<1>7. /\ Spreads(v.net[k][Other(k)], w.net[k][Other(k)], r)
      /\ k # l => w.net[k][Other(k)] = v.net[k][Other(k)]
      /\ \/ w.net[k][Other(k)] = v.net[k][Other(k)]
         \/ w.net[k][Other(k)] = v.net[k][Other(k)] \o r
  BY <1>4, <1>5, <1>6, Zenon DEF q, q2
<1> QED
  BY <1>3, <1>7, Zenon

LEMMA TalksSame ==
  ASSUME NEW c, NEW h, NEW st, NEW v, NEW w, Talks(c, h, st, v), w.net[c] = v.net[c], w.mail[c] = v.mail[c]
  PROVE  Talks(c, h, st, w)
BY Zenon DEF Talks

\* A mark that does no harm leaves the client where it is on its way.
LEMMA MarksOwn ==
  ASSUME TwoLeaders, NEW l \in Leader, NEW c \in Client, NEW r, NEW v, NEW w,
         Acts(l, c, r, v, w), w.mail[c] = v.mail[c], Answers(r, c),
         NEW home, NEW g, Core(home, g, v),
         Marking(Entry(v.tickets[l], c), Entry(w.tickets[l], c)),
         Harmless(c, l, r, Entry(v.tickets[l], c), Entry(w.tickets[l], c), home, g, v)
  PROVE  Own(c, home[c], g[c], w)
<1> DEFINE h == home[c]
           st == g[c]
           o == Other(h)
           X == Entry(v.tickets[l], c)
           Y == Entry(w.tickets[l], c)
           p == v.net[h][o]
           q == v.net[o][h]
           p2 == w.net[h][o]
           q2 == w.net[o][h]
<1>1. /\ h \in Leader /\ st \in Stage /\ home \in [Client -> Leader] /\ g \in [Client -> Stage]
      /\ Own(c, h, st, v)
  BY DEF Core
<1>2. /\ o \in Leader /\ o # h /\ Other(o) = h /\ Leader = {h, o} /\ (l = h \/ l = o)
  BY <1>1, OtherLeader
<1> HIDE DEF o
<1>3. /\ Spreads(p, p2, r) /\ Spreads(q, q2, r)
      /\ l # h => p2 = p
      /\ l = h => q2 = q
      /\ p \in Seq(Message) /\ (p2 = p \/ p2 = p \o r)
      /\ q \in Seq(Message) /\ (q2 = q \/ q2 = q \o r)
  <2>1. /\ Spreads(v.net[h][Other(h)], w.net[h][Other(h)], r)
        /\ h # l => w.net[h][Other(h)] = v.net[h][Other(h)]
        /\ v.net[h][Other(h)] \in Seq(Message)
        /\ \/ w.net[h][Other(h)] = v.net[h][Other(h)]
           \/ w.net[h][Other(h)] = v.net[h][Other(h)] \o r
    <3>1. h \in Leader
      BY <1>1
    <3> HIDE DEF h, st, p, q, p2, q2, X, Y
    <3> QED BY <3>1, AnswersSpread
  <2>2. /\ Spreads(v.net[o][Other(o)], w.net[o][Other(o)], r)
        /\ o # l => w.net[o][Other(o)] = v.net[o][Other(o)]
        /\ v.net[o][Other(o)] \in Seq(Message)
        /\ \/ w.net[o][Other(o)] = v.net[o][Other(o)]
           \/ w.net[o][Other(o)] = v.net[o][Other(o)] \o r
    <3>1. o \in Leader
      BY <1>2
    <3> HIDE DEF h, st, p, q, p2, q2, X, Y
    <3> QED BY <3>1, AnswersSpread
  <2>3. Other(h) = o /\ Other(o) = h /\ (h # l => l = o) /\ (l = h => o # l)
    BY <1>2 DEF o
  <2> HIDE DEF h
  <2>4. /\ Spreads(p, p2, r)
        /\ l # h => p2 = p
        /\ p \in Seq(Message) /\ (p2 = p \/ p2 = p \o r)
    BY <2>1, <2>3, Zenon
  <2>5. /\ Spreads(q, q2, r)
        /\ l = h => q2 = q
        /\ q \in Seq(Message) /\ (q2 = q \/ q2 = q \o r)
    BY <2>2, <2>3, Zenon
  <2> QED BY <2>4, <2>5, Zenon
<1>3a. /\ \A A : Lacks(p, A) /\ Lacks(r, A) => Lacks(p2, A)
       /\ \A A : Lacks(q, A) /\ Lacks(r, A) => Lacks(q2, A)
       /\ \A A, B : Ahead(p, A, B) /\ Lacks(r, A) => Ahead(p2, A, B)
       /\ \A A, B : Ahead(q, A, B) /\ Lacks(r, A) => Ahead(q2, A, B)
  <2> HIDE DEF p, q, p2, q2
  <2> QED BY <1>3 DEF Spreads
<1>4. /\ Free(r, c) /\ Lacks(r, Drops(c)) /\ r \in Seq(Message)
      /\ Lacks(r, Dones(c)) => Lacks(r, Grants(c))
      /\ \A K : Lacks(r, {x \in Of(c, {"ADD_TICKET"}) : x.key # K})
  BY AnswersLack DEF Answers
<1>5. \A k \in Leader : /\ Left(c, k, w) <=> Left(c, k, v)
                        /\ Once(v.net[k][Other(k)], Drops(c)) => Once(w.net[k][Other(k)], Drops(c))
  BY <1>4, ActsDrops
<1>6. \A k \in Leader : k # l => Entry(w.tickets[k], c) = Entry(v.tickets[k], c)
  <2>1. w.tickets[Other(l)] = v.tickets[Other(l)] /\ \A k \in Leader : k # l => k = Other(l)
    BY OtherLeader DEF Acts
  <2> QED BY <2>1
<1>8. Talks(c, h, st, w)
  <2>1. Talks(c, h, st, v) /\ w.net[c] = v.net[c] /\ w.mail[c] = v.mail[c]
    BY <1>1 DEF Own, Acts
  <2> HIDE DEF h, st
  <2> QED BY <2>1, TalksSame
<1>9. Moves(c, h, st, w)
  <2>1. Moves(c, h, st, v)
    BY <1>1 DEF Own
  <2>2. /\ \A T : T \subseteq Steps /\ Bears(p, c, T) => Bears(p2, c, T)
        /\ \A T : T \subseteq Steps /\ Bears(q, c, T) => Bears(q2, c, T)
    <3>1. /\ \A T : T \subseteq Steps /\ Bears(p, c, T) => Bears(p \o r, c, T)
          /\ \A T : T \subseteq Steps /\ Bears(q, c, T) => Bears(q \o r, c, T)
      <4> HIDE DEF p, q
      <4> QED BY <1>3, <1>4, BearsJoin
    <3> HIDE DEF p, q, p2, q2
    <3> QED BY <1>3, <3>1
  <2>3. Down \cap {st} \subseteq Steps /\ Up \cap {st} \subseteq Steps
    BY DEF Steps
  <2>4. Bears(p2, c, Down \cap {st}) /\ Bears(q2, c, Up \cap {st})
    <3>1. Bears(p, c, Down \cap {st}) /\ Bears(q, c, Up \cap {st})
      BY <2>1 DEF Moves, o
    <3> HIDE DEF p, q, p2, q2
    <3> QED BY <2>2, <2>3, <3>1
  <2>5. \A k \in Leader : Once(w.net[k][Other(k)], Drops(c))
    BY <1>5, <2>1 DEF Moves
  <2> QED BY <2>4, <2>5 DEF Moves, o
<1>10. \A k \in Leader : k # l \/ Y = X => Entry(w.tickets[k], c) = Entry(v.tickets[k], c)
  BY <1>6
<1>11. ASSUME NEW k \in Leader, Rid(c, k, v) PROVE Rid(c, k, w)
  <2>1. \/ Entry(v.tickets[k], c) = {} /\ ~Left(c, k, v)
        \/ /\ Left(c, k, v)
           /\ \E t \in Ticket :
                /\ Entry(v.tickets[k], c) = {t} /\ Gone(t, k)
                /\ Lacks(v.net[Other(k)][k], {m \in Drops(c) : m.key # KeyOf(t)})
    BY <1>11 DEF Rid
  <2>2. CASE Entry(v.tickets[k], c) = {} /\ ~Left(c, k, v)
    <3>1. Entry(w.tickets[k], c) = {}
      BY <1>6, <2>2 DEF Marking
    <3> QED BY <1>5, <2>2, <3>1 DEF Rid
  <2>3. ASSUME Left(c, k, v), NEW t \in Ticket, Entry(v.tickets[k], c) = {t}, Gone(t, k),
               Lacks(v.net[Other(k)][k], {m \in Drops(c) : m.key # KeyOf(t)})
        PROVE  Rid(c, k, w)
    <3>1. \E u \in Ticket : Entry(w.tickets[k], c) = {u} /\ Gone(u, k) /\ KeyOf(u) = KeyOf(t)
      <4>1. CASE Entry(w.tickets[k], c) = Entry(v.tickets[k], c)
        BY <2>3, <4>1
      <4>2. CASE k = l /\ Entry(w.tickets[k], c) # Entry(v.tickets[k], c)
        <5>1. PICK u : Y = {u} /\ ~t.quorum /\ Marked(t, u)
          BY <2>3, <4>2 DEF Marking
        <5>2. u \in Ticket /\ KeyOf(u) = KeyOf(t) /\ Gone(u, k)
          BY <2>3, <5>1 DEF Marked, Gone, KeyOf
        <5> QED BY <4>2, <5>1, <5>2
      <4> QED BY <1>6, <4>1, <4>2
    <3>2. PICK u \in Ticket : Entry(w.tickets[k], c) = {u} /\ Gone(u, k) /\ KeyOf(u) = KeyOf(t)
      BY <3>1
    <3> DEFINE Z == {m \in Drops(c) : m.key # KeyOf(t)}
    <3>3. Lacks(w.net[Other(k)][k], Z)
      <4>1. Z \subseteq Drops(c)
        OBVIOUS
      <4>2. Lacks(v.net[Other(k)][k], Z)
        BY <2>3
      <4> HIDE DEF Z
      <4>3. Lacks(r, Z)
        BY <1>4, <4>1 DEF Lacks
      <4>4. k = h \/ k = o
        BY <1>2
      <4>5. Lacks(p, Z) => Lacks(p2, Z)
        BY <1>3a, <4>3, Zenon
      <4>6. Lacks(q, Z) => Lacks(q2, Z)
        BY <1>3a, <4>3, Zenon
      <4>7. CASE k = h
        <5>1. Other(k) = o
          BY <4>7 DEF o
        <5> HIDE DEF h
        <5> QED BY <4>2, <4>6, <4>7, <5>1, Zenon
      <4>8. CASE k = o
        <5>1. Other(k) = h
          BY <1>2, <4>8
        <5> HIDE DEF h
        <5> QED BY <4>2, <4>5, <4>8, <5>1, Zenon
      <4> QED BY <4>4, <4>7, <4>8
    <3>4. Left(c, k, w)
      BY <1>5, <2>3
    <3> QED BY <3>2, <3>3, <3>4 DEF Rid
  <2> QED BY <2>1, <2>2, <2>3
<1>12. Harmless(c, l, r, X, Y, home, g, v) /\ Marking(X, Y)
  OBVIOUS
<1>13. Keeps(c, h, st, w)
  <2>1. Keeps(c, h, st, v)
    BY <1>1 DEF Own
  <2>2. CASE st \in Outside
    <3>1. Rid(c, h, w) /\ Rid(c, o, w)
      BY <1>1, <1>2, <1>11, <2>1, <2>2 DEF Keeps, o
    <3> QED BY <2>2, <3>1, KeepsOutside DEF o
  <2>3. CASE st \in Opening
    <3>1. Entry(w.tickets[h], c) = Entry(v.tickets[h], c)
      <4>1. Y = X \/ l # h
        BY <1>12, <2>3 DEF Harmless, Idly, Awaits, Opening, Outside, Granted
      <4> HIDE DEF X, Y
      <4> QED BY <1>1, <1>10, <4>1
    <3>2. Rid(c, o, w) /\ st \notin Outside /\ ~Left(c, h, w)
      BY <1>1, <1>2, <1>5, <1>11, <2>1, <2>3 DEF Keeps, Outside, Opening, o
    <3>3. PICK t \in Ticket : /\ Entry(v.tickets[h], c) = {t} /\ AtHome(t, h, st)
                              /\ Lacks(p, {m \in Of(c, {"ADD_TICKET"}) : m.key # KeyOf(t)})
      BY <2>1, <3>2 DEF Keeps, o
    <3>4. Lacks(p2, {m \in Of(c, {"ADD_TICKET"}) : m.key # KeyOf(t)})
      <4> HIDE DEF p, p2
      <4> QED BY <1>3a, <1>4, <3>3, Zenon
    <3>5. st \notin {"LOCK_ENTERED"} \cup Choosing \cup Late
      BY <2>3 DEF Opening, Choosing, Late, Granted
    <3> HIDE DEF h, st, p, p2
    <3> QED BY <2>3, <3>1, <3>2, <3>3, <3>4, <3>5 DEF Keeps, o, p2
  <2>4. CASE st \notin Outside \cup Opening
    <3>1. PICK t, y : Both(t, y, c, h, o, st, v)
      BY <2>1, <2>4, Inside DEF o
    <3>2. Lacks(p2, {m \in Of(c, {"ADD_TICKET"}) : m.key # KeyOf(t)})
      <4>1. Lacks(p, {m \in Of(c, {"ADD_TICKET"}) : m.key # KeyOf(t)})
        BY <3>1 DEF Both
      <4> HIDE DEF p, p2
      <4> QED BY <1>3a, <1>4, <4>1, Zenon
    <3>3. ~Left(c, h, w) /\ ~Left(c, o, w)
      BY <1>1, <1>2, <1>5, <3>1 DEF Both
    <3>4. CASE Y = X
      <4>1. Entry(w.tickets[h], c) = {t} /\ Entry(w.tickets[o], c) = {y}
        <5> HIDE DEF X, Y
        <5> QED BY <1>1, <1>2, <1>10, <3>1, <3>4 DEF Both
      <4>2. Both(t, y, c, h, o, st, w)
        <5> HIDE DEF h, st
        <5> QED BY <3>1, <3>2, <3>3, <4>1 DEF Both, p2
      <4> QED BY <2>4, <4>2, BothKeeps DEF o
    <3>5. CASE Y # X
      <4>1. PICK a, u : X = {a} /\ Y = {u} /\ ~a.quorum /\ Marked(a, u)
        BY <1>12, <3>5 DEF Marking
      <4>2. st \in Granted \/ (st = "WAITING" /\ l # h)
        <5> HIDE DEF X, Y
        <5> QED BY <1>12, <2>4, <3>5 DEF Harmless, Idly, Awaits
      <4>3. st \in Late
        BY <4>2 DEF Late
      <4>4. t.quorum
        BY <3>1, <4>3 DEF Both, AtHome
      <4>5. l = o
        <5> SUFFICES ASSUME l = h PROVE FALSE
          BY <1>2
        <5>1. X = {t}
          BY <3>1 DEF Both
        <5> QED BY <4>1, <4>4, <5>1
      <4>6. a = y /\ Entry(w.tickets[o], c) = {u}
        BY <3>1, <4>1, <4>5 DEF Both
      <4>7. Entry(w.tickets[h], c) = {t}
        BY <1>1, <1>2, <1>6, <3>1, <4>5 DEF Both
      <4>8. AtOther(u, h, st) /\ u.number = y.number /\ u.client = y.client /\ u \in Ticket
        <5>1. AtOther(y, h, st) /\ Marked(y, u)
          BY <3>1, <4>1, <4>6 DEF Both
        <5> HIDE DEF h, st
        <5> QED BY <4>2, <5>1 DEF AtOther, Marked
      <4>9. Both(t, u, c, h, o, st, w)
        <5> HIDE DEF h, st
        <5> QED BY <3>1, <3>2, <3>3, <4>6, <4>7, <4>8 DEF Both, p2
      <4> QED BY <2>4, <4>9, BothKeeps DEF o
    <3> QED BY <3>4, <3>5
  <2> QED BY <2>2, <2>3, <2>4
<1>14. InOrder(c, h, st, w)
  <2>1. InOrder(c, h, st, v)
    BY <1>1 DEF Own
  <2>3. \A T : T \subseteq Steps => Lacks(r, Of(c, T))
    BY <1>4, FreeLacks
  <2>4. CASE st = "LOCK_ENTERING"
    <3>1. Ahead(p, Grants(c) \cup Drops(c), Of(c, {st}))
      BY <2>1, <2>4 DEF InOrder, o
    <3>2. Lacks(r, Grants(c)) \/ l # h
      <4> HIDE DEF X, Y
      <4> QED BY <1>4, <1>12, <2>4 DEF Harmless, Idly, Awaits, Outside, Opening, Granted
    <3>3. Lacks(r, Grants(c)) => Lacks(r, Grants(c) \cup Drops(c))
      BY <1>4, LacksLess
    <3>4. Ahead(p2, Grants(c) \cup Drops(c), Of(c, {st}))
      <4> HIDE DEF h, st, p, p2
      <4>1. l # h => p2 = p
        BY <1>3
      <4> QED BY <1>3a, <3>1, <3>2, <3>3, <4>1
    <3> QED BY <2>4, <3>4 DEF InOrder, Choosing, o
  <2>5. CASE st \in {"LOCK_ENTERED", "LOCK_EXITING"} \cup Choosing
    <3>1. Lacks(r, Grants(c))
      <4> HIDE DEF X, Y
      <4> QED BY <1>4, <1>12, <2>5 DEF Harmless, Idly, Awaits, Outside, Opening, Granted, Choosing
    <3>2. Lacks(r, Of(c, {"LOCK_EXITING"}))
      BY <2>3 DEF Steps, Down
    <3> HIDE DEF h, st, p, q, p2, q2
    <3>3. /\ st = "LOCK_ENTERED" => Lacks(p2, Grants(c)) /\ Ahead(q2, Grants(c), Of(c, {st}))
          /\ st \in Choosing => Lacks(p2, Grants(c)) /\ Lacks(q2, Grants(c))
          /\ st = "LOCK_EXITING" => Lacks(q2, Grants(c)) /\ Ahead(p2, Of(c, {st}), Grants(c))
      <4>1. /\ st = "LOCK_ENTERED" => Lacks(p, Grants(c)) /\ Ahead(q, Grants(c), Of(c, {st}))
            /\ st \in Choosing => Lacks(p, Grants(c)) /\ Lacks(q, Grants(c))
            /\ st = "LOCK_EXITING" => Lacks(q, Grants(c)) /\ Ahead(p, Of(c, {st}), Grants(c))
        BY <2>1 DEF InOrder, o, p, q
      <4>2. st = "LOCK_EXITING" => Lacks(r, Of(c, {st}))
        BY <3>2
      <4> QED BY <1>3a, <3>1, <4>1, <4>2
    <3>4. st \notin {"LOCK_ENTERING", "WAITING"}
      BY <2>5 DEF Choosing
    <3> QED BY <3>3, <3>4 DEF InOrder, o, p2, q2
  <2>6. CASE st = "WAITING"
    <3>1. Lacks(q, Of(c, {"TICKET_READY"}))
      BY <2>1, <2>6 DEF InOrder, o
    <3>2. Lacks(r, Of(c, {"TICKET_READY"}))
      BY AnswersLack
    <3>3. Lacks(q2, Of(c, {"TICKET_READY"}))
      <4> HIDE DEF q, q2
      <4> QED BY <1>3a, <3>1, <3>2
    <3> QED BY <2>6, <3>3 DEF InOrder, Choosing, o
  <2> QED BY <2>4, <2>5, <2>6 DEF InOrder
<1> QED
  BY <1>8, <1>9, <1>13, <1>14 DEF Own


\* What c does to its own tickets does not bring another ticket before them.
LEMMA ClearOwn ==
  ASSUME TwoLeaders, NEW l \in Leader, NEW c \in Client, NEW r, NEW v, NEW w, Acts(l, c, r, v, w),
         NEW t, t.client = c, NEW k \in Leader, Clear(v.tickets[k], t)
  PROVE  Clear(w.tickets[k], t)
<1>1. k # l => w.tickets[k] = v.tickets[k]
  <2>1. k # l => k = Other(l)
    BY OtherLeader
  <2> QED BY <2>1 DEF Acts
<1>2. CASE k = l
  <2> SUFFICES ASSUME NEW u \in w.tickets[l], u.listed, u.client # c
               PROVE  Before(KeyOf(t), KeyOf(u))
    BY <1>2 DEF Clear
  <2>1. u.client \in Client \ {c}
    BY DEF Acts, World, Ticket
  <2>2. Entry(w.tickets[l], u.client) = Entry(v.tickets[l], u.client)
    BY <2>1 DEF Acts
  <2>3. u \in v.tickets[l]
    BY <2>2 DEF Entry
  <2> QED BY <1>2, <2>1, <2>3 DEF Clear
<1> QED
  BY <1>1, <1>2

\* Nobody minds a mark that does no harm.
LEMMA Marks ==
  ASSUME TwoLeaders, NEW l \in Leader, NEW c \in Client, NEW r, NEW v, NEW w,
         Acts(l, c, r, v, w), w.mail[c] = v.mail[c], Answers(r, c),
         NEW home, NEW g, Core(home, g, v),
         Marking(Entry(v.tickets[l], c), Entry(w.tickets[l], c)),
         Harmless(c, l, r, Entry(v.tickets[l], c), Entry(w.tickets[l], c), home, g, v)
  PROVE  /\ Core(home, g, w)
         /\ \A e \in Client : Quits(e, home[e], g[e], v) => Quits(e, home[e], g[e], w)
<1> DEFINE h == home[c]
           st == g[c]
           o == Other(h)
           X == Entry(v.tickets[l], c)
           Y == Entry(w.tickets[l], c)
           p == v.net[h][o]
           q == v.net[o][h]
           p2 == w.net[h][o]
           q2 == w.net[o][h]
<1>1. /\ h \in Leader /\ st \in Stage /\ home \in [Client -> Leader] /\ g \in [Client -> Stage]
      /\ Own(c, h, st, v) /\ Waits(c, home, g, v) /\ Sure(c, h, st, v)
  BY DEF Core
<1>2. /\ o \in Leader /\ o # h /\ Other(o) = h /\ Leader = {h, o} /\ (l = h \/ l = o)
  BY <1>1, OtherLeader
<1>3. Own(c, h, st, w)
  BY MarksOwn
<1>4. /\ Beside(c, v, w) /\ (\A k \in Leader : DropsLead(k, c, v, w)) /\ World(v) /\ World(w)
  BY ActsBeside
<1>5. Moving(c, home, g, home, g)
  BY <1>1 DEF Moving
<1>6. Marking(X, Y) /\ Harmless(c, l, r, X, Y, home, g, v)
  OBVIOUS
<1>7. /\ \A a : X = {a} => \E b : Y = {b} /\ (b = a \/ (Marked(a, b) /\ ~a.quorum))
      /\ \A b \in Y : b.quorum => b \in X
      /\ \A b \in Y : \E a \in X : a.client = b.client /\ a.listed = b.listed /\ KeyOf(a) = KeyOf(b)
                                   /\ a.entering = b.entering /\ a.number = b.number
      /\ \A a \in X : \E b \in Y : b.entering = a.entering
  <2> HIDE DEF X, Y
  <2> QED BY <1>6, MarkingEntries
<1>8. \A k \in Leader : k # l => Entry(w.tickets[k], c) = Entry(v.tickets[k], c)
  <2>1. w.tickets[Other(l)] = v.tickets[Other(l)] /\ \A k \in Leader : k # l => k = Other(l)
    BY OtherLeader DEF Acts
  <2> QED BY <2>1
<1>9. Waits(c, home, g, w)
  <2> SUFFICES ASSUME NEW k \in Leader, NEW x \in Entry(w.tickets[k], c), x.owner = k, x.quorum
               PROVE  Queued(x, k, home, g, w)
    BY DEF Waits
  <2>1. x \in Entry(v.tickets[k], c) /\ x \in v.tickets[k] /\ x.client = c
    BY <1>7, <1>8 DEF Entry
  <2>2. Queued(x, k, home, g, v)
    BY <1>1, <2>1 DEF Waits
  <2>3. c \in Held(x) => \E u \in Entry(w.tickets[k], c) : u.entering
    <3>1. c \in Held(x) => \E u \in Entry(v.tickets[k], c) : u.entering
      BY <2>2 DEF Queued
    <3> QED BY <1>7, <1>8, <3>1
  <2> QED BY <1>4, <1>5, <2>1, <2>2, <2>3, QueuedOwn
<1>10. /\ Lacks(r, Of(c, {"ACTIVATE_LOCK"})) /\ Lacks(r, Of(c, {"GET_MAX_TICKET"}))
       /\ Lacks(r, Of(c, {"LOCK_EXITING"})) /\ (Lacks(r, Dones(c)) => Lacks(r, Grants(c)))
  BY AnswersLack
<1>11. /\ \A A : Lacks(r, A) /\ ~Lacks(p2, A) => ~Lacks(p, A)
       /\ \A A : Lacks(r, A) /\ ~Lacks(q2, A) => ~Lacks(q, A)
       /\ \A A : ~Lacks(p, A) => ~Lacks(p2, A)
       /\ \A A, B : Led(p, A, B) /\ Lacks(r, B) => Led(p2, A, B)
  <2>1. Spreads(p, p2, r)
    BY <1>1, AnswersSpread
  <2>2. Spreads(v.net[o][Other(o)], w.net[o][Other(o)], r)
    <3>1. o \in Leader
      BY <1>2
    <3> HIDE DEF h, st, o, p, q, p2, q2, X, Y
    <3> QED BY <3>1, AnswersSpread
  <2>3. Spreads(q, q2, r)
    <3> HIDE DEF h, o
    <3> QED BY <1>2, <2>2, Zenon
  <2> HIDE DEF p, q, p2, q2
  <2> QED BY <2>1, <2>3 DEF Spreads
<1>12. Sure(c, h, st, w)
  <2> SUFFICES ASSUME st \in {"LOCK_EXITING", "WAITING"}, NEW x \in Entry(w.tickets[h], c)
               PROVE  /\ ~Lacks(p2, Grants(c)) \/ ~Lacks(q2, Grants(c)) => x.ready
                      /\ \A u \in Entry(w.tickets[o], c) : u.ready => x.ready
                      /\ ~Lacks(p2, Of(c, {"ACTIVATE_LOCK"})) => Clear(w.tickets[h], x)
                      /\ ~Lacks(q2, Of(c, {"ACTIVATE_LOCK"})) => Clear(w.tickets[o], x)
                      /\ ~Lacks(p2, Dones(c)) \/ ~Lacks(q2, Dones(c)) =>
                           Clear(w.tickets[h], x) /\ Clear(w.tickets[o], x)
    BY DEF Sure
  <2>1. \/ Y = X /\ Lacks(r, Dones(c))
        \/ Awaits(c, l, home, g, v) /\ (Lacks(r, Dones(c)) \/ Cleared(c, home, v))
    <3>1. ~Idly(c, l, home, g)
      BY DEF Idly, Outside, Granted, Opening
    <3> HIDE DEF X, Y
    <3> QED BY <1>6, <3>1 DEF Harmless
  <2>2. x \in Entry(v.tickets[h], c) /\ x.client = c
    <3>1. CASE Y = X
      BY <1>1, <1>8, <3>1 DEF Entry
    <3>2. CASE l # h
      BY <1>1, <1>8, <3>2 DEF Entry
    <3> QED BY <2>1, <3>1, <3>2 DEF Awaits
  <2>3. /\ ~Lacks(p, Grants(c)) \/ ~Lacks(q, Grants(c)) => x.ready
        /\ \A u \in Entry(v.tickets[o], c) : u.ready => x.ready
        /\ ~Lacks(p, Of(c, {"ACTIVATE_LOCK"})) => Clear(v.tickets[h], x)
        /\ ~Lacks(q, Of(c, {"ACTIVATE_LOCK"})) => Clear(v.tickets[o], x)
        /\ ~Lacks(p, Dones(c)) \/ ~Lacks(q, Dones(c)) =>
             Clear(v.tickets[h], x) /\ Clear(v.tickets[o], x)
    BY <1>1, <2>2 DEF Sure
  <2>4. /\ Clear(v.tickets[h], x) => Clear(w.tickets[h], x)
        /\ Clear(v.tickets[o], x) => Clear(w.tickets[o], x)
    <3> HIDE DEF h, o, st
    <3> QED BY <1>1, <1>2, <2>2, ClearOwn
  <2>5. Awaits(c, l, home, g, v) => x.ready
    BY <2>2 DEF Awaits
  <2>6. Y = X => Entry(w.tickets[o], c) = Entry(v.tickets[o], c)
    BY <1>2, <1>8
  <2>7. Cleared(c, home, v) => Clear(v.tickets[h], x) /\ Clear(v.tickets[o], x)
    BY <1>1, <1>2, <2>2 DEF Cleared
  <2> HIDE DEF p, q, p2, q2, h, o, st, X, Y
  <2>8. ~Lacks(p2, Grants(c)) \/ ~Lacks(q2, Grants(c)) => x.ready
    BY <1>10, <1>11, <2>1, <2>3, <2>5
  <2>9. \A u \in Entry(w.tickets[o], c) : u.ready => x.ready
    BY <2>1, <2>3, <2>5, <2>6
  <2>10. /\ ~Lacks(p2, Of(c, {"ACTIVATE_LOCK"})) => Clear(w.tickets[h], x)
         /\ ~Lacks(q2, Of(c, {"ACTIVATE_LOCK"})) => Clear(w.tickets[o], x)
    BY <1>10, <1>11, <2>3, <2>4
  <2>11. ~Lacks(p2, Dones(c)) \/ ~Lacks(q2, Dones(c)) =>
           Clear(w.tickets[h], x) /\ Clear(w.tickets[o], x)
    BY <1>11, <2>1, <2>3, <2>4, <2>7
  <2> QED BY <2>8, <2>9, <2>10, <2>11
<1>13. Courteous(c, home, g, v, w)
  <2>1. CASE st \notin {"GET_MAX_TICKET", "MAX_TICKET", "ADD_TICKET"}
    <3>1. (\E u \in Entry(v.tickets[l], c) : u.entering) => \E u \in Entry(w.tickets[l], c) : u.entering
      BY <1>7
    <3>2. \A u \in Entry(w.tickets[l], c) : u.listed =>
            \E x \in Entry(v.tickets[l], c) : x.listed /\ KeyOf(x) = KeyOf(u)
      BY <1>7
    <3> HIDE DEF X, Y
    <3> QED BY <1>5, <2>1, <3>1, <3>2, Polite
  <2>2. CASE st \in {"GET_MAX_TICKET", "MAX_TICKET", "ADD_TICKET"}
    <3>1. Y = X
      <4>1. ~Idly(c, l, home, g) /\ ~Awaits(c, l, home, g, v)
        BY <2>2 DEF Idly, Awaits, Outside, Opening, Granted
      <4> HIDE DEF X, Y
      <4> QED BY <1>6, <4>1 DEF Harmless
    <3>2. \A k \in Leader : Entry(w.tickets[k], c) = Entry(v.tickets[k], c)
      BY <1>8, <3>1
    <3> SUFFICES ASSUME NEW k \in Leader, NEW t \in v.tickets[k], t.client # c, t.owner = k, t.quorum
                 PROVE  Yields(t, k, c, home[c], g[c], v, w)
      BY DEF Courteous
    <3>3. t.client \in Client /\ t \in Entry(v.tickets[k], t.client)
      BY <1>4 DEF World, Ticket, Entry
    <3>4. Queued(t, k, home, g, v)
      BY <3>3 DEF Core, Waits
    <3>5. c \in Held(t) => \E u \in Entry(w.tickets[k], c) : u.entering
      BY <3>2, <3>4 DEF Queued
    <3>6. Fair(t, c, v, w)
      BY <3>2 DEF Fair
    <3>7. c \in Held(t) \/ Later(t, k, c, h, st, v)
      BY <3>4 DEF Queued
    <3>8. Entry(w.tickets[h], c) = Entry(v.tickets[h], c) /\ (h # k => k = o)
      BY <1>1, <1>2, <3>2
    <3> HIDE DEF h, st, o
    <3>9. ASSUME h # k, st = "GET_MAX_TICKET", Led(v.net[h][k], Drops(t.client), Of(c, {st}))
          PROVE  Led(w.net[h][k], Drops(t.client), Of(c, {st}))
      <4>1. Led(p, Drops(t.client), Of(c, {st}))
        BY <3>8, <3>9
      <4>2. Led(p2, Drops(t.client), Of(c, {st}))
        <5>1. Lacks(r, Of(c, {st}))
          BY <1>10, <3>9
        <5> HIDE DEF p, p2
        <5> QED BY <1>11, <4>1, <5>1
      <4> QED BY <3>8, <3>9, <4>2
    <3>10. Later(t, k, c, h, st, v) => Later(t, k, c, h, st, w)
      <4> HIDE DEF p, p2, q, q2, X, Y
      <4> QED BY <3>8, <3>9 DEF Later
    <3> QED BY <3>5, <3>6, <3>7, <3>10 DEF Yields, h, st
  <2> QED BY <2>1, <2>2
<1>14. /\ Core(home, g, w)
       /\ \A e \in Client \ {c} : Quits(e, home[e], g[e], v) => Quits(e, home[e], g[e], w)
  BY <1>3, <1>5, <1>9, <1>12, <1>13, Onward
<1>15. ASSUME Quits(c, h, st, v) PROVE Quits(c, h, st, w)
  <2>1. \A k \in Leader : (\A t \in Entry(v.tickets[k], c) : ~t.entering) =>
                          \A t \in Entry(w.tickets[k], c) : ~t.entering
    BY <1>7, <1>8
  <2>2. ~Lacks(p, Of(c, {st})) => ~Lacks(p2, Of(c, {st}))
    <3> HIDE DEF p, p2, q, q2
    <3> QED BY <1>11
  <2> HIDE DEF h, st
  <2>3. /\ st = "LOCK_EXITING" => ~Lacks(w.net[h][o], Of(c, {st}))
        /\ st \in Late => \A t \in Entry(w.tickets[h], c) : ~t.entering
        /\ st \in Late \ {"LOCK_EXITING"} => \A t \in Entry(w.tickets[o], c) : ~t.entering
    BY <1>1, <1>2, <1>15, <2>1, <2>2 DEF Quits
  <2> QED BY <2>3 DEF Quits
<1> QED
  BY <1>14, <1>15


\* The home of c grants it the lock.
LEMMA Granting ==
  ASSUME TwoLeaders, NEW l \in Leader, NEW c \in Client, NEW r, NEW v, NEW w,
         Acts(l, c, r, v, w), Answers(r, c), NEW home, NEW g, Pairing(home, g, v),
         home[c] = l, g[c] = "WAITING",
         NEW t, Entry(v.tickets[l], c) = {t}, t.ready, Cleared(c, home, v),
         NEW u, Entry(w.tickets[l], c) = {u}, Marked(t, u), u.ready, u.locked,
         NEW n \in Notice, n.type = "LOCKED", w.mail[c][l] = Append(v.mail[c][l], n),
         w.mail[c][Other(l)] = v.mail[c][Other(l)]
  PROVE  Pairing(home, To(g, c, "LOCKED"), w)
<1> DEFINE o == Other(l)
           g2 == To(g, c, "LOCKED")
<1>1. /\ home \in [Client -> Leader] /\ g \in [Client -> Stage] /\ Core(home, g, v)
      /\ Own(c, l, "WAITING", v) /\ Waits(c, home, g, v) /\ Quits(c, l, "WAITING", v)
      /\ \A e \in Client \ {c} : Quits(e, home[e], g[e], v)
  BY DEF Pairing, Core
<1>2. o \in Leader /\ o # l /\ Other(o) = l /\ Leader = {l, o}
  BY OtherLeader
<1> HIDE DEF o
<1>3. /\ Beside(c, v, w) /\ (\A k \in Leader : DropsLead(k, c, v, w)) /\ World(v) /\ World(w)
  BY ActsBeside
<1>4. w.net[c] = v.net[c] /\ w.tickets[o] = v.tickets[o]
      /\ w.net[l][o] = v.net[l][o] \o r /\ r \in Seq(Message) /\ v.net[l][o] \in Seq(Message)
  <2>1. w.net[c] = v.net[c] /\ w.tickets[o] = v.tickets[o] /\ w.net[l][o] = v.net[l][o] \o r
        /\ r \in Seq(Message)
    BY DEF Acts, o
  <2>2. v.net[l][o] \in Seq(Message)
    BY ActsBeside DEF o
  <2> QED BY <2>1, <2>2
<1>5. /\ Free(r, c) /\ Lacks(r, Drops(c)) /\ \A K : Lacks(r, {x \in Of(c, {"ADD_TICKET"}) : x.key # K})
  <2>1. Free(r, c) /\ Lacks(r, Drops(c))
    BY AnswersLack
  <2>2. \A K : {x \in Of(c, {"ADD_TICKET"}) : x.key # K} \cap Of(c, {"LOCK_ACTIVATED"}) = {}
    BY DEF Of
  <2>3. \A K : Lacks(r, {x \in Of(c, {"ADD_TICKET"}) : x.key # K})
    BY <2>2 DEF Answers
  <2> QED BY <2>1, <2>3
<1>6. Quiet(c, v)
  <2>1. \A k \in Leader : v.net[c][k] = <<>> /\ v.mail[c][k] = <<>>
    BY <1>1 DEF Own, Talks, Asks, Says
  <2>2. Bears(v.net[l][o], c, {}) /\ Bears(v.net[o][l], c, {})
    <3>1. Down \cap {"WAITING"} = {} /\ Up \cap {"WAITING"} = {}
      BY DEF Down, Up
    <3> QED BY <1>1, <3>1 DEF Own, Moves, o
  <2>3. Free(v.net[l][o], c) /\ Free(v.net[o][l], c)
    BY <2>2, FreeBears
  <2>4. \A k \in Leader : Free(v.net[k][Other(k)], c)
    BY <1>2, <2>3 DEF o
  <2> QED BY <2>1, <2>4 DEF Quiet
<1>7. \A k \in Leader : /\ Left(c, k, w) <=> Left(c, k, v)
                        /\ Once(w.net[k][Other(k)], Drops(c))
  <2>1. \A k \in Leader : Once(v.net[k][Other(k)], Drops(c))
    BY <1>1 DEF Own, Moves
  <2> QED BY <1>5, <2>1, ActsDrops
<1>8. Talks(c, l, "LOCKED", w)
  <2>1. "LOCKED" \in Says
    BY DEF Says
  <2> QED BY <1>4, <1>6, <2>1, TalksTold DEF Quiet
<1>9. Moves(c, l, "LOCKED", w)
  BY <1>5, <1>6, <1>7, MovesQuiet
<1>10. PICK a, y : Both(a, y, c, l, o, "WAITING", v)
  <2>1. "WAITING" \notin Outside \cup Opening
    BY DEF Outside, Opening
  <2> QED BY <1>1, <2>1, Inside DEF Own, o
<1>11. a = t
  BY <1>10 DEF Both
<1>12. /\ t \in Ticket /\ t.client = c /\ AtHome(t, l, "WAITING") /\ t.quorum /\ t.still = {} /\ t.listed
       /\ KeyOf(u) = KeyOf(t) /\ u.client = c /\ u.number = t.number /\ Held(u) = Held(t) /\ Held(t) = {}
       /\ ~y.quorum
  <2>1. AtHome(t, l, "WAITING") /\ AtOther(y, l, "WAITING") /\ t \in Ticket /\ t.client = c
    BY <1>10, <1>11 DEF Both
  <2>2. t.quorum /\ t.still = {} /\ t.listed /\ ~y.quorum
    BY <2>1 DEF AtHome, AtOther, Late
  <2> QED BY <2>1, <2>2 DEF Marked, KeyOf, Held
<1>13. Both(u, y, c, l, o, "LOCKED", w)
  <2>1. ~Left(c, l, w) /\ ~Left(c, o, w)
    BY <1>2, <1>7, <1>10 DEF Both
  <2>2. AtHome(u, l, "LOCKED")
    BY <1>12 DEF AtHome, Marked, Late, Granted, Opening, Choosing
  <2>3. AtOther(y, l, "LOCKED")
    BY <1>10 DEF Both, AtOther, Late, Granted, Choosing
  <2>4. Lacks(w.net[l][o], {m \in Of(c, {"ADD_TICKET"}) : m.key # KeyOf(u)})
    <3> DEFINE Z == {m \in Of(c, {"ADD_TICKET"}) : m.key # KeyOf(t)}
    <3>1. Lacks(v.net[l][o], Z)
      BY <1>10, <1>11 DEF Both
    <3>2. Lacks(r, Z)
      BY <1>5
    <3> HIDE DEF Z
    <3>3. Lacks(w.net[l][o], Z)
      BY <1>4, <3>1, <3>2, LacksConcat
    <3>4. KeyOf(u) = KeyOf(t)
      BY <1>12
    <3> QED BY <3>3, <3>4, Zenon DEF Z
  <2>5. Entry(w.tickets[o], c) = {y} /\ y \in Ticket /\ y.client = c /\ u \in Ticket /\ u.number = y.number
    BY <1>4, <1>10, <1>11, <1>12 DEF Both, Marked, Late
  <2> QED BY <1>12, <2>1, <2>2, <2>3, <2>4, <2>5 DEF Both
<1>14. Own(c, l, "LOCKED", w)
  <2>1. Keeps(c, l, "LOCKED", w)
    <3>1. "LOCKED" \notin Outside \cup Opening
      BY DEF Outside, Opening
    <3> QED BY <1>13, <3>1, BothKeeps DEF o
  <2>2. InOrder(c, l, "LOCKED", w)
    BY DEF InOrder, Choosing
  <2> QED BY <1>8, <1>9, <2>1, <2>2 DEF Own
<1>15. Moving(c, home, g, home, g2) /\ g2[c] = "LOCKED" /\ g2 \in [Client -> Stage]
       /\ \A e \in Client \ {c} : g2[e] = g[e]
  BY <1>1 DEF Moving, To, Stage, Late, Granted
<1> HIDE DEF g2
<1>16. Waits(c, home, g2, w)
  <2>1. Queued(u, l, home, g2, w)
    <3>1. Queued(t, l, home, g, v) /\ t \in v.tickets[l]
      BY <1>1, <1>12 DEF Waits, AtHome, Entry
    <3>2. Queued(t, l, home, g2, w)
      BY <1>3, <1>12, <1>15, <3>1, QueuedOwn
    <3>3. \A d \in Client \ {u.client} : d \in Held(u) \/ Later(u, l, d, home[d], g2[d], w)
      <4>1. ASSUME NEW d \in Client \ {c} PROVE Later(u, l, d, home[d], g2[d], w)
        <5>1. Later(t, l, d, home[d], g2[d], w)
          BY <1>12, <3>2 DEF Queued
        <5> DEFINE hd == home[d]
                   sd == g2[d]
        <5>2. Later(t, l, d, hd, sd, w)
          BY <5>1
        <5> HIDE DEF hd, sd
        <5>3. Later(u, l, d, hd, sd, w)
          BY <1>12, <5>2 DEF Later
        <5> QED BY <5>3 DEF hd, sd
      <4> QED BY <1>12, <4>1
    <3>4. \A k \in Leader : Clear(w.tickets[k], u)
      <4>1. \A k \in Leader : Clear(v.tickets[k], t)
        BY DEF Cleared
      <4>2. \A k \in Leader : Clear(w.tickets[k], t)
        BY <1>12, <4>1, ClearOwn
      <4> QED BY <1>12, <4>2 DEF Clear
    <3>5. \A d \in Held(u) : \E x \in Entry(w.tickets[l], d) : x.entering
      BY <1>12
    <3> QED BY <3>3, <3>4, <3>5, Zenon DEF Queued
  <2> SUFFICES ASSUME NEW k \in Leader, NEW x \in Entry(w.tickets[k], c), x.owner = k, x.quorum
               PROVE  Queued(x, k, home, g2, w)
    BY DEF Waits
  <2>2. k # o
    BY <1>12, <1>13 DEF Both
  <2>3. k = l /\ x = u
    BY <1>2, <2>2
  <2> QED BY <2>1, <2>3
<1>17. Sure(c, l, "LOCKED", w)
  BY DEF Sure
<1>18. Courteous(c, home, g2, v, w)
  <2>1. (\E x \in Entry(v.tickets[l], c) : x.entering) => \E x \in Entry(w.tickets[l], c) : x.entering
    BY DEF Marked
  <2>2. \A x \in Entry(w.tickets[l], c) : x.listed =>
          \E z \in Entry(v.tickets[l], c) : z.listed /\ KeyOf(z) = KeyOf(x)
    BY <1>12
  <2> QED BY <1>1, <1>15, <2>1, <2>2, Polite
<1>19. /\ Core(home, g2, w)
       /\ \A e \in Client \ {c} : Quits(e, home[e], g[e], v) => Quits(e, home[e], g2[e], w)
  BY <1>1, <1>14, <1>15, <1>16, <1>17, <1>18, Onward
<1>20. Quits(c, l, "LOCKED", w)
  <2>1. ~t.entering /\ ~y.entering
    BY <1>1, <1>10 DEF Quits, Both, Late, o
  <2>2. ~u.entering
    BY <2>1 DEF Marked
  <2> QED BY <1>13, <2>1, <2>2 DEF Quits, Both, o
<1>21. \A e \in Client : Quits(e, home[e], g2[e], w)
  <2>1. ASSUME NEW e \in Client, e # c PROVE Quits(e, home[e], g2[e], w)
    BY <1>1, <1>19, <2>1
  <2>2. Quits(c, home[c], g2[c], w)
    BY <1>15, <1>20
  <2> QED BY <2>1, <2>2
<1> QED
  BY <1>19, <1>21 DEF Pairing, g2


-----------------------------------------------------------------------------
(* TICKET_READY, ACTIVATE_LOCK and LOCK_ACTIVATED: the three handlers.     *)

Naming == {"TICKET_READY", "ACTIVATE_LOCK", "LOCK_ACTIVATED"}

\* What is known when leader l read such a message m of client c.
ReadsOn(m, c, s, l, home, g, v) ==
  /\ m \in Message /\ m \in InTime /\ m.key \in Key /\ m.key.client = c /\ c \in Client
  /\ s = Other(l) /\ net[Other(l)][l] # <<>> /\ m = Head(net[Other(l)][l])
  /\ home \in [Client -> Leader] /\ g \in [Client -> Stage]
  /\ Pairing(home, g, v) /\ v.tickets[l] = tickets[l] /\ \A k \in Leader : v.tickets[k] = Now.tickets[k]

LEMMA ReadsMark ==
  ASSUME TwoLeaders, TypeInv, Timely, NEW home, NEW g, Pairing(home, g, Now),
         NEW s \in Node, NEW l \in Leader, net[s][l] # <<>>, Head(net[s][l]).type \in Naming
  PROVE  ReadsOn(Head(net[s][l]), Head(net[s][l]).key.client, s, l, home, g, After(s, l, Here(l)))
<1> DEFINE m == Head(net[s][l])
           c == m.key.client
           v == After(s, l, Here(l))
<1>1. Opens(m, c, s, l, home, g, v)
  BY Opened
<1>2. m.type \in Naming
  OBVIOUS
<1>3. m = Head(net[s][l]) /\ c = m.key.client
  OBVIOUS
<1> HIDE DEF m, c, v
<1>4. /\ m \in Message /\ m \in InTime /\ m.key \in Key /\ c \in Client /\ m.key.client = c
      /\ home \in [Client -> Leader] /\ g \in [Client -> Stage]
      /\ v.tickets[l] = tickets[l]
  BY <1>1, <1>3 DEF Opens, Sent, Message
<1>5. s = Other(l)
  BY <1>1, <1>2 DEF Opens, Sent, Asks, Naming
<1>6. Pairing(home, g, v)
  BY <1>1, <1>2 DEF Opens, Naming, Steps, Asks, Down, Up
<1>7. \A k \in Leader : v.tickets[k] = Now.tickets[k]
  BY <1>1 DEF Opens, Read, Now
<1> QED
  BY <1>3, <1>4, <1>5, <1>6, <1>7 DEF ReadsOn, m, c, v

\* The leader is done with a mark that does no harm.
LEMMA AdvancesMark ==
  ASSUME TwoLeaders, TypeInv, Timely, NEW home, NEW g, NEW s \in Node, NEW l \in Leader,
         net[s][l] # <<>>, NEW m, NEW c, NEW v, v = After(s, l, Here(l)), ReadsOn(m, c, s, l, home, g, v),
         NEW F, Done(s, l, F), NEW T, NEW r, Carries(l, F, T, r, c, <<>>), Answers(r, c),
         \A e \in Client \ {c} : Entry(T, e) = Entry(tickets[l], e),
         Marking(Entry(tickets[l], c), Entry(T, c)),
         Harmless(c, l, r, Entry(tickets[l], c), Entry(T, c), home, g, v)
  PROVE  Advances(s, l, home, g)
<1> DEFINE w == After(s, l, F)
<1>1. /\ c \in Client /\ home \in [Client -> Leader] /\ g \in [Client -> Stage]
      /\ Pairing(home, g, v) /\ v.tickets[l] = tickets[l]
  BY DEF ReadsOn
<1>2. r \in Seq(Message) /\ Lacks(r, Apart(c))
  <2>1. Apart(c) \cap Of(c, {"LOCK_ACTIVATED"}) = {}
    BY DEF Apart, Of
  <2> QED BY <2>1 DEF Answers
<1>3. Handles(v, w, l, c, r, T, <<>>)
  <2> HIDE DEF w
  <2>1. Handles(After(s, l, Here(l)), After(s, l, F), l, c, r, T, <<>>)
    BY <1>1, <1>2, Handled
  <2> QED BY <2>1 DEF w
<1>4. Prompt(l, F)
  BY DEF Carries
<1> HIDE DEF w
<1>5. Acts(l, c, r, v, w) /\ w.tickets[l] = T /\ w.mail[c] = v.mail[c]
  BY <1>3 DEF Handles
<1>6. Core(home, g, v) /\ \A e \in Client : Quits(e, home[e], g[e], v)
  BY <1>1 DEF Pairing
<1>7. /\ Marking(Entry(v.tickets[l], c), Entry(w.tickets[l], c))
      /\ Harmless(c, l, r, Entry(v.tickets[l], c), Entry(w.tickets[l], c), home, g, v)
  BY <1>1, <1>5
<1>8. /\ Core(home, g, w)
      /\ \A e \in Client : Quits(e, home[e], g[e], v) => Quits(e, home[e], g[e], w)
  <2> HIDE DEF Marking
  <2> QED BY <1>1, <1>5, <1>6, <1>7, Marks
<1>9. Pairing(home, g, w)
  BY <1>6, <1>8 DEF Pairing
<1> QED
  BY <1>1, <1>4, <1>9, Stays DEF w

\* ... and with a lock that it grants.
Grant(l, F, T, r, c, n) == Carries(l, F, T, r, c, <<n>>)

LEMMA AdvancesGrant ==
  ASSUME TwoLeaders, TypeInv, Timely, NEW home, NEW g, NEW s \in Node, NEW l \in Leader,
         net[s][l] # <<>>, NEW m, NEW c, NEW v, v = After(s, l, Here(l)), ReadsOn(m, c, s, l, home, g, v),
         home[c] = l, g[c] = "WAITING", Cleared(c, home, v),
         NEW F, Done(s, l, F), NEW T, NEW r, NEW n \in Notice, n.type = "LOCKED",
         Grant(l, F, T, r, c, n), Answers(r, c),
         \A e \in Client \ {c} : Entry(T, e) = Entry(tickets[l], e),
         NEW t, NEW u, Entry(tickets[l], c) = {t}, Entry(T, c) = {u}, Marked(t, u),
         t.ready, u.ready, u.locked
  PROVE  Advances(s, l, home, g)
<1> DEFINE w == After(s, l, F)
<1>1. /\ c \in Client /\ home \in [Client -> Leader] /\ g \in [Client -> Stage]
      /\ Pairing(home, g, v) /\ v.tickets[l] = tickets[l]
  BY DEF ReadsOn
<1>2. r \in Seq(Message) /\ Lacks(r, Apart(c))
  <2>1. Apart(c) \cap Of(c, {"LOCK_ACTIVATED"}) = {}
    BY DEF Apart, Of
  <2> QED BY <2>1 DEF Answers
<1>3. Handles(v, w, l, c, r, T, <<n>>)
  <2> DEFINE q == <<n>>
  <2>1. Carries(l, F, T, r, c, q)
    BY DEF Grant
  <2> HIDE DEF w, q
  <2>2. Handles(After(s, l, Here(l)), After(s, l, F), l, c, r, T, q)
    BY <1>1, <1>2, <2>1, Handled
  <2> QED BY <2>2 DEF w, q
<1>4. Prompt(l, F)
  BY DEF Carries, Grant
<1> HIDE DEF w
<1>5. Acts(l, c, r, v, w) /\ w.tickets[l] = T
      /\ w.mail[c][l] = Append(v.mail[c][l], n) /\ w.mail[c][Other(l)] = v.mail[c][Other(l)]
  BY <1>3 DEF Handles
<1>6. Entry(v.tickets[l], c) = {t} /\ Entry(w.tickets[l], c) = {u}
  BY <1>1, <1>5
<1>7. Pairing(home, To(g, c, "LOCKED"), w)
  BY <1>1, <1>5, <1>6, Granting
<1>8. Home(home, c, l) = home /\ "LOCKED" \in Stage /\ StateOf("LOCKED") = StateOf(g[c])
  BY <1>1 DEF Home, Stage, Late, Granted, StateOf
<1>9. Pairing(Home(home, c, l), To(g, c, "LOCKED"), w)
  BY <1>7, <1>8
<1> QED
  BY <1>1, <1>4, <1>8, <1>9, Settles DEF w


\* What a handler that starts from an empty reply adds to what it has to say.
Adding(l, D, F, r, c) == \A S, q : Carries(l, D, S, <<>>, c, q) => Carries(l, F, S, r, c, q)

\* ticket::lock_activated() on the ticket that the message names.
LEMMA Activates ==
  ASSUME TwoLeaders, TypeInv, Timely, NEW home, NEW g, Pairing(home, g, Now), NEW s \in Node, NEW l \in Leader,
         net[s][l] # <<>>, NEW m, NEW c, NEW v, v = After(s, l, Here(l)), ReadsOn(m, c, s, l, home, g, v),
         NEW t \in tickets[l], t.client = c, t.listed, Promise(m, t, c, l, home, g, Now),
         g[c] = "WAITING" => Cleared(c, home, Now),
         NEW F, NEW r, Done(s, l, F), Adding(l, LockActivated(Here(l), t), F, r, c), Answers(r, c)
  PROVE  Advances(s, l, home, g)
<1> DEFINE D == Here(l)
           S == tickets[l]
           E == LockActivated(D, t)
           u == [t EXCEPT !.locked = TRUE, !.lockDate = now + Duration]
           n == [Note("LOCKED") EXCEPT !.date = now + Duration]
           T == Put(S, c, u)
<1>1. /\ c \in Client /\ home \in [Client -> Leader] /\ g \in [Client -> Stage]
      /\ \A k \in Leader : v.tickets[k] = Now.tickets[k]
  BY DEF ReadsOn
<1>2. /\ Entry(S, c) = {t}
      /\ \/ t.ready /\ t.locked /\ Idly(c, l, home, g)
         \/ ~t.quorum /\ t.owner # l /\ (Idly(c, l, home, g) \/ Awaits(c, l, home, g, Now))
         \/ l = home[c] /\ g[c] = "WAITING" /\ t.owner = l /\ t.quorum /\ t.ready /\ ~t.locked
  BY DEF Promise, Now
<1>3. /\ Awaits(c, l, home, g, Now) => Awaits(c, l, home, g, v)
      /\ Cleared(c, home, Now) => Cleared(c, home, v)
  <2>1. home[c] \in Leader
    BY <1>1
  <2>2. v.tickets[home[c]] = Now.tickets[home[c]]
    BY <1>1, <2>1
  <2>3. Awaits(c, l, home, g, Now) => Awaits(c, l, home, g, v)
    BY <2>2 DEF Awaits
  <2>4. Cleared(c, home, Now) => Cleared(c, home, v)
    BY <1>1, <2>2 DEF Cleared
  <2> QED BY <2>3, <2>4
<1>4. Prompt(l, D) /\ D.tickets = S /\ D.me = l /\ t \in D.tickets /\ t \in Ticket
  <2>1. Prompt(l, D) /\ D.tickets = S /\ D.me = l
    BY HerePrompt
  <2>2. t \in Ticket
    BY NowWorld
  <2> QED BY <2>1, <2>2
<1>5. Carries(l, D, S, <<>>, c, <<>>)
  BY <1>1, CarriesHere
<1>6. /\ u \in Punctual
      /\ IF t.ready /\ ~t.locked
         THEN E = IF t.owner = l THEN TellClient(Update(D, t, u), t.client, n) ELSE Update(D, t, u)
         ELSE E = D
  <2> HIDE DEF D
  <2> QED BY <1>4, PromptActivated, ZenonT(30)
<1>7. n \in Notice /\ n.type = "LOCKED" /\ n \in Gentle
  <2>1. now + Duration \in Nat /\ now + Duration > LastDate
    BY <1>4, Dates DEF Prompt
  <2> QED BY <2>1 DEF Note, Notice, Gentle
<1>8. u \in Ticket /\ Marked(t, u) /\ u.locked /\ u.ready = t.ready
  <2>1. u \in Ticket
    BY <1>6 DEF Punctual
  <2> QED BY <1>4, <2>1 DEF Marked, Ticket
<1> HIDE DEF D, E, u, n
<1>9. u.client = c /\ u.listed /\ KeyOf(u) = KeyOf(t)
  BY <1>8 DEF Marked, KeyOf
<1>10. Carries(l, Update(D, t, u), T, <<>>, c, <<>>)
  BY <1>1, <1>2, <1>5, <1>6, <1>8, <1>9, CarriesUpdate
<1>11. /\ \A e \in Client \ {c} : Entry(T, e) = Entry(S, e)
       /\ Entry(T, c) = {u}
  <2>0. u.client = c
    BY <1>9
  <2>1. \A e : e # c => Entry(T, e) = Entry(S, e)
    BY <2>0 DEF Put, Entry
  <2>2. Entry(T, c) = IF u.entering \/ u.listed THEN {u} ELSE {}
    BY <2>0, PutEntry, Zenon
  <2> HIDE DEF T
  <2> QED BY <1>9, <2>1, <2>2
<1> HIDE DEF S, T
<1>12. CASE E = D
  <2>1. Carries(l, F, S, r, c, <<>>)
    BY <1>5, <1>12 DEF Adding, E, D
  <2>2. Marking(Entry(S, c), Entry(S, c))
    BY DEF Marking
  <2>3. ~(t.ready /\ ~t.locked)
    <3> SUFFICES ASSUME t.ready, ~t.locked PROVE FALSE
      OBVIOUS
    <3>1. Carries(l, Update(D, t, u), T, <<>>, c, <<>>) /\ Carries(l, D, S, <<>>, c, <<>>)
      BY <1>5, <1>10
    <3>2. \/ D = Update(D, t, u)
          \/ D = TellClient(Update(D, t, u), c, n)
      BY <1>6, <1>12
    <3>3. D.tickets = S /\ Update(D, t, u).tickets = T
      BY <3>1 DEF Carries
    <3>4. TellClient(Update(D, t, u), c, n).tickets = T
      BY <3>3, <1>1, <1>7, <1>10, CarriesNotice DEF Carries
    <3>5. S = T
      BY <3>2, <3>3, <3>4
    <3>6. u = t
      BY <1>2, <1>11, <3>5
    <3> QED BY <1>8, <3>6
  <2>4. Harmless(c, l, r, Entry(S, c), Entry(S, c), home, g, v)
    BY <1>2, <1>3, <2>3 DEF Harmless, Awaits
  <2>5. \A e \in Client \ {c} : Entry(S, e) = Entry(tickets[l], e)
    BY DEF S
  <2> QED BY <2>1, <2>2, <2>4, <2>5, AdvancesMark DEF S
<1>13. CASE t.ready /\ ~t.locked /\ t.owner # l
  <2>1. Carries(l, E, T, <<>>, c, <<>>)
    BY <1>6, <1>10, <1>13
  <2>2. Carries(l, F, T, r, c, <<>>)
    BY <2>1 DEF Adding, E, D
  <2>3. ~t.quorum /\ (Idly(c, l, home, g) \/ Awaits(c, l, home, g, Now))
    BY <1>2, <1>13
  <2>4. Marking(Entry(S, c), Entry(T, c))
    BY <1>2, <1>8, <1>11, <2>3 DEF Marking
  <2>5. Harmless(c, l, r, Entry(S, c), Entry(T, c), home, g, v)
    BY <1>3, <2>3 DEF Harmless, Awaits
  <2> QED BY <1>11, <2>2, <2>4, <2>5, AdvancesMark DEF S
<1>14. CASE t.ready /\ ~t.locked /\ t.owner = l
  <2>1. E = TellClient(Update(D, t, u), c, n)
    BY <1>6, <1>14
  <2>2. Carries(l, E, T, <<>>, c, <<n>>)
    BY <1>1, <1>7, <1>10, <2>1, CarriesNotice
  <2> DEFINE q == <<n>>
  <2>3. Carries(l, E, T, <<>>, c, q)
    BY <2>2
  <2> HIDE DEF q
  <2>4. Carries(l, F, T, r, c, q)
    BY <2>3 DEF Adding, E, D
  <2>5. l = home[c] /\ g[c] = "WAITING"
    BY <1>2, <1>14
  <2>6. Cleared(c, home, v)
    BY <1>3, <2>5
  <2>7. Grant(l, F, T, r, c, n)
    BY <2>4 DEF q, Grant
  <2>8. Entry(tickets[l], c) = {t} /\ \A e \in Client \ {c} : Entry(T, e) = Entry(tickets[l], e)
    BY <1>2, <1>11 DEF S
  <2>9. t.ready /\ u.ready /\ u.locked /\ Marked(t, u) /\ Entry(T, c) = {u}
    BY <1>8, <1>11, <1>14
  <2>10. Done(s, l, F) /\ Answers(r, c) /\ ReadsOn(m, c, s, l, home, g, v)
    OBVIOUS
  <2> QED BY <1>7, <2>5, <2>6, <2>7, <2>8, <2>9, <2>10, AdvancesGrant
<1> QED
  BY <1>6, <1>12, <1>13, <1>14


\* The ticket with a given key, if the leader has it.
LEMMA Named ==
  ASSUME TwoLeaders, TypeInv, NEW home, NEW g, Pairing(home, g, Now), NEW l \in Leader,
         NEW k, NEW t \in ListedAs(Here(l), k), k.client \in Client
  PROVE  /\ t \in tickets[l] /\ t.client = k.client /\ t.listed /\ KeyOf(t) = k
         /\ ListedAs(Here(l), k) = {t} /\ One(ListedAs(Here(l), k)) = t
         /\ Entry(tickets[l], k.client) = {t} /\ t \in Ticket
<1> DEFINE c == k.client
<1>1. t \in tickets[l] /\ t.listed /\ KeyOf(t) = k /\ t.client = c
  BY DEF ListedAs, Here, Start, KeyOf
<1>2. Entry(tickets[l], c) = {t}
  <2>1. home[c] \in Leader /\ Own(c, home[c], g[c], Now) /\ Now.tickets[l] = tickets[l]
    BY DEF Pairing, Core, Now
  <2>2. t \in Entry(Now.tickets[l], c)
    BY <1>1, <2>1 DEF Entry
  <2>3. Entry(Now.tickets[l], c) = {t}
    <3> DEFINE h == home[c]
               st == g[c]
    <3>1. h \in Leader /\ Own(c, h, st, Now)
      BY <2>1
    <3> HIDE DEF h, st, c
    <3>2. /\ Entry(Now.tickets[l], c) = {t}
          /\ \/ Gone(t, l) /\ (st \in Outside \/ (st \in Opening /\ l # h))
             \/ l = h /\ st \notin Outside /\ AtHome(t, h, st)
             \/ l # h /\ st \notin Outside \cup Opening /\ AtOther(t, h, st)
      BY <2>2, <3>1, Lone, ZenonT(30)
    <3> QED BY <3>2
  <2> QED BY <2>1, <2>3
<1>3. \A x \in ListedAs(Here(l), k) : x \in Entry(tickets[l], c)
  BY DEF ListedAs, Here, Start, KeyOf, Entry
<1>4. ListedAs(Here(l), k) = {t}
  BY <1>2, <1>3
<1>5. t \in Ticket
  BY <1>1, NowWorld
<1>6. One({t}) = t
  BY DEF One
<1> QED
  BY <1>1, <1>2, <1>4, <1>5, <1>6

\* cluckd::msg_ticket_ready(): another leader waits no longer.
LEMMA PairsTicketReady ==
  ASSUME TwoLeaders, TypeInv, Timely, NEW home, NEW g, Pairing(home, g, Now),
         NEW s \in Node, NEW l \in Leader, MsgTicketReady(s, l)
  PROVE  Advances(s, l, home, g)
<1> DEFINE m == Head(net[s][l])
           c == m.key.client
           D == Here(l)
           S == tickets[l]
           v == After(s, l, D)
           A == ListedAs(D, m.key)
<1>1. net[s][l] # <<>> /\ m.type = "TICKET_READY"
  BY DEF MsgTicketReady, Arrived
<1>2. ReadsOn(m, c, s, l, home, g, v)
  BY <1>1, ReadsMark DEF Naming
<1>3. Done(s, l, IF A = {} THEN D ELSE Update(D, One(A), [One(A) EXCEPT !.ready = TRUE]))
  BY DEF MsgTicketReady, Received
<1>4. m = Head(net[s][l]) /\ v = After(s, l, Here(l)) /\ m.key.client = c
  OBVIOUS
<1> HIDE DEF m, c, v
<1>5. /\ c \in Client /\ home \in [Client -> Leader] /\ g \in [Client -> Stage] /\ Pairing(home, g, v)
      /\ \A k \in Leader : v.tickets[k] = Now.tickets[k]
      /\ s = Other(l) /\ net[Other(l)][l] # <<>> /\ m = Head(net[Other(l)][l]) /\ m.key.client = c
      /\ m \in Message
  BY <1>2 DEF ReadsOn
<1>6. Prompt(l, D) /\ D.tickets = S
  BY HerePrompt
<1>7. CASE A = {}
  BY <1>3, <1>5, <1>6, <1>7, Stays DEF v
<1>8. CASE A # {}
  <2> DEFINE key == m.key
  <2>1. PICK t : t \in A
    BY <1>8
  <2>2. /\ t \in S /\ t.client = c /\ t.listed /\ One(A) = t /\ Entry(S, c) = {t} /\ t \in Ticket
    <3>1. key.client = c /\ t \in ListedAs(Here(l), key)
      BY <1>4, <2>1
    <3> HIDE DEF key
    <3>2. /\ t \in tickets[l] /\ t.client = key.client /\ t.listed
          /\ One(ListedAs(Here(l), key)) = t
          /\ Entry(tickets[l], key.client) = {t} /\ t \in Ticket
      BY <1>5, <3>1, Named
    <3> QED BY <3>1, <3>2 DEF key
  <2> DEFINE u == [t EXCEPT !.ready = TRUE]
             E == Update(D, t, u)
             T == Put(S, c, u)
  <2>3. Done(s, l, E)
    <3> HIDE DEF A, D
    <3> QED BY <1>3, <1>8, <2>2
  <2>4. Promise(m, t, c, l, home, g, Now)
    <3>1. m \in Grants(c)
      BY <1>1, <1>5 DEF Grants, Of
    <3>2. t \in Entry(tickets[l], c)
      BY <2>2
    <3> QED BY <1>5, <2>2, <3>1, <3>2, Promised
  <2>5. \/ t.ready /\ t.locked /\ Idly(c, l, home, g)
        \/ ~t.quorum /\ t.owner # l /\ (Idly(c, l, home, g) \/ Awaits(c, l, home, g, Now))
    BY <1>1, <2>4 DEF Promise
  <2>6. Awaits(c, l, home, g, Now) => Awaits(c, l, home, g, v)
    <3>1. v.tickets[home[c]] = Now.tickets[home[c]]
      BY <1>5
    <3> QED BY <3>1 DEF Awaits
  <2>7. u \in Punctual /\ u \in Ticket /\ u.client = c /\ u.listed /\ KeyOf(u) = KeyOf(t) /\ Marked(t, u)
    <3>1. t \in Punctual
      BY <1>6, <2>2 DEF Prompt
    <3> QED BY <2>2, <3>1 DEF Punctual, Ticket, KeyOf, Marked
  <2>8. t.ready => u = t
    BY <2>2 DEF Ticket
  <2> HIDE DEF u, D, E, S
  <2>9. Carries(l, E, T, <<>>, c, <<>>)
    <3>1. Carries(l, D, S, <<>>, c, <<>>)
      BY <1>5, CarriesHere DEF D, S
    <3> QED BY <1>5, <2>2, <2>7, <3>1, CarriesUpdate DEF E
  <2>10. /\ \A e \in Client \ {c} : Entry(T, e) = Entry(S, e)
         /\ Entry(T, c) = {u}
    <3>0. u.client = c
      BY <2>7
    <3>1. \A e : e # c => Entry(T, e) = Entry(S, e)
      BY <3>0 DEF Put, Entry
    <3>2. Entry(T, c) = IF u.entering \/ u.listed THEN {u} ELSE {}
      BY <3>0, PutEntry, Zenon
    <3> HIDE DEF T
    <3> QED BY <2>7, <3>1, <3>2
  <2> HIDE DEF T
  <2> DEFINE r == <<>>
  <2>11. Lacks(r, Dones(c)) /\ Answers(r, c) /\ Carries(l, E, T, r, c, <<>>)
    BY <2>9 DEF Lacks, Answers
  <2> HIDE DEF r
  <2>12. Marking(Entry(S, c), Entry(T, c))
    BY <2>2, <2>5, <2>7, <2>8, <2>10 DEF Marking
  <2>13. Harmless(c, l, r, Entry(S, c), Entry(T, c), home, g, v)
    BY <2>5, <2>6, <2>11 DEF Harmless
  <2>14. /\ Marking(Entry(tickets[l], c), Entry(T, c))
         /\ Harmless(c, l, r, Entry(tickets[l], c), Entry(T, c), home, g, v)
         /\ \A e \in Client \ {c} : Entry(T, e) = Entry(tickets[l], e)
    BY <2>10, <2>12, <2>13 DEF S
  <2>15. v = After(s, l, Here(l))
    BY <1>4
  <2>16. Carries(l, E, T, r, c, <<>>) /\ Answers(r, c)
    BY <2>11
  <2> QED BY <1>1, <1>2, <2>3, <2>14, <2>15, <2>16, AdvancesMark
<1> QED
  BY <1>7, <1>8


\* cluckd::msg_lock_activated(): another leader found the ticket first in its table.
LEMMA PairsLockActivated ==
  ASSUME TwoLeaders, TypeInv, Timely, NEW home, NEW g, Pairing(home, g, Now),
         NEW s \in Node, NEW l \in Leader, MsgLockActivated(s, l)
  PROVE  Advances(s, l, home, g)
<1> DEFINE m == Head(net[s][l])
           c == m.key.client
           D == Here(l)
           v == After(s, l, D)
           A == ListedAs(D, m.key)
<1>1. net[s][l] # <<>> /\ m.type = "LOCK_ACTIVATED"
  BY DEF MsgLockActivated, Arrived
<1>2. ReadsOn(m, c, s, l, home, g, v)
  BY <1>1, ReadsMark DEF Naming
<1>3. Done(s, l, IF m.other # m.key \/ A = {} THEN D ELSE LockActivated(D, One(A)))
  BY DEF MsgLockActivated, Received
<1>4. v = After(s, l, Here(l)) /\ m.key.client = c
  OBVIOUS
<1> HIDE DEF m, c, v
<1>5. /\ c \in Client /\ home \in [Client -> Leader] /\ g \in [Client -> Stage] /\ Pairing(home, g, v)
      /\ net[Other(l)][l] # <<>> /\ m = Head(net[Other(l)][l])
      /\ m \in Message
  BY <1>2 DEF ReadsOn
<1>6. Prompt(l, D)
  BY HerePrompt
<1>7. CASE m.other # m.key \/ A = {}
  BY <1>3, <1>5, <1>6, <1>7, Stays DEF v
<1>8. CASE m.other = m.key /\ A # {}
  <2> DEFINE key == m.key
  <2>1. PICK t : t \in A
    BY <1>8
  <2>2. /\ t \in tickets[l] /\ t.client = c /\ t.listed /\ One(A) = t /\ Entry(tickets[l], c) = {t}
    <3>1. key.client = c /\ t \in ListedAs(Here(l), key)
      BY <1>4, <2>1
    <3>2. key.client \in Client
      BY <1>5, <3>1
    <3> HIDE DEF key, A, D
    <3>3. /\ t \in tickets[l] /\ t.client = key.client /\ t.listed
          /\ One(ListedAs(Here(l), key)) = t
          /\ Entry(tickets[l], key.client) = {t}
      BY <3>1, <3>2, Named
    <3> QED BY <3>1, <3>3 DEF key, A, D
  <2> DEFINE E == LockActivated(Here(l), t)
             r == <<>>
  <2>3. Done(s, l, E)
    <3> HIDE DEF A
    <3> QED BY <1>3, <1>8, <2>2
  <2>4. m \in Dones(c) /\ m \in Grants(c)
    BY <1>1, <1>4, <1>5, <1>8 DEF Grants, Dones, Of
  <2>5. Promise(m, t, c, l, home, g, Now)
    <3>2. t \in Entry(tickets[l], c)
      BY <2>2
    <3> QED BY <1>5, <2>2, <2>4, <3>2, Promised
  <2>6. g[c] = "WAITING" => Cleared(c, home, Now)
    BY <2>4, <2>5 DEF Promise
  <2>7. Answers(r, c) /\ Adding(l, E, E, r, c)
    BY DEF Lacks, Answers, Adding
  <2> HIDE DEF E, r, A, D
  <2>8. Adding(l, LockActivated(Here(l), t), E, r, c)
    BY <2>7 DEF E
  <2>9. v = After(s, l, Here(l)) /\ Answers(r, c)
    BY <1>4, <2>7
  <2> QED BY <1>1, <1>2, <2>2, <2>3, <2>5, <2>6, <2>8, <2>9, Activates
<1> QED
  BY <1>7, <1>8

\* The answer to an ACTIVATE_LOCK.
Activated(k, first) == [Msg("LOCK_ACTIVATED", k) EXCEPT !.other = first]

LEMMA Answering ==
  ASSUME NEW c \in Client, NEW k \in Key, k.client = c, NEW first \in Key \cup {NoKey}
  PROVE  LET x == Activated(k, first)
         IN  /\ x \in InTime /\ x \in Message /\ Answers(<<x>>, c)
             /\ first # k => Lacks(<<x>>, Dones(c))
<1> DEFINE x == Activated(k, first)
<1>1. x = [type |-> "LOCK_ACTIVATED", key |-> k, value |-> 0, other |-> first]
  BY DEF Activated, Msg
<1>2. x \in Message /\ x.type = "LOCK_ACTIVATED" /\ x.key = k /\ x.other = first
  BY <1>1 DEF Message
<1> HIDE DEF x
<1>3. x \in InTime /\ x \in Of(c, {"LOCK_ACTIVATED"}) /\ (first # k => x \notin Dones(c))
  BY <1>2 DEF InTime, Of, Dones
<1>4. <<x>> \in Seq(Message) /\ \A X : Lacks(<<x>>, X) <=> x \notin X
  BY <1>2, OneMessage
<1> DEFINE r == <<x>>
<1>5. r \in Seq(Message) /\ \A X : Lacks(r, X) <=> x \notin X
  BY <1>4
<1> HIDE DEF r
<1>6. Answers(r, c) /\ (first # k => Lacks(r, Dones(c)))
  BY <1>3, <1>5 DEF Answers
<1> QED
  BY <1>2, <1>3, <1>6 DEF r, x

\* cluckd::msg_activate_lock(): whether the ticket comes first here as well.
LEMMA PairsActivateLock ==
  ASSUME TwoLeaders, TypeInv, Timely, NEW home, NEW g, Pairing(home, g, Now),
         NEW s \in Node, NEW l \in Leader, MsgActivateLock(s, l)
  PROVE  Advances(s, l, home, g)
<1> DEFINE m == Head(net[s][l])
           c == m.key.client
           k == m.key
           D == Here(l)
           v == After(s, l, D)
           none == Listed(D) = {}
           t == First(Listed(D))
           first == IF none THEN NoKey ELSE KeyOf(t)
           x == Activated(k, first)
           E == IF ~none /\ first = k THEN LockActivated(D, t) ELSE D
           F == Cleanup(Tell(E, s, x))
           r == <<x>>
<1>1. net[s][l] # <<>> /\ m.type = "ACTIVATE_LOCK"
  BY DEF MsgActivateLock, Arrived
<1>2. ReadsOn(m, c, s, l, home, g, v)
  BY <1>1, ReadsMark DEF Naming
<1>3. Prompt(l, D) /\ ExpireListed(D) = D /\ D.tickets = tickets[l]
  <2>1. Prompt(l, D) /\ D.tickets = tickets[l]
    BY HerePrompt
  <2> HIDE DEF D
  <2> QED BY <2>1, NothingExpires
<1>4. Done(s, l, F)
  BY <1>3, Zenon DEF MsgActivateLock, Received, Reply, Activated
<1>5. v = After(s, l, Here(l)) /\ m.key.client = c /\ k.client = c
  OBVIOUS
<1> HIDE DEF m, c, v
<1>6. /\ c \in Client /\ home \in [Client -> Leader] /\ g \in [Client -> Stage] /\ Pairing(home, g, v)
      /\ net[Other(l)][l] # <<>> /\ m = Head(net[Other(l)][l])
      /\ m \in Message /\ k \in Key /\ s = Other(l)
  BY <1>2 DEF ReadsOn
<1>7. Sound(l, D)
  BY <1>3 DEF Prompt
<1> HIDE DEF D
<1>8. ~none => /\ t \in tickets[l] /\ t \in Ticket /\ t.listed
               /\ \A u \in Listed(D) \ {t} : Before(KeyOf(t), KeyOf(u))
  <2>1. ~none => /\ t \in tickets[l] /\ t.listed
                 /\ \A u \in Listed(D) \ {t} : Before(KeyOf(t), KeyOf(u))
    BY <1>3, <1>7, FirstListed
  <2>2. \A u \in tickets[l] : u \in Ticket
    BY NowWorld
  <2> HIDE DEF t
  <2> QED BY <2>1, <2>2
<1> HIDE DEF t
<1>9. first \in Key \cup {NoKey} /\ (first = k => ~none)
  <2>1. ~none => KeyOf(t) \in Key
    BY <1>8 DEF KeyOf, Key, Ticket
  <2>2. k # NoKey
    BY <1>5, <1>6, ClientAssumption DEF NoKey
  <2> HIDE DEF k
  <2> QED BY <2>1, <2>2
<1> HIDE DEF first
<1>10. /\ x \in InTime /\ x \in Message /\ Answers(r, c)
       /\ first # k => Lacks(r, Dones(c))
  <2> HIDE DEF k
  <2> QED BY <1>5, <1>6, <1>9, Answering
<1> HIDE DEF x
<1>11. Adding(l, E, F, r, c)
  <2> SUFFICES ASSUME NEW S, NEW q, Carries(l, E, S, <<>>, c, q)
               PROVE  Carries(l, F, S, r, c, q)
    BY DEF Adding
  <2> HIDE DEF E, k
  <2>1. Carries(l, Tell(E, s, x), S, <<x>>, c, q)
    <3> DEFINE e == <<>>
    <3>1. Carries(l, E, S, e, c, q) /\ e = <<>>
      OBVIOUS
    <3> HIDE DEF e
    <3> QED BY <1>6, <1>10, <3>1, CarriesReply
  <2>2. Cleanup(Tell(E, s, x)) = Tell(E, s, x)
    <3> DEFINE G == Tell(E, s, x)
    <3>1. Carries(l, G, S, r, c, q)
      BY <2>1
    <3> HIDE DEF G, r
    <3>2. Cleanup(G) = G
      BY <3>1, CarriesCleanup
    <3> QED BY <3>2 DEF G
  <2> QED BY <2>1, <2>2
<1> HIDE DEF r, F
<1>12. CASE first = k
  <2>1. ~none /\ E = LockActivated(D, t) /\ KeyOf(t) = k
    <3>1. ~none
      BY <1>9, <1>12
    <3> HIDE DEF none
    <3> QED BY <1>12, <3>1 DEF first
  <2>2. t \in tickets[l] /\ t.client = c /\ t.listed
    <3>1. KeyOf(t).client = c
      BY <1>5, <2>1
    <3> HIDE DEF k
    <3> QED BY <1>8, <2>1, <3>1 DEF KeyOf
  <2>3. m \in Grants(c)
    BY <1>1, <1>5, <1>6 DEF Grants, Of
  <2>4. Promise(m, t, c, l, home, g, Now)
    <3>1. t \in Entry(tickets[l], c)
      BY <2>2 DEF Entry
    <3> HIDE DEF k, none
    <3> QED BY <1>6, <2>2, <2>3, <3>1, Promised
  <2>5. Clear(Now.tickets[l], t)
    <3>1. Now.tickets[l] = tickets[l]
      BY DEF Now
    <3>2. \A u \in tickets[l] : u.listed /\ u # t => Before(KeyOf(t), KeyOf(u))
      BY <1>3, <1>8, <2>1 DEF Listed
    <3> HIDE DEF k, none
    <3> QED BY <3>1, <3>2 DEF Clear
  <2>6. g[c] = "WAITING" => Cleared(c, home, Now)
    BY <1>1, <2>4, <2>5 DEF Promise
  <2>7. Adding(l, LockActivated(Here(l), t), F, r, c)
    <3> HIDE DEF E
    <3> QED BY <1>11, <2>1 DEF D
  <2>8. v = After(s, l, Here(l)) /\ Answers(r, c)
    BY <1>5, <1>10
  <2> HIDE DEF E, none, k
  <2> QED BY <1>1, <1>2, <1>4, <2>2, <2>4, <2>6, <2>7, <2>8, Activates
<1>13. CASE first # k
  <2> DEFINE S == tickets[l]
  <2>1. E = D
    BY <1>13
  <2>2. Carries(l, F, S, r, c, <<>>)
    <3>1. Carries(l, D, S, <<>>, c, <<>>)
      BY <1>6, CarriesHere DEF D
    <3> HIDE DEF E, S
    <3> QED BY <1>11, <2>1, <3>1 DEF Adding
  <2>3. /\ Marking(Entry(tickets[l], c), Entry(S, c))
        /\ Harmless(c, l, r, Entry(tickets[l], c), Entry(S, c), home, g, v)
        /\ \A e \in Client \ {c} : Entry(S, e) = Entry(tickets[l], e)
    BY <1>10, <1>13 DEF Marking, Harmless
  <2>4. v = After(s, l, Here(l)) /\ Answers(r, c)
    BY <1>5, <1>10
  <2> HIDE DEF E, none, k, S
  <2> QED BY <1>1, <1>2, <1>4, <2>2, <2>3, <2>4, AdvancesMark
<1> QED
  BY <1>12, <1>13


-----------------------------------------------------------------------------
(* The lock is given back: UNLOCK.                                         *)

\* A leader drops its ticket, and asks the other one to do as much.
LEMMA Dropped ==
  ASSUME TwoLeaders, NEW l \in Leader, NEW c \in Client, NEW r, NEW v, NEW w,
         Acts(l, c, r, v, w), Quiet(c, v), NEW home, NEW g, Core(home, g, v), g[c] = "UNLOCK",
         \A k \in Leader : \A x \in Entry(v.tickets[k], c) : ~x.entering,
         \A e \in Client \ {c} : Quits(e, home[e], g[e], v),
         NEW z \in Entry(v.tickets[l], c), NEW m \in Drops(c), m.key = KeyOf(z), r = <<m>>,
         Entry(w.tickets[l], c) = {},
         NEW n \in Notice, n.type = "UNLOCKED",
         w.mail[c][l] = Append(v.mail[c][l], n), w.mail[c][Other(l)] = v.mail[c][Other(l)]
  PROVE  Pairing(Home(home, c, l), To(g, c, "UNLOCKED"), w)
<1> DEFINE h == home[c]
           o == Other(l)
           oh == Other(h)
<1>1. /\ h \in Leader /\ home \in [Client -> Leader] /\ g \in [Client -> Stage]
      /\ Own(c, h, "UNLOCK", v)
  BY DEF Core
<1>2. /\ o \in Leader /\ o # l /\ Other(o) = l /\ Leader = {l, o}
      /\ oh \in Leader /\ oh # h /\ Other(oh) = h /\ Leader = {h, oh}
  BY <1>1, OtherLeader
<1> HIDE DEF o, oh
<1>3. World(v) /\ World(w) /\ v.net[l][o] \in Seq(Message)
  BY <1>2, ActsBeside DEF o
<1>4. /\ r \in Seq(Message) /\ w.net[c] = v.net[c] /\ w.tickets[o] = v.tickets[o]
      /\ w.net[l][o] = v.net[l][o] \o r /\ w.net[o][l] = v.net[o][l]
  BY DEF Acts, o
<1>5. /\ m \in Message /\ \A X : Lacks(r, X) <=> m \notin X
  <2>1. m \in Message
    BY DEF Drops, Of
  <2> QED BY <2>1, OneMessage
<1>6. "UNLOCK" \notin Outside \cup Opening /\ "UNLOCK" \in Late /\ "UNLOCK" \in Granted
  BY DEF Outside, Opening, Late, Granted
<1>7. PICK t, y : Both(t, y, c, h, oh, "UNLOCK", v)
  <2>1. Keeps(c, h, "UNLOCK", v)
    BY <1>1 DEF Own
  <2> HIDE DEF h
  <2> QED BY <1>6, <2>1, Inside DEF oh
<1>8. /\ Entry(v.tickets[h], c) = {t} /\ Entry(v.tickets[oh], c) = {y}
      /\ t \in Ticket /\ y \in Ticket /\ t.client = c /\ y.client = c
      /\ t.number = y.number /\ t.rank = t.number /\ y.rank = y.number
      /\ t.listed /\ y.listed /\ t.owner = h /\ y.owner = h /\ t.quorum /\ t.locked /\ t.ready /\ t.still = {}
      /\ ~y.quorum
  <2>1. AtHome(t, h, "UNLOCK") /\ AtOther(y, h, "UNLOCK")
    BY <1>7 DEF Both
  <2>2. /\ Entry(v.tickets[h], c) = {t} /\ Entry(v.tickets[oh], c) = {y}
        /\ t \in Ticket /\ y \in Ticket /\ t.client = c /\ y.client = c /\ t.number = y.number
    BY <1>6, <1>7 DEF Both
  <2>3. t.rank = t.number /\ t.listed /\ t.owner = h /\ t.quorum /\ t.locked /\ t.ready /\ t.still = {}
    BY <1>6, <2>1 DEF AtHome
  <2>4. y.rank = y.number /\ y.listed /\ y.owner = h /\ ~y.quorum
    BY <1>6, <2>1 DEF AtOther
  <2> QED BY <2>2, <2>3, <2>4
<1>9. ~Left(c, l, v) /\ ~Left(c, o, v)
  <2>1. ~Left(c, h, v) /\ ~Left(c, oh, v)
    BY <1>7 DEF Both
  <2> HIDE DEF h
  <2> QED BY <1>2, <2>1
<1>10. PICK a \in Ticket : Entry(v.tickets[o], c) = {a} /\ Gone(a, o) /\ KeyOf(a) = KeyOf(z)
  <2>1. z.client = c /\ \A k \in Leader : \A x \in Entry(v.tickets[k], c) : ~x.entering
    BY DEF Entry
  <2>2. CASE l = h
    <3>1. o = oh
      BY <2>2 DEF o, oh
    <3>2. z = t /\ Entry(v.tickets[o], c) = {y} /\ ~y.entering
      BY <1>2, <1>8, <2>1, <2>2, <3>1
    <3>3. Gone(y, o) /\ KeyOf(y) = KeyOf(z)
      BY <1>2, <1>8, <2>2, <3>2 DEF Gone, KeyOf
    <3> QED BY <1>8, <3>2, <3>3
  <2>3. CASE l = oh
    <3>1. o = h
      BY <1>2, <2>3
    <3>2. z = y /\ Entry(v.tickets[o], c) = {t} /\ ~t.entering
      BY <1>2, <1>8, <2>1, <2>3, <3>1
    <3>3. Gone(t, o) /\ KeyOf(t) = KeyOf(z)
      BY <1>8, <3>1, <3>2 DEF Gone, KeyOf
    <3> QED BY <1>8, <3>2, <3>3
  <2> HIDE DEF h
  <2> QED BY <1>2, <2>2, <2>3
<1>11. Lacks(v.net[o][l], Drops(c)) /\ Lacks(v.net[l][o], Drops(c))
  <2>1. Other(l) = o /\ Other(o) = l
    BY <1>2 DEF o
  <2> HIDE DEF h
  <2>2. Lacks(v.net[Other(l)][l], Drops(c)) /\ Lacks(v.net[Other(o)][o], Drops(c))
    BY <1>9, Zenon DEF Left
  <2> QED BY <2>1, <2>2, Zenon
<1>12. Rid(c, l, w)
  <2>1. ~Left(c, l, w)
    BY <1>4, <1>11 DEF Left, o
  <2> QED BY <2>1 DEF Rid
<1>13. Rid(c, o, w)
  <2>1. Entry(w.tickets[o], c) = {a}
    BY <1>4, <1>10
  <2>2. Left(c, o, w)
    <3>1. ~Lacks(r, Drops(c))
      BY <1>5
    <3>2. ~Lacks(w.net[l][o], Drops(c))
      <4>1. Lacks(v.net[l][o] \o r, Drops(c)) <=> Lacks(v.net[l][o], Drops(c)) /\ Lacks(r, Drops(c))
        BY <1>3, <1>4, LacksConcat
      <4> QED BY <1>4, <3>1, <4>1
    <3> QED BY <1>2, <3>2 DEF Left
  <2> DEFINE Z == {x \in Drops(c) : x.key # KeyOf(a)}
  <2>3. Lacks(w.net[l][o], Z)
    <3>1. m \notin Z /\ Z \subseteq Drops(c)
      BY <1>10
    <3> HIDE DEF Z
    <3>2. Lacks(r, Z)
      BY <1>5, <3>1
    <3>3. Lacks(v.net[l][o], Z)
      BY <1>11, <3>1 DEF Lacks
    <3>4. Lacks(v.net[l][o] \o r, Z)
      BY <1>3, <1>4, <3>2, <3>3, LacksConcat
    <3> QED BY <1>4, <3>4
  <2>4. Other(o) = l
    BY <1>2
  <2> QED BY <1>10, <2>1, <2>2, <2>3, <2>4 DEF Rid
<1>14. \A k \in Leader : Once(w.net[k][Other(k)], Drops(c))
  <2>1. Once(w.net[l][o], Drops(c))
    <3>1. Append(v.net[l][o], m) = v.net[l][o] \o <<m>>
      BY <1>3, <1>5, AppendJoin
    <3>2. Once(Append(v.net[l][o], m), Drops(c))
      BY <1>3, <1>5, <1>11, OnceJoin
    <3> QED BY <1>4, <3>1, <3>2
  <2>2. Once(w.net[o][l], Drops(c))
    BY <1>4, <1>11 DEF Once, Lacks
  <2>3. Other(l) = o /\ Other(o) = l
    BY <1>2 DEF o
  <2> QED BY <1>2, <2>1, <2>2, <2>3
<1>15. Own(c, l, "UNLOCKED", w)
  <2>1. Talks(c, l, "UNLOCKED", w)
    <3>1. "UNLOCKED" \in Says
      BY DEF Says
    <3> QED BY <1>4, <3>1, TalksTold DEF Quiet
  <2>2. Free(r, c)
    BY <1>5 DEF Free, Of, Drops, Steps, Asks, Down, Up
  <2>3. Moves(c, l, "UNLOCKED", w)
    BY <1>14, <2>2, MovesQuiet
  <2>4. "UNLOCKED" \in Outside
    BY DEF Outside
  <2>5. Keeps(c, l, "UNLOCKED", w)
    BY <1>12, <1>13, <2>4, KeepsOutside DEF o
  <2>6. InOrder(c, l, "UNLOCKED", w)
    BY DEF InOrder, Choosing
  <2> QED BY <2>1, <2>3, <2>5, <2>6 DEF Own
<1> DEFINE st == "UNLOCKED"
<1>16. /\ st \in Stage \ Late /\ st \notin {"GET_MAX_TICKET", "MAX_TICKET", "ADD_TICKET"}
       /\ Own(c, l, st, w)
  BY <1>15 DEF Stage, Outside, Late, Granted
<1>17. /\ (\E u \in Entry(v.tickets[l], c) : u.entering) => \E u \in Entry(w.tickets[l], c) : u.entering
       /\ \A u \in Entry(w.tickets[l], c) : u.listed =>
            \E x \in Entry(v.tickets[l], c) : x.listed /\ KeyOf(x) = KeyOf(u)
       /\ \A x \in Entry(w.tickets[l], c) : x.quorum /\ x.owner = l => x \in v.tickets[l]
  OBVIOUS
<1>18. Pairing(Home(home, c, l), To(g, c, st), w)
  <2> HIDE DEF st, h
  <2> QED BY <1>16, <1>17, EarlyTo
<1> QED
  BY <1>18


\* The ticket of c leaves both maps.
Leaver(t) == [t EXCEPT !.listed = FALSE, !.failed = IF @ = "NONE" THEN "UNLOCKING" ELSE @]

LEMMA LeaverTicket ==
  ASSUME NEW t \in Ticket, ~t.entering
  PROVE  /\ Leaver(t) \in Ticket /\ Leaver(t).client = t.client
         /\ ~Leaver(t).listed /\ ~Leaver(t).entering
  BY DEF Leaver, Ticket

\* What a client that gives its lock up finds in the table of a leader.
Listing(c, l, v) == \E x \in Ticket : Entry(v.tickets[l], c) = {x} /\ x.listed /\ x.client = c

LEMMA UnlockFinds ==
  ASSUME TwoLeaders, NEW c, NEW h \in Leader, NEW v, Own(c, h, "UNLOCK", v), NEW l \in Leader
  PROVE  Listing(c, l, v)
<1>1. "UNLOCK" \notin Outside \cup Opening /\ "UNLOCK" \in Late
  BY DEF Outside, Opening, Late, Granted
<1>2. PICK t, y : Both(t, y, c, h, Other(h), "UNLOCK", v)
  BY <1>1, Inside DEF Own
<1>3. t.listed /\ y.listed /\ t \in Ticket /\ y \in Ticket /\ t.client = c /\ y.client = c
      /\ Entry(v.tickets[h], c) = {t} /\ Entry(v.tickets[Other(h)], c) = {y}
  BY <1>1, <1>2 DEF Both, AtHome, AtOther
<1>4. l = h \/ l = Other(h)
  BY OtherLeader
<1> QED
  BY <1>3, <1>4 DEF Listing

LEMMA PairsUnlock ==
  ASSUME TwoLeaders, TypeInv, Timely, NEW home, NEW g, Pairing(home, g, Now),
         NEW s \in Node, NEW l \in Leader, MsgUnlock(s, l)
  PROVE  Advances(s, l, home, g)
<1> DEFINE m == Head(net[s][l])
           c == m.key.client
           h == home[c]
           D == Here(l)
           v == After(s, l, D)
           S == tickets[l]
           n == Note("UNLOCKED")
<1>1. net[s][l] # <<>> /\ m.type = "UNLOCK"
  BY DEF MsgUnlock, Arrived
<1>2. Begins("UNLOCK", m, c, s, l, h, home, g, v)
  <2>1. "UNLOCK" \in Steps
    BY DEF Steps, Asks
  <2> QED BY <1>1, <2>1, BeginsAt
<1> HIDE DEF m
<1>3. /\ c \in Client /\ g[c] = "UNLOCK" /\ home \in [Client -> Leader] /\ g \in [Client -> Stage]
      /\ Core(home, g, v) /\ Quiet(c, v) /\ Own(c, h, "UNLOCK", v) /\ v.tickets[l] = S
      /\ v.tickets[Other(l)] = tickets[Other(l)] /\ h \in Leader
      /\ \A e \in Client \ {c} : Quits(e, home[e], g[e], v)
  BY <1>2 DEF Begins
<1>4. \A k \in Leader : \A u \in Entry(v.tickets[k], c) : ~u.entering
  <2>1. Quits(c, h, "UNLOCK", Now)
    BY <1>3 DEF Pairing
  <2>2. /\ \A u \in Entry(tickets[h], c) : ~u.entering
        /\ \A u \in Entry(tickets[Other(h)], c) : ~u.entering
    <3> HIDE DEF h, c
    <3> QED BY <2>1 DEF Quits, Late, Granted, Now
  <2>3. ASSUME NEW k \in Leader PROVE \A u \in Entry(v.tickets[k], c) : ~u.entering
    <3>1. k = h \/ k = Other(h)
      BY <1>3, OtherLeader
    <3>2. k = l \/ k = Other(l)
      BY OtherLeader
    <3> QED BY <1>3, <2>2, <3>1, <3>2
  <2> QED BY <2>3
<1>5. Prompt(l, D) /\ D.tickets = S /\ D.tickets \subseteq Punctual
  <2>1. Prompt(l, D) /\ D.tickets = S
    BY HerePrompt
  <2> HIDE DEF D
  <2> QED BY <2>1 DEF Prompt
<1>6. Carries(l, D, S, <<>>, c, <<>>)
  BY <1>3, CarriesHere
<1> HIDE DEF v, h
<1> HIDE DEF c
<1>7. PICK x \in Ticket : Entry(v.tickets[l], c) = {x} /\ x.listed /\ x.client = c
  <2>1. Listing(c, l, v)
    BY <1>3, UnlockFinds
  <2> QED BY <2>1 DEF Listing
<1> HIDE DEF D, S
<1>8. Entry(S, c) = {x} /\ ~x.entering /\ x \in D.tickets /\ x.failed = "NONE" /\ ListedOf(D, c) = {x}
  <2>1. Entry(S, c) = {x} /\ ~x.entering
    BY <1>3, <1>4, <1>7
  <2>2. x \in D.tickets /\ ListedOf(D, c) = {x}
    BY <1>5, <1>7, <2>1, Lookup
  <2> QED BY <1>5, <2>1, <2>2 DEF Punctual
<1>9. First({x}) = x
  BY DEF First
<1> DEFINE a == Msg("DROP_TICKET", KeyOf(x))
           E == Update(DropTicket(D, x), x, Leaver(x))
           T == Put(S, c, Leaver(x))
           w == After(s, l, E)
<1>10. Done(s, l, Cleanup(ActivateFirstLock(E)))
  <2>1. ListedOf(D, c) # {} /\ First(ListedOf(D, c)) = x
    BY <1>8, <1>9
  <2> QED BY <2>1, Zenon DEF MsgUnlock, Received, m, c, D, Leaver
<1>11. Leaver(x) \in Ticket /\ Leaver(x).client = c /\ ~Leaver(x).listed /\ ~Leaver(x).entering
  BY <1>7, <1>8, LeaverTicket
<1>12. a \in InTime /\ a \in Message /\ a \in Drops(c) /\ a.key = KeyOf(x) /\ Lacks(<<a>>, Apart(c))
       /\ <<a>> \in Seq(Message)
  <2> DEFINE key == KeyOf(x)
  <2>1. key \in Key /\ key.client = c
    BY <1>7, KeyTypes DEF KeyOf
  <2>4. c \in Client
    BY <1>3
  <2> DEFINE b == Msg("DROP_TICKET", key)
  <2> HIDE DEF key
  <2>5. b \in InTime /\ b \in Of(c, {"DROP_TICKET"}) /\ Lacks(<<b>>, Apart(c)) /\ <<b>> \in Seq(Message)
    BY <2>1, <2>4, Posting
  <2>2. b \in InTime /\ b \in Message /\ b \in Of(c, {"DROP_TICKET"}) /\ b.key = key /\ Lacks(<<b>>, Apart(c))
        /\ <<b>> \in Seq(Message)
    <3>1. b.key = key
      BY DEF Msg
    <3> HIDE DEF b
    <3> QED BY <2>5, <3>1 DEF Of
  <2>3. a = b
    BY DEF key
  <2> HIDE DEF a, b
  <2> QED BY <2>2, <2>3 DEF key, Drops
<1> HIDE DEF a
<1>13. n \in Gentle /\ n \in Notice /\ n.type = "UNLOCKED"
  BY Notices
<1> HIDE DEF n
<1>14. Carries(l, E, T, <<a>>, c, <<n>>) /\ Prompt(l, E)
  <2> DEFINE D1 == SendToLeaders(D, a)
             D2 == TellClient(D1, c, n)
  <2>1. Carries(l, D1, S, <<a>>, c, <<>>)
    BY <1>6, <1>12, CarriesSend
  <2> HIDE DEF D1
  <2>2. Carries(l, D2, S, <<a>>, c, <<n>>)
    BY <1>3, <1>13, <2>1, CarriesNotice
  <2>3. DropTicket(D, x) = D2
    BY <1>7, <1>8 DEF DropTicket, D1, a, n
  <2> HIDE DEF D2
  <2>4. Carries(l, Update(D2, x, Leaver(x)), T, <<a>>, c, <<n>>)
    BY <1>8, <1>11, <2>2, CarriesUpdate
  <2>5. Carries(l, E, T, <<a>>, c, <<n>>)
    BY <2>3, <2>4
  <2> HIDE DEF E
  <2> QED BY <2>5 DEF Carries
<1> HIDE DEF E
<1>15. Entry(T, c) = {} /\ \A e \in Client \ {c} : Entry(T, e) = Entry(S, e)
  <2>1. Entry(T, c) = IF Leaver(x).entering \/ Leaver(x).listed THEN {Leaver(x)} ELSE {}
    BY <1>11, PutEntry, Zenon
  <2>2. ASSUME NEW e \in Client \ {c} PROVE Entry(T, e) = Entry(S, e)
    BY <1>11 DEF Put, Entry
  <2> QED BY <1>11, <2>1, <2>2
<1> HIDE DEF T
<1> DEFINE r == <<a>>
<1>16. /\ Acts(l, c, r, v, w) /\ w.tickets[l] = T
       /\ w.mail[c][l] = Append(v.mail[c][l], n) /\ w.mail[c][Other(l)] = v.mail[c][Other(l)]
  <2>1. Handles(v, w, l, c, <<a>>, T, <<n>>)
    BY <1>1, <1>3, <1>12, <1>14, <1>15, Handled DEF v, D, S
  <2> QED BY <1>13, <2>1 DEF Handles
<1> HIDE DEF w
<1>17. Pairing(Home(home, c, l), To(g, c, "UNLOCKED"), w)
  <2>1. Entry(w.tickets[l], c) = {} /\ x \in Entry(v.tickets[l], c)
    BY <1>7, <1>15, <1>16
  <2>2. r = <<a>>
    OBVIOUS
  <2> HIDE DEF r
  <2> QED BY <1>3, <1>4, <1>12, <1>13, <1>16, <2>1, <2>2, Dropped
<1>18. Agree(g, To(g, c, "UNLOCKED"))
  <2>1. "UNLOCKED" \in Stage /\ StateOf("UNLOCKED") = StateOf(g[c])
    BY <1>3 DEF Stage, StateOf, Outside
  <2> QED BY <1>3, <2>1, AgreeTo
<1>19. Done(s, l, ActivateFirstLock(E))
  <2>1. Prompt(l, ActivateFirstLock(E))
    BY <1>14, PromptFirst
  <2>2. Cleanup(ActivateFirstLock(E)) = ActivateFirstLock(E)
    BY <2>1, NothingExpires
  <2> QED BY <1>10, <2>2
<1> QED
  BY <1>1, <1>14, <1>17, <1>18, <1>19, EndsFirst DEF w


-----------------------------------------------------------------------------
(* DROP_TICKET: the other table loses what UNLOCK left there.              *)

\* What a DROP_TICKET of c finds at leader l, in the world w.
Dropping(m, c, t, l, home, g, w) ==
  /\ g[c] \in Outside \/ (g[c] \in Opening /\ l # home[c])
  /\ Entry(w.tickets[l], c) = {t} /\ t \in Ticket /\ t.client = c /\ Gone(t, l) /\ KeyOf(t) = m.key
  /\ Lacks(Tail(w.net[Other(l)][l]), Drops(c))

LEMMA Leftover ==
  ASSUME TwoLeaders, NEW c \in Client, NEW home, NEW g, NEW w, World(w), NEW l \in Leader,
         home[c] \in Leader, Own(c, home[c], g[c], w),
         w.net[Other(l)][l] # <<>>, NEW m, m = Head(w.net[Other(l)][l]), m \in Drops(c)
  PROVE  \E t : Dropping(m, c, t, l, home, g, w)
<1> DEFINE h == home[c]
           st == g[c]
           o == Other(l)
           q == w.net[o][l]
<1>1. Keeps(c, h, st, w) /\ Once(q, Drops(c))
  <2>1. Other(o) = l /\ o \in Leader
    BY OtherLeader
  <2> QED BY <2>1 DEF Own, Moves
<1>2. q \in Seq(Message) /\ q # <<>> /\ Head(q) = m
  <2>1. o \in Leader
    BY OtherLeader
  <2> QED BY <2>1 DEF World, Node
<1>3. l = h \/ l = Other(h)
  BY OtherLeader
<1>4. ~Lacks(q, Drops(c)) /\ Left(c, l, w)
  <2>1. ~Lacks(q, Drops(c))
    BY <1>2, LacksTail
  <2> QED BY <2>1 DEF Left
<1>5. Lacks(Tail(q), Drops(c))
  BY <1>1, <1>2, OnceRead
<1>6. st \in Outside \/ (st \in Opening /\ l # h)
  <2>1. st \notin Outside => ~Left(c, h, w)
    BY <1>1 DEF Keeps
  <2>2. st \notin Outside \cup Opening => ~Left(c, Other(h), w)
    BY <1>1 DEF Keeps
  <2> QED BY <1>3, <1>4, <2>1, <2>2
<1>7. Rid(c, l, w)
  BY <1>1, <1>3, <1>6 DEF Keeps
<1>8. PICK t \in Ticket : /\ Entry(w.tickets[l], c) = {t} /\ Gone(t, l)
                          /\ Lacks(w.net[Other(l)][l], {x \in Drops(c) : x.key # KeyOf(t)})
  BY <1>4, <1>7 DEF Rid
<1> DEFINE Z == {x \in Drops(c) : x.key # KeyOf(t)}
<1>9. KeyOf(t) = m.key
  <2>1. Lacks(q, Z)
    BY <1>8
  <2> HIDE DEF q, Z
  <2>2. m \notin Z
    BY <1>2, <2>1, LacksTail
  <2> QED BY <2>2 DEF Z
<1>10. t.client = c
  BY <1>8 DEF Entry
<1>11. Dropping(m, c, t, l, home, g, w)
  BY <1>5, <1>6, <1>8, <1>9, <1>10 DEF Dropping
<1> QED
  BY <1>11

\* Leader l reads a DROP_TICKET of c, and its table has nothing of c any more.
Emptied(l, c, v, w) ==
  /\ World(v) /\ World(w) /\ w.net[c] = v.net[c] /\ w.mail[c] = v.mail[c]
  /\ w.tickets[Other(l)] = v.tickets[Other(l)] /\ Entry(w.tickets[l], c) = {}
  /\ w.net[l][Other(l)] = v.net[l][Other(l)]
  /\ v.net[Other(l)][l] \in Seq(Message) /\ v.net[Other(l)][l] # <<>>
  /\ w.net[Other(l)][l] = Tail(v.net[Other(l)][l])
  /\ Beside(c, v, w) /\ DropsLead(Other(l), c, v, w)

LEMMA DropOwn ==
  ASSUME TwoLeaders, NEW l \in Leader, NEW c \in Client, NEW v, NEW w, Emptied(l, c, v, w),
         NEW home, NEW g, home[c] \in Leader, Own(c, home[c], g[c], v),
         NEW m, NEW t, Dropping(m, c, t, l, home, g, v)
  PROVE  Own(c, home[c], g[c], w)
<1> DEFINE h == home[c]
           st == g[c]
           o == Other(l)
<1>1. o \in Leader /\ o # l /\ Other(o) = l /\ Leader = {l, o} /\ Other(l) = o /\ Other(h) \in Leader
      /\ Other(h) # h /\ Leader = {h, Other(h)}
  BY OtherLeader
<1> HIDE DEF o
<1>2. Talks(c, h, st, w)
  <2>1. Talks(c, h, st, v) /\ w.net[c] = v.net[c] /\ w.mail[c] = v.mail[c]
    BY DEF Own, Emptied
  <2> HIDE DEF h, st
  <2> QED BY <2>1, TalksSame
<1>3. \A k \in Leader : Less(w.net[k][Other(k)], v.net[k][Other(k)])
  <2>1. Less(w.net[o][l], v.net[o][l])
    BY <1>1, TailLess DEF Emptied
  <2>2. Less(w.net[l][o], v.net[l][o])
    <3>1. w.net[l][o] = v.net[l][o]
      BY <1>1 DEF Emptied
    <3> QED BY <3>1 DEF Less
  <2> QED BY <1>1, <2>1, <2>2
<1>4. Rid(c, l, w)
  BY <1>1 DEF Emptied, Dropping, Rid, Left
<1>5. /\ Entry(w.tickets[o], c) = Entry(v.tickets[o], c) /\ (Left(c, o, w) <=> Left(c, o, v))
      /\ Rid(c, o, v) => Rid(c, o, w)
  <2>1. w.tickets[o] = v.tickets[o] /\ w.net[l][o] = v.net[l][o]
    BY <1>1 DEF Emptied
  <2> QED BY <1>1, <2>1 DEF Rid, Left
<1>6. Keeps(c, h, st, v) /\ Moves(c, h, st, v) /\ InOrder(c, h, st, v)
  BY DEF Own
<1>7. st \in Outside \/ (st \in Opening /\ l # h)
  BY DEF Dropping
<1>8. Outside \cap Opening = {}
  BY DEF Outside, Opening
<1>9. Keeps(c, h, st, w)
  <2>1. CASE st \in Outside
    <3>1. Rid(c, h, v) /\ Rid(c, Other(h), v)
      BY <1>6, <2>1 DEF Keeps
    <3>2. Rid(c, h, w) /\ Rid(c, Other(h), w)
      BY <1>1, <1>4, <1>5, <3>1
    <3> HIDE DEF h, st
    <3> QED BY <2>1, <3>2, KeepsOutside
  <2>2. CASE st \in Opening /\ l # h
    <3>1. o = h /\ Other(h) = l
      BY <1>1, <2>2
    <3>2. ~Left(c, h, w) /\ Rid(c, Other(h), w)
      <4>1. ~Left(c, h, v)
        BY <1>6, <1>8, <2>2 DEF Keeps
      <4> QED BY <1>4, <1>5, <3>1, <4>1
    <3>3. PICK x \in Ticket :
            /\ Entry(v.tickets[h], c) = {x} /\ AtHome(x, h, st)
            /\ Lacks(v.net[h][Other(h)], {a \in Of(c, {"ADD_TICKET"}) : a.key # KeyOf(x)})
      BY <1>6, <1>8, <2>2 DEF Keeps
    <3>4. Entry(w.tickets[h], c) = {x}
      BY <1>5, <3>1, <3>3
    <3> DEFINE Z == {a \in Of(c, {"ADD_TICKET"}) : a.key # KeyOf(x)}
    <3>5. Lacks(w.net[h][Other(h)], Z)
      <4>1. Lacks(v.net[h][Other(h)], Z)
        BY <3>3
      <4> HIDE DEF Z
      <4> QED BY <1>3, <4>1 DEF Less
    <3> HIDE DEF h, st
    <3> QED BY <1>8, <2>2, <3>2, <3>3, <3>4, <3>5 DEF Keeps
  <2> QED BY <1>7, <2>1, <2>2
<1>10. Moves(c, h, st, w)
  <2>1. \A k \in Leader : Once(w.net[k][Other(k)], Drops(c))
    BY <1>3, <1>6 DEF Moves, Less
  <2>2. Less(w.net[h][Other(h)], v.net[h][Other(h)]) /\ Less(w.net[Other(h)][h], v.net[Other(h)][h])
    <3>1. Other(Other(h)) = h
      BY OtherLeader
    <3> HIDE DEF h
    <3> QED BY <1>1, <1>3, <3>1
  <2>3. /\ Bears(w.net[h][Other(h)], c, Down \cap {st})
        /\ Bears(w.net[Other(h)][h], c, Up \cap {st})
    BY <1>6, <2>2 DEF Moves, Bears, Less
  <2> QED BY <2>1, <2>3 DEF Moves
<1>11. InOrder(c, h, st, w)
  <2>1. st \notin {"LOCK_ENTERED", "LOCK_EXITING", "WAITING"} \cup Choosing
    BY <1>7 DEF Outside, Opening, Choosing
  <2>2. Less(w.net[h][Other(h)], v.net[h][Other(h)])
    BY <1>1, <1>3
  <2>3. st = "LOCK_ENTERING" => Ahead(w.net[h][Other(h)], Grants(c) \cup Drops(c), Of(c, {st}))
    BY <1>6, <2>2 DEF InOrder, Less
  <2> HIDE DEF h, st
  <2> QED BY <2>1, <2>3 DEF InOrder
<1> HIDE DEF h, st
<1>12. Own(c, h, st, w)
  BY <1>2, <1>9, <1>10, <1>11 DEF Own
<1> QED
  BY <1>12 DEF h, st


LEMMA DropPairs ==
  ASSUME TwoLeaders, NEW l \in Leader, NEW c \in Client, NEW v, NEW w, Emptied(l, c, v, w),
         NEW home, NEW g, Pairing(home, g, v),
         NEW m, NEW t, Dropping(m, c, t, l, home, g, v)
  PROVE  Pairing(home, g, w)
<1> DEFINE h == home[c]
           st == g[c]
           o == Other(l)
<1>1. /\ home \in [Client -> Leader] /\ g \in [Client -> Stage] /\ Core(home, g, v)
      /\ h \in Leader /\ st \in Stage /\ Own(c, h, st, v) /\ Waits(c, home, g, v)
      /\ \A e \in Client : Quits(e, home[e], g[e], v)
  BY DEF Pairing, Core
<1>2. o \in Leader /\ o # l /\ Other(o) = l /\ Leader = {l, o} /\ Other(l) = o
  BY OtherLeader
<1>3. /\ World(v) /\ World(w) /\ w.tickets[o] = v.tickets[o] /\ Entry(w.tickets[l], c) = {}
      /\ Beside(c, v, w) /\ DropsLead(o, c, v, w)
  BY DEF Emptied
<1>4. Entry(v.tickets[l], c) = {t} /\ ~t.entering /\ t.listed
      /\ (st \in Outside \/ (st \in Opening /\ l # h))
  BY DEF Dropping, Gone
<1>5. /\ st \notin {"GET_MAX_TICKET", "MAX_TICKET", "ADD_TICKET"}
      /\ st \notin Late /\ st \notin {"LOCK_EXITING", "WAITING"}
  BY <1>4 DEF Outside, Opening, Late, Granted
<1>6. Own(c, h, st, w)
  BY <1>1, DropOwn
<1>7. Moving(c, home, g, home, g)
  BY <1>1 DEF Moving
<1> HIDE DEF o
<1>8. Waits(c, home, g, w)
  <2>1. SUFFICES ASSUME NEW k \in Leader, NEW a \in Entry(w.tickets[k], c), a.owner = k, a.quorum
                 PROVE  Queued(a, k, home, g, w)
    BY DEF Waits
  <2>2. k = o /\ a \in Entry(v.tickets[k], c) /\ a \in v.tickets[k] /\ a.client = c
    BY <1>2, <1>3, <2>1 DEF Entry
  <2>3. Queued(a, k, home, g, v)
    BY <1>1, <2>1, <2>2 DEF Waits
  <2>4. c \notin Held(a)
    <3>1. Gone(a, k) \/ st \in Late
      <4> HIDE DEF h, st
      <4> QED BY <1>1, <1>3, <2>1, <2>2, Quorate
    <3>2. a.still = {}
      BY <1>5, <2>1, <3>1 DEF Gone
    <3> QED BY <3>2 DEF Held
  <2> HIDE DEF h, st
  <2> QED BY <1>3, <1>7, <2>2, <2>3, <2>4, QueuedOwn
<1>9. Sure(c, h, st, w)
  BY <1>5 DEF Sure
<1>10. ASSUME NEW k \in Leader, NEW a \in v.tickets[k], a.client # c, a.owner = k, a.quorum
       PROVE  Yields(a, k, c, h, st, v, w)
  <2>1. Queued(a, k, home, g, v)
    BY <1>1, <1>3, <1>10, Waiting
  <2>2. (\E u \in Entry(v.tickets[k], c) : u.entering) => \E u \in Entry(w.tickets[k], c) : u.entering
    BY <1>2, <1>3, <1>4
  <2>3. ASSUME NEW d \in Leader, NEW u \in Entry(w.tickets[d], c), u.listed
        PROVE  \E x \in Entry(v.tickets[d], c) : x.listed /\ KeyOf(x) = KeyOf(u)
    <3>1. u \in Entry(v.tickets[d], c)
      BY <1>2, <1>3, <2>3
    <3> QED BY <2>3, <3>1
  <2> HIDE DEF h, st
  <2> QED BY <1>1, <1>5, <1>10, <2>1, <2>2, <2>3, YieldsSame
<1>11. /\ Core(home, g, w)
       /\ \A e \in Client \ {c} : Quits(e, home[e], g[e], v) => Quits(e, home[e], g[e], w)
  BY <1>1, <1>3, <1>6, <1>7, <1>8, <1>9, <1>10, Bystanders
<1>12. Quits(c, h, st, w)
  BY <1>5 DEF Quits
<1> QED
  BY <1>1, <1>11, <1>12 DEF Pairing

\* What cluckd::msg_drop_ticket() makes of a table that has one ticket of that client.
LEMMA DropActs ==
  ASSUME TwoLeaders, NEW s \in Node, NEW l \in Leader, NEW D, Prompt(l, D), D = Here(l),
         MsgDropTicket(s, l), NEW c, c = Head(net[s][l]).key.client,
         NEW t, Entry(D.tickets, c) = {t}, t.listed, ~t.entering, KeyOf(t) = Head(net[s][l]).key
  PROVE  LET F == [D EXCEPT !.tickets = D.tickets \ {t}]
         IN  Prompt(l, F) /\ Done(s, l, ActivateFirstLock(F))
<1> DEFINE S == D.tickets
           k == Head(net[s][l]).key
           dropped == Alive({IF x.listed /\ KeyOf(x) = k THEN [x EXCEPT !.listed = FALSE] ELSE x : x \in S})
           T == S \ {t}
           F == [D EXCEPT !.tickets = T]
           E == ActivateFirstLock(F)
           left == Alive({IF x.client = c THEN [x EXCEPT !.entering = FALSE] ELSE x : x \in E.tickets})
<1>1. /\ S \subseteq Ticket /\ S \subseteq Punctual /\ IsFiniteSet(S) /\ KeysDiffer(S) /\ D \in Context
      /\ \A x \in S : x.entering \/ x.listed
  BY PromptTickets DEF Prompt, Sound, Punctual
<1>2. t \in S /\ t.client = c /\ \A x \in S : x.client = c => x = t
  BY DEF Entry
<1>3. Prompt(l, F) /\ F.tickets = T
  <2>1. T \subseteq Punctual /\ KeysDiffer(T)
    BY <1>1 DEF KeysDiffer
  <2>2. IsFiniteSet(T)
    BY <1>1, FS_Subset
  <2> HIDE DEF T
  <2> QED BY <2>1, <2>2, Tabling
<1>4. dropped = T
  <2>1. ASSUME NEW x \in T PROVE x \in dropped
    <3>1. x \in S /\ x.client # c /\ (x.entering \/ x.listed)
      BY <1>1, <1>2
    <3>2. ~(x.listed /\ KeyOf(x) = k)
      BY <1>2, <3>1 DEF KeyOf
    <3> QED BY <3>1, <3>2 DEF Alive
  <2>2. ASSUME NEW y \in dropped PROVE y \in T
    <3>1. PICK x \in S : y = (IF x.listed /\ KeyOf(x) = k THEN [x EXCEPT !.listed = FALSE] ELSE x)
      BY <2>2 DEF Alive
    <3>2. y.entering \/ y.listed
      BY <2>2 DEF Alive
    <3>3. CASE x = t
      <4>1. y = [t EXCEPT !.listed = FALSE] /\ t \in Ticket
        BY <1>1, <1>2, <3>1, <3>3
      <4>2. ~y.listed /\ ~y.entering
        BY <4>1 DEF Ticket
      <4> QED BY <3>2, <4>2
    <3>4. CASE x # t
      <4>1. x.client # c
        BY <1>2, <3>4
      <4>2. ~(x.listed /\ KeyOf(x) = k)
        BY <4>1 DEF KeyOf
      <4> QED BY <3>1, <3>4, <4>2
    <3> QED BY <3>3, <3>4
  <2> HIDE DEF dropped, T
  <2> QED BY <2>1, <2>2
<1>5. Listed(D) # {}
  BY <1>2 DEF Listed
<1> DEFINE G == IF Listed(D) = {} THEN D ELSE ActivateFirstLock([D EXCEPT !.tickets = dropped])
           rest == Alive({IF x.client = c THEN [x EXCEPT !.entering = FALSE] ELSE x : x \in G.tickets})
<1>6. Done(s, l, Cleanup([G EXCEPT !.tickets = rest]))
  BY Zenon DEF MsgDropTicket, Received
<1>7. G = E
  <2> HIDE DEF dropped, T
  <2> QED BY <1>4, <1>5
<1> HIDE DEF G, dropped
<1>8. Prompt(l, E) /\ E.tickets = T
  <2> HIDE DEF F
  <2>1. Prompt(l, E) /\ (E = F \/ \E x \in Message : E = SendToLeaders(F, x))
    <3>1. LET a == First(Listed(F))
          IN  /\ Prompt(l, E)
              /\ \/ E = F
                 \/ Listed(F) # {} /\ a.ready /\ ~a.locked /\ E = SendToLeaders(F, Msg("ACTIVATE_LOCK", KeyOf(a)))
      BY <1>3, PromptFirst
    <3> DEFINE a == First(Listed(F))
               x == Msg("ACTIVATE_LOCK", KeyOf(a))
    <3>2. ASSUME Listed(F) # {} PROVE x \in Message
      <4>1. a \in F.tickets
        BY <1>3, <3>2, FirstListed DEF Prompt
      <4>2. KeyOf(a) \in Key
        BY <1>1, <1>3, <4>1, KeyTypes
      <4> QED BY <4>2, MsgType
    <3> QED BY <3>1, <3>2
  <2>2. F.tickets = T
    BY <1>3
  <2>3. \A x : SendToLeaders(F, x).tickets = F.tickets
    BY <1>3 DEF SendToLeaders, SendAllToLeaders, Prompt, Sound, Context
  <2> HIDE DEF E, T
  <2> QED BY <2>1, <2>2, <2>3
<1>9. rest = T
  <2>1. G.tickets = T
    BY <1>7, <1>8
  <2>2. \A x \in T : x.client # c /\ (x.entering \/ x.listed)
    BY <1>1, <1>2
  <2> HIDE DEF T
  <2>3. {IF x.client = c THEN [x EXCEPT !.entering = FALSE] ELSE x : x \in T} = T
    BY <2>2
  <2> QED BY <2>1, <2>2, <2>3 DEF Alive
<1>10. Cleanup([G EXCEPT !.tickets = rest]) = E
  <2> HIDE DEF E, T, rest
  <2>1. E \in Context
    BY <1>8, PromptTickets
  <2>2. [E EXCEPT !.tickets = T] = E
    BY <1>8, <2>1 DEF Context
  <2>3. Cleanup(E) = E
    BY <1>8, NothingExpires
  <2> QED BY <1>7, <1>9, <2>2, <2>3
<1>11. Done(s, l, E)
  BY <1>6, <1>10
<1> HIDE DEF E
<1> QED
  BY <1>3, <1>11 DEF E


LEMMA PairsDropTicket ==
  ASSUME TwoLeaders, TypeInv, Timely, NEW home, NEW g, Pairing(home, g, Now),
         NEW s \in Node, NEW l \in Leader, MsgDropTicket(s, l)
  PROVE  Advances(s, l, home, g)
<1> DEFINE m == Head(net[s][l])
           c == m.key.client
           o == Other(l)
           D == Here(l)
           S == tickets[l]
<1>1. net[s][l] # <<>> /\ m.type = "DROP_TICKET"
  BY DEF MsgDropTicket, Arrived
<1>2. Sent(m, c, s, l, home, g)
  <2>1. Opens(m, c, s, l, home, g, After(s, l, Here(l)))
    BY <1>1, Opened
  <2> HIDE DEF m, c
  <2> QED BY <2>1 DEF Opens
<1> HIDE DEF m
<1>3. c \in Client /\ m \in Drops(c) /\ m \notin Apart(c) /\ s = o /\ s \notin Client
  <2> HIDE DEF c
  <2> QED BY <1>1, <1>2 DEF Sent, Asks, Drops
<1>4. o \in Leader /\ o # l /\ Other(o) = l /\ Leader = {l, o} /\ Other(l) = o
  BY OtherLeader
<1>5. World(Now) /\ Now.tickets = tickets /\ Now.net = net /\ Now.mail = mail
      /\ \A d \in Node, k \in Leader : net[d][k] \in Seq(Message)
  BY NowWorld
<1>6. Core(home, g, Now) /\ home[c] \in Leader /\ g \in [Client -> Stage] /\ Own(c, home[c], g[c], Now)
  BY <1>3 DEF Pairing, Core
<1> HIDE DEF c, o
<1>7. PICK t : Dropping(m, c, t, l, home, g, Now)
  <2>1. Now.net[Other(l)][l] # <<>> /\ m = Head(Now.net[Other(l)][l])
    BY <1>1, <1>3, <1>4, <1>5 DEF m
  <2> QED BY <1>3, <1>5, <1>6, <2>1, Leftover
<1>8. Entry(S, c) = {t} /\ t.client = c /\ t.listed /\ ~t.entering /\ KeyOf(t) = m.key
  BY <1>5, <1>7 DEF Dropping, Gone
<1>9. /\ Prompt(l, D) /\ D.tickets = S /\ \A d \in Leader : D.out[d] = <<>>
      /\ \A e \in Client : D.mail[e] = <<>>
  BY HerePrompt
<1> DEFINE T == S \ {t}
           F == [D EXCEPT !.tickets = D.tickets \ {t}]
           w == After(s, l, F)
<1>10. Prompt(l, F) /\ Done(s, l, ActivateFirstLock(F))
  <2>1. c = Head(net[s][l]).key.client /\ KeyOf(t) = Head(net[s][l]).key /\ Entry(D.tickets, c) = {t} /\ D = Here(l)
    BY <1>8, <1>9 DEF c, m
  <2> HIDE DEF D
  <2> QED BY <1>8, <1>9, <2>1, DropActs
<1>11. F.tickets = T /\ F.out = D.out /\ F.mail = D.mail /\ Sound(l, F)
  <2>1. D \in Context
    BY <1>9, PromptTickets
  <2> HIDE DEF D
  <2> QED BY <1>9, <1>10, <2>1 DEF Prompt, Context
<1> HIDE DEF F, D
<1>12. Entry(T, c) = {} /\ \A e \in Client \ {c} : Entry(T, e) = Entry(S, e)
  BY <1>8 DEF Entry
<1> HIDE DEF T
<1>13. Turned(w, s, l, o, F)
  BY <1>1, <1>11, Turn DEF o
<1>14. /\ Beside(c, Now, w) /\ DropsLead(o, c, Now, w)
  <2>1. Lacks(F.out[Other(l)], Apart(c))
    BY <1>4, <1>9, <1>11 DEF Lacks
  <2>2. \A e \in Client \ {c} : Entry(F.tickets, e) = Entry(tickets[l], e) /\ F.mail[e] = <<>>
    BY <1>9, <1>11, <1>12
  <2>3. Head(net[s][l]) \notin Apart(c)
    BY <1>3 DEF m
  <2> QED BY <1>1, <1>3, <1>11, <2>1, <2>2, <2>3, TurnBeside DEF o
<1> HIDE DEF w
<1>15. Emptied(l, c, Now, w)
  <2>1. /\ World(w) /\ w.tickets[l] = T /\ w.tickets[o] = tickets[o]
        /\ w.net[l][o] = net[l][o] \o F.out[o] /\ w.net[o][l] = Tail(net[o][l])
        /\ w.net[c][o] = net[c][o] /\ w.net[c][l] = net[c][l]
        /\ w.mail[c][l] = mail[c][l] \o F.mail[c] /\ w.mail[c][o] = mail[c][o]
    BY <1>3, <1>11, <1>13 DEF Turned
  <2>2. w.net[l][o] = net[l][o]
    <3>1. net[l][o] \in Seq(Message)
      BY <1>4, <1>5 DEF Node
    <3>2. F.out[o] = <<>> /\ \A q \in Seq(Message) : q \o <<>> = q
      BY <1>4, <1>9, <1>11
    <3> QED BY <2>1, <3>1, <3>2
  <2>3. w.net[c] = net[c]
    <3>1. net[c] \in [Leader -> Seq(Message)] /\ w.net[c] \in [Leader -> Seq(Message)]
      BY <1>3, <1>5, <2>1 DEF World, Node
    <3> QED BY <1>4, <2>1, <3>1, BothLeaders
  <2>4. w.mail[c] = mail[c]
    <3>1. mail[c] \in [Leader -> Seq(Notice)] /\ w.mail[c] \in [Leader -> Seq(Notice)]
      BY <1>3, <1>5, <2>1 DEF World
    <3>2. w.mail[c][l] = mail[c][l]
      <4>1. mail[c][l] \in Seq(Notice)
        BY <3>1
      <4>2. F.mail[c] = <<>> /\ \A q \in Seq(Notice) : q \o <<>> = q
        BY <1>3, <1>9, <1>11
      <4> QED BY <2>1, <4>1, <4>2
    <3>3. w.mail[c][o] = mail[c][o] /\ Leader = {l, o}
      BY <1>4, <2>1
    <3> HIDE DEF F, T
    <3> QED BY <3>1, <3>2, <3>3, BothLeaders
  <2>5. net[o][l] \in Seq(Message) /\ net[o][l] # <<>>
    BY <1>1, <1>3, <1>4, <1>5 DEF Node
  <2> QED BY <1>4, <1>5, <1>12, <1>14, <2>1, <2>2, <2>3, <2>4, <2>5 DEF Emptied
<1>16. Pairing(home, g, w)
  BY <1>3, <1>7, <1>15, DropPairs
<1>17. Agree(g, g)
  BY DEF Agree
<1> QED
  BY <1>1, <1>10, <1>16, <1>17, EndsFirst DEF w


-----------------------------------------------------------------------------
(* What the clients do.                                                    *)

\* The leaders do not work on c, neither before nor after it goes from the stage a to b.
Alike(a, b) ==
  \/ a \in Outside /\ b \in Outside
  \/ a \in {"ALIVE", "ABSOLUTELY"} /\ b \in {"ALIVE", "ABSOLUTELY"}
  \/ a \in Granted /\ b \in Granted

\* Nothing but the mail of c and what c sends differs between the worlds v and w.
Spoken(c, v, w) ==
  /\ World(v) /\ World(w) /\ w.tickets = v.tickets
  /\ \A k \in Leader : w.net[k] = v.net[k]
  /\ \A e \in Client \ {c} : w.net[e] = v.net[e] /\ w.mail[e] = v.mail[e]

LEMMA SpokenBeside ==
  ASSUME TwoLeaders, NEW c, NEW v, NEW w, Spoken(c, v, w)
  PROVE  /\ Beside(c, v, w) /\ \A k \in Leader : DropsLead(k, c, v, w)
         /\ \A k \in Leader : \A d : Entry(w.tickets[k], d) = Entry(v.tickets[k], d)
         /\ \A k \in Leader : Left(c, k, w) <=> Left(c, k, v)
<1>1. \A k \in Leader : Other(k) \in Leader
  BY OtherLeader
<1>2. w.tickets = v.tickets /\ \A k \in Leader : w.net[k] = v.net[k] /\ w.net[Other(k)] = v.net[Other(k)]
  BY <1>1 DEF Spoken
<1>3. \A q, Y : SameOrder(q, q, Y)
  BY DEF SameOrder
<1>4. ASSUME NEW e \in Client \ {c} PROVE Same(e, v, w, Apart(c))
  BY <1>2, <1>3, <1>4 DEF Same, Spoken
<1> QED
  BY <1>2, <1>4 DEF Beside, DropsLead, Left

LEMMA SpokenOwn ==
  ASSUME TwoLeaders, NEW c \in Client, NEW v, NEW w, Spoken(c, v, w),
         NEW h \in Leader, NEW h2 \in Leader, NEW st, NEW st2, Alike(st, st2),
         h2 = h \/ st \in Outside, Own(c, h, st, v), Talks(c, h2, st2, w)
  PROVE  Own(c, h2, st2, w)
<1>1. /\ \A k \in Leader : \A d : Entry(w.tickets[k], d) = Entry(v.tickets[k], d)
      /\ \A k \in Leader : Left(c, k, w) <=> Left(c, k, v)
  BY SpokenBeside
<1>2. /\ Other(h) \in Leader /\ Other(h) # h /\ Leader = {h, Other(h)} /\ Other(Other(h)) = h
      /\ Other(h2) \in Leader /\ Other(h2) # h2 /\ Leader = {h2, Other(h2)} /\ Other(Other(h2)) = h2
  BY OtherLeader
<1>3. \A k \in Leader : w.net[k] = v.net[k]
  BY DEF Spoken
<1>4. \A k \in Leader : Rid(c, k, v) => Rid(c, k, w)
  <2>1. \A k \in Leader : w.net[Other(k)] = v.net[Other(k)]
    BY <1>3, OtherLeader
  <2> QED BY <1>1, <2>1 DEF Rid
<1>5. /\ st \notin Down \cup Up /\ st2 \notin Down \cup Up
      /\ st2 \notin {"LOCK_ENTERING", "LOCK_ENTERED", "LOCK_EXITING", "WAITING"} \cup Choosing
  BY DEF Alike, Down, Up, Outside, Granted, Choosing
<1>6. Keeps(c, h, st, v) /\ Moves(c, h, st, v)
  BY DEF Own
<1>7. Moves(c, h2, st2, w)
  <2>1. /\ Bears(v.net[h][Other(h)], c, {}) /\ Bears(v.net[Other(h)][h], c, {})
        /\ \A l \in Leader : Once(v.net[l][Other(l)], Drops(c))
    <3>1. Down \cap {st} = {} /\ Up \cap {st} = {}
      BY <1>5
    <3> QED BY <1>6, <3>1 DEF Moves
  <2>2. Bears(w.net[h2][Other(h2)], c, {}) /\ Bears(w.net[Other(h2)][h2], c, {})
    <3>1. CASE h2 = h
      BY <1>2, <1>3, <2>1, <3>1
    <3>2. CASE h2 # h
      <4>1. h2 = Other(h) /\ Other(h2) = h
        BY <1>2, <3>2
      <4> QED BY <1>2, <1>3, <2>1, <4>1
    <3> QED BY <3>1, <3>2
  <2>3. Down \cap {st2} = {} /\ Up \cap {st2} = {}
    BY <1>5
  <2> QED BY <1>3, <2>1, <2>2, <2>3 DEF Moves
<1>8. InOrder(c, h2, st2, w)
  BY <1>5 DEF InOrder
<1>9. Keeps(c, h2, st2, w)
  <2>1. CASE st \in Outside
    <3>1. st2 \in Outside
      BY <2>1 DEF Alike, Outside, Granted
    <3>2. Rid(c, h, v) /\ Rid(c, Other(h), v)
      BY <1>6, <2>1 DEF Keeps
    <3>3. Rid(c, h2, w) /\ Rid(c, Other(h2), w)
      BY <1>2, <1>4, <3>2
    <3> QED BY <3>1, <3>3, KeepsOutside
  <2>2. CASE st \notin Outside
    <3>1. h2 = h /\ st2 \notin Outside
      BY <2>2 DEF Alike, Outside, Granted
    <3>2. /\ ~Left(c, h, v)
          /\ \E t \in Ticket :
               /\ Entry(v.tickets[h], c) = {t} /\ AtHome(t, h, st)
               /\ Lacks(v.net[h][Other(h)], {m \in Of(c, {"ADD_TICKET"}) : m.key # KeyOf(t)})
      BY <1>6, <2>2 DEF Keeps
    <3>3. PICK t \in Ticket :
            /\ Entry(v.tickets[h], c) = {t} /\ AtHome(t, h, st)
            /\ Lacks(v.net[h][Other(h)], {m \in Of(c, {"ADD_TICKET"}) : m.key # KeyOf(t)})
      BY <3>2
    <3>4. AtHome(t, h, st2)
      <4>1. CASE st \in {"ALIVE", "ABSOLUTELY"} /\ st2 \in {"ALIVE", "ABSOLUTELY"}
        BY <3>3, <4>1 DEF AtHome, Opening, Choosing, Late, Granted
      <4>2. CASE st \in Granted /\ st2 \in Granted
        <5>1. st \in Late /\ st2 \in Late /\ st2 \notin Opening \cup {"LOCK_ENTERED"} \cup Choosing
              /\ st \notin Opening \cup {"LOCK_ENTERED"} \cup Choosing
          BY <4>2 DEF Opening, Choosing, Late, Granted
        <5> QED BY <3>3, <4>2, <5>1 DEF AtHome
      <4> QED BY <2>2, <4>1, <4>2 DEF Alike
    <3> DEFINE Z == {m \in Of(c, {"ADD_TICKET"}) : m.key # KeyOf(t)}
    <3>5. ~Left(c, h, w) /\ Entry(w.tickets[h], c) = {t} /\ Lacks(w.net[h][Other(h)], Z)
      <4>1. w.net[h] = v.net[h] /\ Lacks(v.net[h][Other(h)], Z)
        BY <1>3, <3>3
      <4> QED BY <1>1, <3>2, <3>3, <4>1
    <3>6. CASE st \in Opening
      <4>1. st2 \in Opening
        BY <2>2, <3>6 DEF Alike, Opening, Granted
      <4>2. Rid(c, Other(h), w)
        BY <1>2, <1>4, <1>6, <3>6 DEF Keeps
      <4> QED BY <3>1, <3>4, <3>5, <4>1, <4>2 DEF Keeps
    <3>7. CASE st \notin Opening
      <4>1. st \in Granted /\ st2 \in Granted /\ st2 \notin Outside \cup Opening
            /\ st \in Late /\ st2 \in Late
            /\ st \notin {"LOCK_ENTERED", "LOCK_EXITING"} \cup Choosing
            /\ st2 \notin {"LOCK_ENTERED", "LOCK_EXITING"} \cup Choosing
        BY <2>2, <3>7 DEF Alike, Opening, Granted, Outside, Late, Choosing
      <4>2. /\ ~Left(c, Other(h), v)
            /\ \E y \in Ticket :
                 /\ Entry(v.tickets[Other(h)], c) = {y} /\ AtOther(y, h, st)
                 /\ \A u \in Entry(v.tickets[h], c) : u.number = y.number
        BY <1>6, <2>2, <3>7, <4>1 DEF Keeps
      <4>3. PICK y \in Ticket :
              /\ Entry(v.tickets[Other(h)], c) = {y} /\ AtOther(y, h, st)
              /\ \A u \in Entry(v.tickets[h], c) : u.number = y.number
        BY <4>2
      <4>4. AtOther(y, h, st2)
        BY <4>1, <4>3 DEF AtOther
      <4>5. /\ ~Left(c, Other(h), w) /\ Entry(w.tickets[Other(h)], c) = {y}
            /\ \A u \in Entry(w.tickets[h], c) : u.number = y.number
        BY <1>1, <1>2, <4>2, <4>3
      <4> QED BY <3>1, <3>4, <3>5, <4>1, <4>3, <4>4, <4>5 DEF Keeps
    <3> QED BY <3>6, <3>7
  <2> QED BY <2>1, <2>2
<1> QED
  BY <1>7, <1>8, <1>9 DEF Own


\* What a client sends and reads keeps the rest of the invariant.
LEMMA SpokenPairs ==
  ASSUME TwoLeaders, NEW c \in Client, NEW v, NEW w, Spoken(c, v, w),
         NEW home, NEW g, Pairing(home, g, v), NEW h2 \in Leader, NEW st2 \in Stage, Alike(g[c], st2),
         h2 = home[c] \/ g[c] \in Outside, Talks(c, h2, st2, w)
  PROVE  Pairing(Home(home, c, h2), To(g, c, st2), w)
<1> DEFINE h == home[c]
           st == g[c]
           home2 == Home(home, c, h2)
           g2 == To(g, c, st2)
<1>1. /\ home \in [Client -> Leader] /\ g \in [Client -> Stage] /\ Core(home, g, v)
      /\ h \in Leader /\ st \in Stage /\ Own(c, h, st, v) /\ Waits(c, home, g, v)
      /\ \A e \in Client : Quits(e, home[e], g[e], v)
  BY DEF Pairing, Core
<1>2. /\ Beside(c, v, w) /\ \A k \in Leader : DropsLead(k, c, v, w)
      /\ \A k \in Leader : \A d : Entry(w.tickets[k], d) = Entry(v.tickets[k], d)
  BY SpokenBeside
<1>3. World(v) /\ World(w) /\ w.tickets = v.tickets
  BY DEF Spoken
<1>4. /\ Moving(c, home, g, home2, g2) /\ home2[c] = h2 /\ g2[c] = st2
      /\ home2 \in [Client -> Leader] /\ g2 \in [Client -> Stage]
      /\ \A e \in Client \ {c} : home2[e] = home[e] /\ g2[e] = g[e]
  BY <1>1, Going
<1> HIDE DEF home2, g2
<1>5. Own(c, h2, st2, w)
  BY <1>1, SpokenOwn
<1>6. /\ st2 \notin {"GET_MAX_TICKET", "MAX_TICKET", "ADD_TICKET"}
      /\ st2 \notin {"LOCK_EXITING", "WAITING"}
  BY DEF Alike, Outside, Granted
<1>7. Waits(c, home2, g2, w)
  <2>1. SUFFICES ASSUME NEW k \in Leader, NEW a \in Entry(w.tickets[k], c), a.owner = k, a.quorum
                 PROVE  Queued(a, k, home2, g2, w)
    BY DEF Waits
  <2>2. a \in Entry(v.tickets[k], c) /\ a \in v.tickets[k] /\ a.client = c
    BY <1>2, <2>1 DEF Entry
  <2>3. Queued(a, k, home, g, v)
    BY <1>1, <2>1, <2>2 DEF Waits
  <2>4. c \in Held(a) => \E u \in Entry(w.tickets[k], c) : u.entering
    BY <1>2, <2>3 DEF Queued
  <2> HIDE DEF h, st
  <2> QED BY <1>2, <1>3, <1>4, <2>2, <2>3, <2>4, QueuedOwn
<1>8. Sure(c, h2, st2, w)
  BY <1>6 DEF Sure
<1>9. ASSUME NEW k \in Leader, NEW a \in v.tickets[k], a.client # c, a.owner = k, a.quorum
      PROVE  Yields(a, k, c, h2, st2, v, w)
  <2>1. Queued(a, k, home, g, v)
    BY <1>1, <1>3, <1>9, Waiting
  <2>2. (\E u \in Entry(v.tickets[k], c) : u.entering) => \E u \in Entry(w.tickets[k], c) : u.entering
    BY <1>2
  <2>3. ASSUME NEW d \in Leader, NEW u \in Entry(w.tickets[d], c), u.listed
        PROVE  \E x \in Entry(v.tickets[d], c) : x.listed /\ KeyOf(x) = KeyOf(u)
    BY <1>2, <2>3
  <2> QED BY <1>1, <1>6, <1>9, <2>1, <2>2, <2>3, YieldsSame
<1>10. /\ Core(home2, g2, w)
       /\ \A e \in Client \ {c} : Quits(e, home[e], g[e], v) => Quits(e, home2[e], g2[e], w)
  BY <1>1, <1>2, <1>3, <1>4, <1>5, <1>7, <1>8, <1>9, Bystanders
<1>11. Quits(c, h2, st2, w)
  <2>1. CASE st2 \in Late
    <3>1. st \in Granted /\ st2 \in Granted /\ st \notin Outside
      BY <2>1 DEF Alike, Outside, Late, Granted
    <3>2. h2 = h /\ st \in Late \ {"LOCK_EXITING"} /\ st2 # "LOCK_EXITING"
      BY <3>1 DEF Late, Granted
    <3>3. Quits(c, h, st, v)
      BY <1>1
    <3>4. /\ \A t \in Entry(v.tickets[h], c) : ~t.entering
          /\ \A t \in Entry(v.tickets[Other(h)], c) : ~t.entering
      BY <3>2, <3>3 DEF Quits
    <3> QED BY <1>3, <3>2, <3>4 DEF Quits
  <2>2. CASE st2 \notin Late
    BY <2>2 DEF Quits, Late
  <2> QED BY <2>1, <2>2
<1>12. Pairing(home2, g2, w)
  BY <1>1, <1>4, <1>10, <1>11 DEF Pairing
<1> QED
  BY <1>12 DEF home2, g2

-----------------------------------------------------------------------------
(* The invariant.                                                          *)

\* The stage of each client is the one its own state shows.
Shows(g) == \A c \in Client : client[c].state = StateOf(g[c])

PairInv ==
  /\ TypeInv /\ Timely
  /\ \E home \in [Client -> Leader], g \in [Client -> Stage] : Pairing(home, g, Now) /\ Shows(g)

\* What the handler of a message leaves.
LEMMA AdvancesInv ==
  ASSUME TwoLeaders, TypeInv, TypeInv', Timely, NEW home, NEW g, Pairing(home, g, Now), Shows(g),
         NEW s \in Node, NEW l \in Leader, net[s][l] # <<>>, Advances(s, l, home, g)
  PROVE  PairInv'
<1>1. CASE \E D, home2, g2 : Advance(s, l, D, home, g, home2, g2)
  <2>1. PICK D, home2, g2 : Advance(s, l, D, home, g, home2, g2)
    BY <1>1
  <2>2. /\ Prompt(l, D) /\ Sound(l, D) /\ Done(s, l, D)
        /\ home2 \in [Client -> Leader] /\ g2 \in [Client -> Stage]
        /\ Pairing(home2, g2, After(s, l, D)) /\ \A c \in Client : StateOf(g2[c]) = StateOf(g[c])
    BY <2>1 DEF Advance, Prompt
  <2>3. Timely'
    BY <2>2, TimelyDone
  <2>4. Now' = After(s, l, D) /\ client' = client
    BY <2>2, Returns
  <2>5. Pairing(home2, g2, Now')
    BY <2>2, <2>4
  <2>6. Shows(g2)'
    BY <2>2, <2>4 DEF Shows
  <2> QED BY <2>2, <2>3, <2>5, <2>6 DEF PairInv
<1>2. CASE Halts(s, l, home, g)
  <2>1. Stop(s, l) /\ Pairing(home, g, After(s, l, Here(l)))
    BY <1>2 DEF Halts
  <2>2. /\ tickets' = tickets /\ mail' = mail /\ client' = client /\ now' = now
        /\ net' = [net EXCEPT ![s][l] = Tail(@)]
    BY <2>1 DEF Stop
  <2>3. Timely'
    <3>1. ASSUME NEW n \in Node, NEW d \in Leader PROVE net'[n][d] \in Seq(InTime)
      <4>1. net[n][d] \in Seq(InTime) /\ net[s][l] \in Seq(InTime)
        BY DEF Timely
      <4>2. net'[n][d] = IF n = s /\ d = l THEN Tail(net[s][l]) ELSE net[n][d]
        BY <2>2 DEF TypeInv, TypeOK
      <4> QED BY <4>1, <4>2
    <3> QED BY <2>2, <3>1 DEF Timely
  <2>4. Now' = After(s, l, Here(l))
    <3>1. /\ Here(l).tickets = tickets[l] /\ \A d \in Leader : Here(l).out[d] = <<>>
          /\ \A c \in Client : Here(l).mail[c] = <<>>
      BY HerePrompt
    <3>2. tickets' = [tickets EXCEPT ![l] = Here(l).tickets]
      BY <2>2, <3>1 DEF TypeInv, TypeOK
    <3>3. mail' = Delivered(l, Here(l))
      <4>1. mail \in [Client -> [Leader -> Seq(Notice)]]
        BY DEF TypeInv, TypeOK
      <4>2. ASSUME NEW c \in Client PROVE mail[c] = [mail[c] EXCEPT ![l] = @ \o Here(l).mail[c]]
        <5>1. mail[c] \in [Leader -> Seq(Notice)] /\ mail[c][l] \in Seq(Notice)
          BY <4>1
        <5>2. mail[c][l] \o Here(l).mail[c] = mail[c][l]
          <6>1. \A q \in Seq(Notice) : q \o <<>> = q
            OBVIOUS
          <6> QED BY <3>1, <5>1, <6>1
        <5> QED BY <5>1, <5>2
      <4> QED BY <2>2, <4>1, <4>2 DEF Delivered
    <3>4. net' = [n \in Node |-> [d \in Leader |->
                    IF n = s /\ d = l THEN Tail(net[n][d])
                    ELSE IF n = l THEN net[n][d] \o Here(l).out[d] ELSE net[n][d]]]
      <4>1. net \in [Node -> [Leader -> Seq(Message)]]
        BY DEF TypeInv, TypeOK
      <4>2. \A q \in Seq(Message) : q \o <<>> = q
        OBVIOUS
      <4>3. ASSUME NEW n \in Node, NEW d \in Leader PROVE net[n][d] \o Here(l).out[d] = net[n][d]
        <5>1. net[n][d] \in Seq(Message) /\ Here(l).out[d] = <<>>
          BY <3>1, <4>1
        <5> QED BY <4>2, <5>1
      <4> DEFINE f == [n \in Node |-> [d \in Leader |->
                         IF n = s /\ d = l THEN Tail(net[n][d])
                         ELSE IF n = l THEN net[n][d] \o Here(l).out[d] ELSE net[n][d]]]
      <4>4. ASSUME NEW n \in Node, NEW d \in Leader
            PROVE  f[n][d] = IF n = s /\ d = l THEN Tail(net[s][l]) ELSE net[n][d]
        BY <4>3
      <4>5. f = [n \in Node |-> [d \in Leader |-> IF n = s /\ d = l THEN Tail(net[s][l]) ELSE net[n][d]]]
        BY <4>4
      <4> HIDE DEF f
      <4>6. f = [net EXCEPT ![s][l] = Tail(@)]
        BY <4>1, <4>5
      <4> QED BY <2>2, <4>6 DEF f
    <3> HIDE DEF Here
    <3> QED BY <2>2, <3>2, <3>3, <3>4 DEF Now, After
  <2>5. Pairing(home, g, Now') /\ Shows(g)'
    BY <2>1, <2>2, <2>4 DEF Shows
  <2>6. home \in [Client -> Leader] /\ g \in [Client -> Stage]
    BY DEF Pairing, Core
  <2> QED BY <2>3, <2>5, <2>6 DEF PairInv
<1> QED
  BY <1>1, <1>2 DEF Advances

LEMMA HandlePairs ==
  ASSUME TwoLeaders, TypeInv, Timely, NEW home, NEW g, Pairing(home, g, Now),
         NEW s \in Node, NEW l \in Leader, Handle(s, l)
  PROVE  Advances(s, l, home, g) /\ net[s][l] # <<>>
<1>1. net[s][l] # <<>>
  <2>1. CASE MsgLock(s, l) \/ MsgAbsolutely(s, l) \/ MsgUnlock(s, l)
    BY <2>1, Zenon DEF MsgLock, MsgAbsolutely, MsgUnlock, Arrived
  <2>2. CASE MsgLockEntering(s, l) \/ MsgLockEntered(s, l) \/ MsgGetMaxTicket(s, l) \/ MsgMaxTicket(s, l)
    BY <2>2, Zenon DEF MsgLockEntering, MsgLockEntered, MsgGetMaxTicket, MsgMaxTicket, Arrived
  <2>3. CASE MsgAddTicket(s, l) \/ MsgTicketAdded(s, l) \/ MsgLockExiting(s, l) \/ MsgTicketReady(s, l)
    BY <2>3, Zenon DEF MsgAddTicket, MsgTicketAdded, MsgLockExiting, MsgTicketReady, Arrived
  <2>4. CASE MsgActivateLock(s, l) \/ MsgLockActivated(s, l) \/ MsgDropTicket(s, l) \/ MsgLockFailed(s, l)
    BY <2>4, Zenon DEF MsgActivateLock, MsgLockActivated, MsgDropTicket, MsgLockFailed, Arrived
  <2> QED BY <2>1, <2>2, <2>3, <2>4 DEF Handle
<1>2. Advances(s, l, home, g)
  <2>1. CASE MsgLock(s, l) \/ MsgAbsolutely(s, l) \/ MsgUnlock(s, l)
    BY <2>1, PairsLock, PairsAbsolutely, PairsUnlock
  <2>2. CASE MsgLockEntering(s, l) \/ MsgLockEntered(s, l) \/ MsgGetMaxTicket(s, l) \/ MsgMaxTicket(s, l)
    BY <2>2, PairsLockEntering, PairsLockEntered, PairsGetMaxTicket, PairsMaxTicket
  <2>3. CASE MsgAddTicket(s, l) \/ MsgTicketAdded(s, l) \/ MsgLockExiting(s, l) \/ MsgTicketReady(s, l)
    BY <2>3, PairsAddTicket, PairsTicketAdded, PairsLockExiting, PairsTicketReady
  <2>4. CASE MsgActivateLock(s, l) \/ MsgLockActivated(s, l) \/ MsgDropTicket(s, l) \/ MsgLockFailed(s, l)
    BY <2>4, PairsActivateLock, PairsLockActivated, PairsDropTicket, PairsLockFailed
  <2> QED BY <2>1, <2>2, <2>3, <2>4 DEF Handle
<1> QED
  BY <1>1, <1>2


-----------------------------------------------------------------------------
(* The actions of the clients and of the clock.                            *)

\* What a message that a client sends changes.
LEMMA SendNet ==
  ASSUME TypeInv, Timely, NEW c \in Client, NEW l \in Leader, NEW m \in InTime, Send(c, l, m)
  PROVE  /\ net'[c][l] = Append(net[c][l], m)
         /\ \A k \in Leader \ {l} : net'[c][k] = net[c][k]
         /\ \A n \in Node \ {c} : net'[n] = net[n]
         /\ \A n \in Node, k \in Leader : net'[n][k] \in Seq(InTime)
<1>1. net \in [Node -> [Leader -> Seq(Message)]] /\ c \in Node
  BY DEF TypeInv, TypeOK, Node
<1>2. net' = [net EXCEPT ![c][l] = Append(@, m)]
  BY DEF Send
<1>3. /\ net'[c][l] = Append(net[c][l], m)
      /\ \A k \in Leader \ {l} : net'[c][k] = net[c][k]
      /\ \A n \in Node \ {c} : net'[n] = net[n]
  BY <1>1, <1>2
<1>4. ASSUME NEW n \in Node, NEW k \in Leader PROVE net'[n][k] \in Seq(InTime)
  <2>1. net[n][k] \in Seq(InTime)
    BY DEF Timely
  <2>2. net'[n][k] = IF n = c /\ k = l THEN Append(net[n][k], m) ELSE net[n][k]
    BY <1>3
  <2>3. Append(net[n][k], m) \in Seq(InTime)
    BY <2>1
  <2> QED BY <2>1, <2>2, <2>3
<1> QED
  BY <1>3, <1>4

\* What a client that reads its mail changes.
LEMMA HearsMail ==
  ASSUME TypeInv, Timely, NEW c \in Client, NEW l \in Leader, NEW type, Hears(c, l, type)
  PROVE  /\ mail[c][l] # <<>> /\ Head(mail[c][l]).type = type /\ Head(mail[c][l]) \in Gentle
         /\ mail'[c][l] = Tail(mail[c][l])
         /\ \A k \in Leader \ {l} : mail'[c][k] = mail[c][k]
         /\ \A e \in Client \ {c} : mail'[e] = mail[e]
         /\ \A e \in Client, k \in Leader : mail'[e][k] \in Seq(Gentle)
         /\ UNCHANGED <<now, tickets>>
<1>1. mail \in [Client -> [Leader -> Seq(Notice)]]
  BY DEF TypeInv, TypeOK
<1>2. /\ mail[c][l] # <<>> /\ Head(mail[c][l]).type = type
      /\ mail' = [mail EXCEPT ![c][l] = Tail(@)] /\ UNCHANGED <<now, tickets>>
  BY DEF Hears
<1>3. /\ mail'[c][l] = Tail(mail[c][l])
      /\ \A k \in Leader \ {l} : mail'[c][k] = mail[c][k]
      /\ \A e \in Client \ {c} : mail'[e] = mail[e]
  BY <1>1, <1>2
<1>4. ASSUME NEW e \in Client, NEW k \in Leader PROVE mail[e][k] \in Seq(Gentle)
  BY DEF Timely
<1>5. ASSUME NEW e \in Client, NEW k \in Leader PROVE mail'[e][k] \in Seq(Gentle)
  <2>1. mail[c][l] \in Seq(Gentle) /\ mail[e][k] \in Seq(Gentle)
    BY <1>4
  <2>2. mail'[e][k] = IF e = c /\ k = l THEN Tail(mail[c][l]) ELSE mail[e][k]
    BY <1>3
  <2>3. Tail(mail[c][l]) \in Seq(Gentle)
    BY <1>2, <2>1
  <2> QED BY <2>1, <2>2, <2>3
<1>6. Head(mail[c][l]) \in Gentle
  <2>1. mail[c][l] \in Seq(Gentle)
    BY <1>4
  <2> QED BY <1>2, <2>1
<1> QED
  BY <1>2, <1>3, <1>5, <1>6

\* What is on the way between a client and the leaders.
LEMMA TalksEmpty ==
  ASSUME NEW c, NEW h, NEW st, NEW w, Talks(c, h, st, w)
  PROVE  /\ st \notin Asks => \A k \in Leader : w.net[c][k] = <<>>
         /\ st \notin Says => \A k \in Leader : w.mail[c][k] = <<>>
  BY DEF Talks

LEMMA TalksMail ==
  ASSUME NEW c, NEW h, NEW st, NEW w, Talks(c, h, st, w), NEW l \in Leader, w.mail[c][l] # <<>>
  PROVE  /\ st \in Says /\ st = Head(w.mail[c][l]).type /\ (st # "UNLOCKED" => l = h)
         /\ Tail(w.mail[c][l]) = <<>> /\ \A k \in Leader \ {l} : w.mail[c][k] = <<>>
         /\ \A k \in Leader : w.net[c][k] = <<>>
<1>1. PICK d \in Leader : (st # "UNLOCKED" => d = h) /\ OneAt(w.mail[c], d, {n \in Notice : n.type = st})
  BY DEF Talks
<1>2. d = l
  BY <1>1 DEF OneAt
<1>3. st \in Says
  BY DEF Talks
<1>4. st \notin Asks
  BY <1>3 DEF Says, Asks
<1> QED
  BY <1>1, <1>2, <1>3, <1>4 DEF Talks, OneAt

LEMMA TalksAsked ==
  ASSUME NEW c, NEW h \in Leader, NEW st \in Asks, NEW w, NEW l \in Leader, st # "UNLOCK" => l = h,
         NEW m \in Of(c, {st}), w.net[c][l] = <<m>>, \A k \in Leader \ {l} : w.net[c][k] = <<>>,
         \A k \in Leader : w.mail[c][k] = <<>>
  PROVE  Talks(c, h, st, w)
<1>1. OneAt(w.net[c], l, Of(c, {st}))
  <2> DEFINE q == <<m>>
  <2>1. q # <<>> /\ Head(q) = m /\ Tail(q) = <<>>
    OBVIOUS
  <2>2. w.net[c][l] = q
    OBVIOUS
  <2> HIDE DEF q
  <2> QED BY <2>1, <2>2 DEF OneAt
<1>2. OneAt(w.mail[c], h, {n \in Notice : n.type = st})
  BY DEF OneAt
<1> QED
  BY <1>1, <1>2 DEF Talks

LEMMA TalksNothing ==
  ASSUME NEW c, NEW h \in Leader, NEW st, NEW w,
         \A k \in Leader : w.net[c][k] = <<>> /\ w.mail[c][k] = <<>>
  PROVE  Talks(c, h, st, w)
  BY DEF Talks, OneAt

\* The step of a client as the invariant sees it.
LEMMA ClientPairs ==
  ASSUME TwoLeaders, TypeInv, TypeInv', Timely', NEW home, NEW g, Pairing(home, g, Now), Shows(g),
         NEW c \in Client, NEW h2 \in Leader, NEW st2 \in Stage, Alike(g[c], st2),
         h2 = home[c] \/ g[c] \in Outside, tickets' = tickets,
         \A n \in Node \ {c} : net'[n] = net[n], \A e \in Client \ {c} : mail'[e] = mail[e],
         \A e \in Client \ {c} : client'[e].state = client[e].state,
         client'[c].state = StateOf(st2), Talks(c, h2, st2, Now')
  PROVE  PairInv'
<1>1. Now.tickets = tickets /\ Now.net = net /\ Now.mail = mail
      /\ Now'.tickets = tickets' /\ Now'.net = net' /\ Now'.mail = mail'
  BY DEF Now
<1>2. World(Now) /\ World(Now')
  BY <1>1 DEF TypeInv, TypeOK, World
<1> DEFINE v == Now
           w == Now'
<1>3. Spoken(c, v, w)
  <2>1. \A k \in Leader : k \in Node \ {c}
    BY DisjointAssumption DEF Node
  <2>2. \A e \in Client \ {c} : e \in Node \ {c}
    BY DEF Node
  <2> QED BY <1>1, <1>2, <2>1, <2>2 DEF Spoken
<1> HIDE DEF v, w
<1>4. Pairing(Home(home, c, h2), To(g, c, st2), w)
  <2>1. Pairing(home, g, v) /\ Talks(c, h2, st2, w)
    BY DEF v, w
  <2> QED BY <1>3, <2>1, SpokenPairs
<1> DEFINE home2 == Home(home, c, h2)
           g2 == To(g, c, st2)
<1>5. /\ home2 \in [Client -> Leader] /\ g2 \in [Client -> Stage] /\ g2[c] = st2
      /\ \A e \in Client \ {c} : g2[e] = g[e]
  <2>1. home \in [Client -> Leader] /\ g \in [Client -> Stage]
    BY DEF Pairing, Core
  <2> QED BY <2>1, Going
<1> HIDE DEF home2, g2
<1>6. Shows(g2)'
  <2>1. \A e \in Client : client[e].state = StateOf(g[e])
    BY DEF Shows
  <2>2. \A e \in Client : client'[e].state = StateOf(g2[e])
    BY <1>5, <2>1
  <2> QED BY <2>2 DEF Shows
<1>7. Pairing(home2, g2, Now')
  BY <1>4 DEF home2, g2, w
<1> QED
  BY <1>5, <1>6, <1>7 DEF PairInv


\* The stages that each state of a client may be in.
LEMMA Stages ==
  ASSUME NEW st \in Stage
  PROVE  /\ StateOf(st) = "IDLE" => st = "IDLE"
         /\ StateOf(st) = "LOCKED" => st = "HELD"
  BY DEF StateOf

\* What becomes of the dates of a client.
LEMMA ClientTimely ==
  ASSUME TypeInv, Timely, UNCHANGED <<now, tickets>>,
         \A n \in Node, k \in Leader : net'[n][k] \in Seq(InTime),
         \A e \in Client, k \in Leader : mail'[e][k] \in Seq(Gentle),
         NEW c \in Client, \A e \in Client \ {c} : client'[e] = client[e],
         client'[c].timer = 0 \/ client'[c].timer > LastDate,
         client'[c].state = "LOCKED" => client'[c].lockDate > LastDate
  PROVE  Timely'
<1>1. \A e \in Client : /\ client'[e].timer = 0 \/ client'[e].timer > LastDate
                        /\ client'[e].state = "LOCKED" => client'[e].lockDate > LastDate
  BY DEF Timely
<1> QED
  BY <1>1 DEF Timely

LEMMA LockPairs ==
  ASSUME TwoLeaders, TypeInv, Timely, NEW home, NEW g, Pairing(home, g, Now), Shows(g),
         NEW c \in Client, NEW l \in Leader, Lock(c, l)
  PROVE  PairInv'
<1> DEFINE m == [Msg("LOCK", EnteringKey(c)) EXCEPT !.value = now + Obtention]
<1>1. TypeInv'
  BY LockTypes
<1>2. now \in Nat /\ 1 <= now /\ now <= LastDate /\ client \in [Client -> ClientState]
  BY DEF TypeInv, TypeOK, Timely
<1>3. now + Obtention \in Nat /\ now + Obtention > LastDate
  BY <1>2, Dates
<1>4. m \in InTime /\ m \in Of(c, {"LOCK"})
  <2>1. m \in Message
    BY <1>3, MsgType, KeyTypes
  <2>2. m.type = "LOCK" /\ m.value = now + Obtention /\ m.key.client = c
    BY DEF Msg, EnteringKey
  <2> HIDE DEF m
  <2> QED BY <1>3, <2>1, <2>2 DEF InTime, Of
<1>5. /\ client[c].state = "IDLE" /\ Send(c, l, m) /\ tickets' = tickets /\ mail' = mail /\ now' = now
      /\ client' = [client EXCEPT ![c].state = "LOCKING", ![c].timer = now + Obtention, ![c].tries = @ + 1]
  BY DEF Lock
<1> HIDE DEF m
<1>6. /\ \A e \in Client \ {c} : client'[e] = client[e]
      /\ client'[c].state = "LOCKING" /\ client'[c].timer = now + Obtention
  BY <1>2, <1>5 DEF ClientState
<1>7. /\ net'[c][l] = Append(net[c][l], m) /\ \A k \in Leader \ {l} : net'[c][k] = net[c][k]
      /\ \A n \in Node \ {c} : net'[n] = net[n]
      /\ \A n \in Node, k \in Leader : net'[n][k] \in Seq(InTime)
  BY <1>4, <1>5, SendNet
<1>8. Timely'
  <2>1. \A e \in Client, k \in Leader : mail'[e][k] \in Seq(Gentle)
    BY <1>5 DEF Timely
  <2> QED BY <1>3, <1>5, <1>6, <1>7, <2>1, ClientTimely
<1>9. /\ home \in [Client -> Leader] /\ g \in [Client -> Stage] /\ Talks(c, home[c], g[c], Now)
  BY DEF Pairing, Core, Own
<1>10. g[c] = "IDLE"
  BY <1>5, <1>9, Stages DEF Shows
<1>11. Alike(g[c], "LOCK") /\ "LOCK" \in Stage /\ g[c] \in Outside /\ StateOf("LOCK") = "LOCKING"
  BY <1>10 DEF Alike, Outside, Stage, StateOf
<1>12. \A k \in Leader : net[c][k] = <<>> /\ mail[c][k] = <<>>
  <2>1. "IDLE" \notin Asks /\ "IDLE" \notin Says
    BY DEF Asks, Says
  <2>2. \A k \in Leader : Now.net[c][k] = <<>> /\ Now.mail[c][k] = <<>>
    BY <1>9, <1>10, <2>1, TalksEmpty
  <2> QED BY <2>2 DEF Now
<1>13. Talks(c, l, "LOCK", Now')
  <2>1. Now'.net = net' /\ Now'.mail = mail'
    BY DEF Now
  <2>2. net'[c][l] = <<m>> /\ \A k \in Leader \ {l} : net'[c][k] = <<>>
    <3>1. m \in Message /\ Append(<<>>, m) = <<m>>
      BY <1>4 DEF InTime
    <3> QED BY <1>7, <1>12, <3>1
  <2>3. \A k \in Leader : mail'[c][k] = <<>>
    BY <1>5, <1>12
  <2> DEFINE w == Now'
  <2>4. w.net[c][l] = <<m>> /\ (\A k \in Leader \ {l} : w.net[c][k] = <<>>) /\ \A k \in Leader : w.mail[c][k] = <<>>
    BY <2>1, <2>2, <2>3
  <2>5. "LOCK" \in Asks
    BY DEF Asks
  <2> HIDE DEF w
  <2>6. Talks(c, l, "LOCK", w)
    BY <1>4, <2>4, <2>5, TalksAsked
  <2> QED BY <2>6 DEF w
<1> QED
  BY <1>1, <1>5, <1>6, <1>7, <1>8, <1>11, <1>13, ClientPairs

LEMMA UnlockPairs ==
  ASSUME TwoLeaders, TypeInv, Timely, NEW home, NEW g, Pairing(home, g, Now), Shows(g),
         NEW c \in Client, NEW l \in Leader, Unlock(c, l)
  PROVE  PairInv'
<1> DEFINE m == Msg("UNLOCK", EnteringKey(c))
<1>1. TypeInv'
  BY UnlockTypes
<1>2. now \in Nat /\ 1 <= now /\ now <= LastDate /\ client \in [Client -> ClientState]
  BY DEF TypeInv, TypeOK, Timely
<1>3. now + UnlockWait \in Nat /\ now + UnlockWait > LastDate
  BY <1>2, Dates
<1>4. m \in InTime /\ m \in Of(c, {"UNLOCK"})
  <2>1. m \in Message
    BY MsgType, KeyTypes
  <2>2. m.type = "UNLOCK" /\ m.key.client = c
    BY DEF Msg, EnteringKey
  <2> HIDE DEF m
  <2> QED BY <2>1, <2>2 DEF InTime, Of
<1>5. /\ client[c].state = "LOCKED" /\ Send(c, l, m) /\ tickets' = tickets /\ mail' = mail /\ now' = now
      /\ client' = [client EXCEPT ![c].state = "UNLOCKING", ![c].timer = now + UnlockWait, ![c].lockDate = 0]
  BY DEF Unlock, SendUnlock, TwoLeaders
<1> HIDE DEF m
<1>6. /\ \A e \in Client \ {c} : client'[e] = client[e]
      /\ client'[c].state = "UNLOCKING" /\ client'[c].timer = now + UnlockWait
  BY <1>2, <1>5 DEF ClientState
<1>7. /\ net'[c][l] = Append(net[c][l], m) /\ \A k \in Leader \ {l} : net'[c][k] = net[c][k]
      /\ \A n \in Node \ {c} : net'[n] = net[n]
      /\ \A n \in Node, k \in Leader : net'[n][k] \in Seq(InTime)
  BY <1>4, <1>5, SendNet
<1>8. Timely'
  <2>1. \A e \in Client, k \in Leader : mail'[e][k] \in Seq(Gentle)
    BY <1>5 DEF Timely
  <2> QED BY <1>3, <1>5, <1>6, <1>7, <2>1, ClientTimely
<1>9. /\ home \in [Client -> Leader] /\ g \in [Client -> Stage] /\ Talks(c, home[c], g[c], Now)
  BY DEF Pairing, Core, Own
<1>10. g[c] = "HELD"
  BY <1>5, <1>9, Stages DEF Shows
<1>11. Alike(g[c], "UNLOCK") /\ "UNLOCK" \in Stage /\ StateOf("UNLOCK") = "UNLOCKING"
  BY <1>10 DEF Alike, Granted, Late, Stage, StateOf
<1>12. \A k \in Leader : net[c][k] = <<>> /\ mail[c][k] = <<>>
  <2>1. "HELD" \notin Asks /\ "HELD" \notin Says
    BY DEF Asks, Says
  <2>2. \A k \in Leader : Now.net[c][k] = <<>> /\ Now.mail[c][k] = <<>>
    BY <1>9, <1>10, <2>1, TalksEmpty
  <2> QED BY <2>2 DEF Now
<1>13. Talks(c, home[c], "UNLOCK", Now')
  <2>1. Now'.net = net' /\ Now'.mail = mail'
    BY DEF Now
  <2>2. net'[c][l] = <<m>> /\ \A k \in Leader \ {l} : net'[c][k] = <<>>
    <3>1. m \in Message /\ Append(<<>>, m) = <<m>>
      BY <1>4 DEF InTime
    <3> QED BY <1>7, <1>12, <3>1
  <2>3. \A k \in Leader : mail'[c][k] = <<>>
    BY <1>5, <1>12
  <2> DEFINE w == Now'
  <2>4. w.net[c][l] = <<m>> /\ (\A k \in Leader \ {l} : w.net[c][k] = <<>>) /\ \A k \in Leader : w.mail[c][k] = <<>>
    BY <2>1, <2>2, <2>3
  <2>5. "UNLOCK" \in Asks /\ home[c] \in Leader
    BY <1>9 DEF Asks
  <2> HIDE DEF w
  <2>6. Talks(c, home[c], "UNLOCK", w)
    BY <1>4, <2>4, <2>5, TalksAsked
  <2> QED BY <2>6 DEF w
<1>14. home[c] \in Leader
  BY <1>9
<1> QED
  BY <1>1, <1>5, <1>6, <1>7, <1>8, <1>11, <1>13, <1>14, ClientPairs


\* A client reads its only message: the stage it is in says what it is.
LEMMA HearsStage ==
  ASSUME TwoLeaders, TypeInv, Timely, NEW home, NEW g, Pairing(home, g, Now),
         NEW c \in Client, NEW l \in Leader, NEW type, Hears(c, l, type)
  PROVE  /\ home \in [Client -> Leader] /\ g \in [Client -> Stage]
         /\ g[c] = type /\ type \in Says /\ (type # "UNLOCKED" => l = home[c])
         /\ \A k \in Leader : net[c][k] = <<>> /\ mail'[c][k] = <<>>
<1>1. /\ home \in [Client -> Leader] /\ g \in [Client -> Stage] /\ Talks(c, home[c], g[c], Now)
  BY DEF Pairing, Core, Own
<1>2. /\ mail[c][l] # <<>> /\ Head(mail[c][l]).type = type /\ mail'[c][l] = Tail(mail[c][l])
      /\ \A k \in Leader \ {l} : mail'[c][k] = mail[c][k]
  BY HearsMail
<1>3. Now.net = net /\ Now.mail = mail
  BY DEF Now
<1> DEFINE v == Now
<1>4. /\ g[c] \in Says /\ g[c] = Head(v.mail[c][l]).type /\ (g[c] # "UNLOCKED" => l = home[c])
      /\ Tail(v.mail[c][l]) = <<>> /\ \A k \in Leader \ {l} : v.mail[c][k] = <<>>
      /\ \A k \in Leader : v.net[c][k] = <<>>
  <2>1. Talks(c, home[c], g[c], v) /\ v.mail[c][l] # <<>>
    BY <1>1, <1>2, <1>3
  <2> HIDE DEF v
  <2> QED BY <2>1, TalksMail
<1> QED
  BY <1>1, <1>2, <1>3, <1>4

LEMMA HearAlivePairs ==
  ASSUME TwoLeaders, TypeInv, Timely, NEW home, NEW g, Pairing(home, g, Now), Shows(g),
         NEW c \in Client, NEW l \in Leader, HearAlive(c, l)
  PROVE  PairInv'
<1> DEFINE m == Msg("ABSOLUTELY", EnteringKey(c))
<1>1. TypeInv'
  BY HearTypes DEF Hear
<1>2. Hears(c, l, "ALIVE") /\ Send(c, l, m) /\ client' = client
  BY DEF HearAlive
<1>3. m \in InTime /\ m \in Of(c, {"ABSOLUTELY"}) /\ m \in Message
  <2>1. m \in Message
    BY MsgType, KeyTypes
  <2>2. m.type = "ABSOLUTELY" /\ m.key.client = c
    BY DEF Msg, EnteringKey
  <2> HIDE DEF m
  <2> QED BY <2>1, <2>2 DEF InTime, Of
<1> HIDE DEF m
<1>4. /\ net'[c][l] = Append(net[c][l], m) /\ \A k \in Leader \ {l} : net'[c][k] = net[c][k]
      /\ \A n \in Node \ {c} : net'[n] = net[n]
      /\ \A n \in Node, k \in Leader : net'[n][k] \in Seq(InTime)
  BY <1>2, <1>3, SendNet
<1>5. /\ \A e \in Client \ {c} : mail'[e] = mail[e]
      /\ \A e \in Client, k \in Leader : mail'[e][k] \in Seq(Gentle)
      /\ now' = now /\ tickets' = tickets
  BY <1>2, HearsMail
<1>6. Timely'
  BY <1>2, <1>4, <1>5, ClientTimely DEF Timely
<1>7. /\ home \in [Client -> Leader] /\ g \in [Client -> Stage]
      /\ g[c] = "ALIVE" /\ l = home[c]
      /\ \A k \in Leader : net[c][k] = <<>> /\ mail'[c][k] = <<>>
  BY <1>2, HearsStage
<1>8. Alike(g[c], "ABSOLUTELY") /\ "ABSOLUTELY" \in Stage /\ StateOf("ABSOLUTELY") = StateOf(g[c])
      /\ "ABSOLUTELY" \in Asks
  BY <1>7 DEF Alike, Stage, StateOf, Opening, Asks
<1>9. client'[c].state = StateOf("ABSOLUTELY")
  BY <1>2, <1>8 DEF Shows
<1>10. Talks(c, l, "ABSOLUTELY", Now')
  <2>1. Now'.net = net' /\ Now'.mail = mail'
    BY DEF Now
  <2>2. net'[c][l] = <<m>> /\ \A k \in Leader \ {l} : net'[c][k] = <<>>
    <3>1. Append(<<>>, m) = <<m>>
      BY <1>3
    <3> QED BY <1>4, <1>7, <3>1
  <2> DEFINE w == Now'
  <2>3. w.net[c][l] = <<m>> /\ (\A k \in Leader \ {l} : w.net[c][k] = <<>>) /\ \A k \in Leader : w.mail[c][k] = <<>>
    BY <1>7, <2>1, <2>2
  <2> HIDE DEF w
  <2>4. Talks(c, l, "ABSOLUTELY", w)
    BY <1>3, <1>8, <2>3, TalksAsked
  <2> QED BY <2>4 DEF w
<1> QED
  BY <1>1, <1>2, <1>4, <1>5, <1>6, <1>7, <1>8, <1>9, <1>10, ClientPairs

\* The client reads, and answers nothing.
LEMMA HearPairs ==
  ASSUME TwoLeaders, TypeInv, TypeInv', Timely, NEW home, NEW g, Pairing(home, g, Now), Shows(g),
         NEW c \in Client, NEW l \in Leader, NEW type, Hears(c, l, type), UNCHANGED net,
         NEW st2 \in Stage, Alike(type, st2), \A e \in Client \ {c} : client'[e] = client[e],
         client'[c].state = StateOf(st2), client'[c].timer = 0 \/ client'[c].timer > LastDate,
         client'[c].state = "LOCKED" => client'[c].lockDate > LastDate
  PROVE  PairInv'
<1>1. /\ home \in [Client -> Leader] /\ g \in [Client -> Stage] /\ g[c] = type
      /\ \A k \in Leader : net[c][k] = <<>> /\ mail'[c][k] = <<>>
  BY HearsStage
<1>2. /\ \A e \in Client \ {c} : mail'[e] = mail[e]
      /\ \A e \in Client, k \in Leader : mail'[e][k] \in Seq(Gentle)
      /\ now' = now /\ tickets' = tickets
  BY HearsMail
<1>3. Timely'
  <2>1. \A n \in Node, k \in Leader : net'[n][k] \in Seq(InTime)
    BY DEF Timely
  <2> QED BY <1>2, <2>1, ClientTimely
<1>4. home[c] \in Leader
  BY <1>1
<1>5. Talks(c, home[c], st2, Now')
  <2> DEFINE w == Now'
  <2>1. \A k \in Leader : w.net[c][k] = <<>> /\ w.mail[c][k] = <<>>
    <3>1. Now'.net = net' /\ Now'.mail = mail'
      BY DEF Now
    <3> QED BY <1>1, <3>1
  <2> HIDE DEF w
  <2>2. Talks(c, home[c], st2, w)
    BY <1>4, <2>1, TalksNothing
  <2> QED BY <2>2 DEF w
<1> QED
  BY <1>1, <1>2, <1>3, <1>4, <1>5, ClientPairs

LEMMA HearsPairs ==
  ASSUME TwoLeaders, TypeInv, Timely, NEW home, NEW g, Pairing(home, g, Now), Shows(g),
         NEW c \in Client, NEW l \in Leader, Hear(c, l)
  PROVE  PairInv'
<1>1. TypeInv' /\ client \in [Client -> ClientState] /\ LastDate \in Nat
  <2>1. TypeInv'
    BY HearTypes
  <2>2. client \in [Client -> ClientState]
    BY DEF TypeInv, TypeOK
  <2>3. LastDate \in Nat
    BY BakeryAssumption DEF LastDate
  <2> QED BY <2>1, <2>2, <2>3
<1>2. CASE Deaf(c, l)
  <2>1. PICK type : Hears(c, l, type)
    BY <1>2 DEF Deaf
  <2>2. client[c].state = "IDLE"
    BY <1>2 DEF Deaf
  <2>3. g[c] \in Says /\ g[c] \in Stage
    BY <2>1, HearsStage
  <2>4. g[c] = "IDLE"
    BY <2>2, <2>3, Stages DEF Shows
  <2> QED BY <2>3, <2>4 DEF Says
<1>3. CASE HearAlive(c, l)
  BY <1>3, HearAlivePairs
<1>4. CASE HearLocked(c, l)
  <2> DEFINE date == Head(mail[c][l]).date
  <2>1. /\ Hears(c, l, "LOCKED") /\ UNCHANGED net
        /\ client' = [client EXCEPT ![c].state = "LOCKED", ![c].timer = date,
                                    ![c].lockDate = date, ![c].overDate = date + UnlockDuration]
    BY <1>4 DEF HearLocked
  <2>2. Head(mail[c][l]).type = "LOCKED" /\ Head(mail[c][l]) \in Gentle
    BY <2>1, HearsMail
  <2>3. date > LastDate
    BY <2>2 DEF Gentle
  <2> HIDE DEF date
  <2>4. /\ \A e \in Client \ {c} : client'[e] = client[e]
        /\ client'[c].state = "LOCKED" /\ client'[c].timer = date /\ client'[c].lockDate = date
    BY <1>1, <2>1 DEF ClientState
  <2>5. Alike("LOCKED", "HELD") /\ "HELD" \in Stage /\ StateOf("HELD") = "LOCKED"
    BY DEF Alike, Granted, Late, Stage, StateOf
  <2> QED BY <1>1, <2>1, <2>3, <2>4, <2>5, HearPairs
<1>5. ASSUME NEW type \in {"LOCK_FAILED", "UNLOCKED"}, Hears(c, l, type), Become(c, "IDLE", 0), UNCHANGED net
      PROVE  PairInv'
  <2>1. /\ \A e \in Client \ {c} : client'[e] = client[e]
        /\ client'[c].state = "IDLE" /\ client'[c].timer = 0
    BY <1>1, <1>5 DEF ClientState, Become
  <2>2. Alike(type, "IDLE") /\ "IDLE" \in Stage /\ StateOf("IDLE") = "IDLE"
    BY DEF Alike, Outside, Stage, StateOf
  <2> QED BY <1>1, <1>5, <2>1, <2>2, HearPairs
<1>6. CASE HearLockFailed(c, l)
  BY <1>5, <1>6 DEF HearLockFailed
<1>7. CASE HearUnlocked(c, l)
  BY <1>5, <1>7 DEF HearUnlocked
<1>8. CASE HearUnlocking(c, l)
  <2>1. Hears(c, l, "UNLOCKING")
    BY <1>8 DEF HearUnlocking
  <2>2. Head(mail[c][l]).type = "UNLOCKING" /\ Head(mail[c][l]) \in Gentle
    BY <2>1, HearsMail
  <2> QED BY <2>2 DEF Gentle
<1> QED
  BY <1>2, <1>3, <1>4, <1>6, <1>7, <1>8 DEF Hear


LEMMA TickPairs ==
  ASSUME TwoLeaders, TypeInv, Timely, NEW home, NEW g, Pairing(home, g, Now), Shows(g), Tick
  PROVE  PairInv'
<1>1. TypeInv'
  BY TickTypes
<1>2. /\ now < MaxTime /\ now' = now + 1 /\ now \in Nat /\ MaxTime \in Nat /\ 1 <= now
      /\ tickets' = tickets /\ net' = net /\ mail' = mail /\ client' = client
  BY BakeryAssumption DEF Tick, Timely, TypeInv, TypeOK
<1>3. 1 <= now' /\ now' <= LastDate
  BY <1>2 DEF LastDate
<1>4. Timely'
  BY <1>2, <1>3 DEF Timely
<1>5. Now' = Now /\ Shows(g)' /\ home \in [Client -> Leader] /\ g \in [Client -> Stage]
  BY <1>2 DEF Now, Shows, Pairing, Core
<1>6. Pairing(home, g, Now')
  BY <1>5
<1> QED
  BY <1>1, <1>4, <1>5, <1>6 DEF PairInv

LEMMA InitPairs == TwoLeaders /\ Init => PairInv
<1> SUFFICES ASSUME TwoLeaders, Init PROVE PairInv
  OBVIOUS
<1>1. TypeInv
  BY InitTypes
<1>2. PICK h \in Leader : TRUE
  BY LeaderAssumption
<1> DEFINE home == [c \in Client |-> h]
           g == [c \in Client |-> "IDLE"]
<1>3. home \in [Client -> Leader] /\ g \in [Client -> Stage]
  BY DEF Stage, Outside
<1>4. /\ Now.tickets = [l \in Leader |-> {}] /\ Now.net = [n \in Node |-> [l \in Leader |-> <<>>]]
      /\ Now.mail = [c \in Client |-> [l \in Leader |-> <<>>]]
  BY DEF Now, Init
<1>5. \A l \in Leader : Other(l) \in Leader
  BY OtherLeader
<1>6. \A l, k \in Leader : Now.net[l][k] = <<>>
  BY <1>4 DEF Node
<1>7. \A l \in Leader : \A c : Entry(Now.tickets[l], c) = {}
  BY <1>4 DEF Entry
<1>8. \A S, T : Lacks(<<>>, S) /\ Once(<<>>, S)
  BY DEF Lacks, Once
<1>9. ASSUME NEW c \in Client
      PROVE  Own(c, h, "IDLE", Now) /\ Waits(c, home, g, Now) /\ Sure(c, h, "IDLE", Now) /\ Quits(c, h, "IDLE", Now)
  <2>1. Talks(c, h, "IDLE", Now)
    <3> DEFINE w == Now
    <3>1. \A k \in Leader : w.net[c][k] = <<>> /\ w.mail[c][k] = <<>>
      BY <1>4 DEF Node
    <3> HIDE DEF w
    <3>2. Talks(c, h, "IDLE", w)
      BY <3>1, TalksNothing
    <3> QED BY <3>2 DEF w
  <2>2. Moves(c, h, "IDLE", Now)
    BY <1>5, <1>6, <1>8 DEF Moves, Bears
  <2>3. Keeps(c, h, "IDLE", Now)
    <3> DEFINE w == Now
    <3>1. \A l \in Leader : Rid(c, l, w)
      BY <1>5, <1>6, <1>7, <1>8 DEF Rid, Left
    <3>2. "IDLE" \in Outside
      BY DEF Outside
    <3> HIDE DEF w
    <3>3. Keeps(c, h, "IDLE", w)
      BY <1>5, <3>1, <3>2, KeepsOutside
    <3> QED BY <3>3 DEF w
  <2>4. InOrder(c, h, "IDLE", Now)
    BY DEF InOrder, Choosing
  <2>5. Waits(c, home, g, Now)
    BY <1>7 DEF Waits
  <2>6. Sure(c, h, "IDLE", Now)
    BY DEF Sure
  <2>7. Quits(c, h, "IDLE", Now)
    BY DEF Quits, Late, Granted
  <2> QED BY <2>1, <2>2, <2>3, <2>4, <2>5, <2>6, <2>7 DEF Own
<1>10. Pairing(home, g, Now)
  BY <1>3, <1>9 DEF Pairing, Core
<1>11. Shows(g)
  BY DEF Shows, StateOf, Init
<1>12. Timely
  <2>1. LastDate \in Nat /\ 1 <= LastDate /\ now = 1
    BY BakeryAssumption DEF LastDate, Init
  <2>2. <<>> \in Seq(InTime) /\ <<>> \in Seq(Gentle)
    OBVIOUS
  <2> QED BY <2>1, <2>2 DEF Timely, Init
<1> QED
  BY <1>1, <1>3, <1>10, <1>11, <1>12 DEF PairInv

LEMMA NextPairs == TwoLeaders /\ PairInv /\ [Next]_vars => PairInv'
<1> SUFFICES ASSUME TwoLeaders, PairInv, [Next]_vars PROVE PairInv'
  OBVIOUS
<1>1. TypeInv /\ Timely /\ TypeInv'
  BY NextTypes DEF PairInv
<1>2. PICK home, g : /\ home \in [Client -> Leader] /\ g \in [Client -> Stage]
                     /\ Pairing(home, g, Now) /\ Shows(g)
  BY DEF PairInv
<1>3. ASSUME NEW s \in Node, NEW l \in Leader, Handle(s, l) PROVE PairInv'
  BY <1>1, <1>2, <1>3, HandlePairs, AdvancesInv
<1>4. ASSUME NEW l \in Leader, Timer(l) PROVE PairInv'
  <2>1. Prompt(l, Here(l)) /\ Here(l).tickets = tickets[l]
    BY <1>1, HerePrompt
  <2>2. \A t \in tickets[l] : ~TimedOut(t)
    BY <2>1, PromptTickets
  <2> QED BY <1>4, <2>2 DEF Timer
<1>5. ASSUME NEW c \in Client, NEW l \in Leader, Lock(c, l) \/ Unlock(c, l) \/ Hear(c, l) PROVE PairInv'
  BY <1>1, <1>2, <1>5, LockPairs, UnlockPairs, HearsPairs
<1>6. ASSUME NEW c \in Client, ClientTimeout(c) PROVE PairInv'
  <2>1. client[c].timer # 0 /\ client[c].timer <= now
    BY <1>6 DEF ClientTimeout
  <2>2. client[c].timer > LastDate /\ now <= LastDate /\ now \in Nat /\ LastDate \in Nat /\ client[c].timer \in Nat
    <3>1. client[c] \in ClientState /\ now \in Nat
      BY <1>1 DEF TypeInv, TypeOK
    <3>2. LastDate \in Nat
      BY BakeryAssumption DEF LastDate
    <3> QED BY <1>1, <2>1, <3>1, <3>2 DEF Timely, ClientState
  <2> QED BY <2>1, <2>2
<1>7. CASE Tick
  BY <1>1, <1>2, <1>7, TickPairs
<1>8. CASE UNCHANGED vars
  <2>1. Timely'
    BY <1>1, <1>8 DEF Timely, vars
  <2>2. Now' = Now /\ Shows(g)'
    BY <1>2, <1>8 DEF Now, Shows, vars
  <2>3. Pairing(home, g, Now')
    BY <1>2, <2>2
  <2> QED BY <1>1, <1>2, <2>1, <2>2, <2>3 DEF PairInv
<1> QED
  BY <1>3, <1>4, <1>5, <1>6, <1>7, <1>8 DEF Next

\* The invariant holds as long as the program runs.
LEMMA AlwaysPairs ==
  ASSUME TwoLeaders
  PROVE  Spec => []PairInv
<1>1. Init => PairInv
  BY InitPairs
<1>2. PairInv /\ [Next]_vars => PairInv'
  BY NextPairs
<1> QED
  BY <1>1, <1>2, PTL DEF Spec

-----------------------------------------------------------------------------
(* What it comes to.                                                       *)

\* A locked ticket in the table of its owner is before all those of the others.
LEMMA PairsInTurn == TwoLeaders /\ PairInv => InTurn
<1> SUFFICES ASSUME TwoLeaders, PairInv, NEW l \in Leader, NEW t \in tickets[l],
                    t.owner = l, t.listed, t.locked, NEW k \in Leader
             PROVE  Clear(tickets[k], t)
  BY DEF InTurn, Clear
<1>1. PICK home, g : Core(home, g, Now)
  BY DEF PairInv, Pairing
<1>2. World(Now) /\ Now.tickets = tickets /\ t \in Ticket
  BY NowWorld DEF PairInv
<1>3. t.client \in Client /\ t \in Entry(tickets[l], t.client)
  BY <1>2 DEF Ticket, Entry
<1>4. home[t.client] \in Leader /\ Own(t.client, home[t.client], g[t.client], Now)
  BY <1>1, <1>3 DEF Core
<1>5. t.quorum
  <2> DEFINE c == t.client
             st == g[t.client]
             h == home[t.client]
  <2>1. Own(c, h, st, Now) /\ h \in Leader /\ t \in Entry(Now.tickets[l], c)
    BY <1>2, <1>3, <1>4
  <2> HIDE DEF c, st, h
  <2>2. Gone(t, l) \/ (l = h /\ AtHome(t, h, st)) \/ (l # h /\ AtOther(t, h, st))
    BY <2>1, Lone
  <2> QED BY <2>2 DEF Gone, AtHome, AtOther, Late
<1>6. Queued(t, l, home, g, Now)
  BY <1>1, <1>2, <1>5, Waiting
<1> QED
  BY <1>2, <1>6 DEF Queued

\* The ticket of whoever has the lock is locked in the table of its home.
LEMMA HolderTicket ==
  ASSUME TwoLeaders, PairInv, NEW c \in Client, IsLocked(c)
  PROVE  \E l \in Leader : \E t \in tickets[l] :
           t.client = c /\ t \in Ticket /\ t.owner = l /\ t.listed /\ t.locked
<1>1. PICK home, g : Core(home, g, Now) /\ Shows(g)
  BY DEF PairInv, Pairing
<1>2. home[c] \in Leader /\ g[c] \in Stage /\ Own(c, home[c], g[c], Now)
  BY <1>1 DEF Core
<1>3. g[c] = "HELD"
  <2>1. StateOf(g[c]) = "LOCKED"
    BY <1>1 DEF Shows, IsLocked
  <2> QED BY <1>2, <2>1, Stages
<1>4. PICK t \in Ticket : Entry(Now.tickets[home[c]], c) = {t} /\ AtHome(t, home[c], "HELD")
  BY <1>2, <1>3 DEF Own, Keeps, Outside
<1>5. Now.tickets = tickets
  BY NowWorld DEF PairInv
<1>6. t \in tickets[home[c]] /\ t.client = c
  BY <1>4, <1>5 DEF Entry
<1>7. t.owner = home[c] /\ t.listed /\ t.locked
  BY <1>4 DEF AtHome, Late, Granted
<1> QED
  BY <1>2, <1>4, <1>6, <1>7

LEMMA PairsExclude == TwoLeaders /\ PairInv => MutualExclusion
<1> SUFFICES ASSUME TwoLeaders, PairInv, NEW c \in Client, NEW d \in Client, IsLocked(c), IsLocked(d),
                    c # d
             PROVE  FALSE
  BY DEF MutualExclusion
<1>1. PICK l \in Leader : \E t \in tickets[l] :
        t.client = c /\ t \in Ticket /\ t.owner = l /\ t.listed /\ t.locked
  BY HolderTicket
<1>2. PICK t \in tickets[l] : t.client = c /\ t \in Ticket /\ t.owner = l /\ t.listed /\ t.locked
  BY <1>1
<1>3. PICK k \in Leader : \E u \in tickets[k] :
        u.client = d /\ u \in Ticket /\ u.owner = k /\ u.listed /\ u.locked
  BY HolderTicket
<1>4. PICK u \in tickets[k] : u.client = d /\ u \in Ticket /\ u.owner = k /\ u.listed /\ u.locked
  BY <1>3
<1>5. InTurn
  BY PairsInTurn
<1>6. Before(KeyOf(t), KeyOf(u)) /\ Before(KeyOf(u), KeyOf(t))
  BY <1>2, <1>4, <1>5 DEF InTurn
<1>7. KeyOf(t) \in Key /\ KeyOf(u) \in Key
  BY <1>2, <1>4, KeyTypes
<1>8. Number \subseteq Nat /\ Client \subseteq Nat
  BY NumberAssumption, ClientAssumption DEF Number
<1>9. \A x \in Key : x.number \in Nat /\ x.client \in Nat
  BY <1>8 DEF Key
<1> QED
  BY <1>6, <1>7, <1>9 DEF Before

LEMMA PairsNoGhost == TwoLeaders /\ PairInv => NobodyWaitsForAGhost
<1> SUFFICES ASSUME TwoLeaders, PairInv, NEW l \in Leader, NEW t \in tickets[l],
                    t.listed, t.quorum, ~t.ready
             PROVE  \E p \in t.still : EnteringOf(Here(l), p.client) # {}
  BY DEF NobodyWaitsForAGhost
<1>1. PICK home, g : Core(home, g, Now)
  BY DEF PairInv, Pairing
<1>2. World(Now) /\ Now.tickets = tickets /\ t \in Ticket
  BY NowWorld DEF PairInv
<1>3. t.client \in Client /\ t \in Entry(tickets[l], t.client)
  BY <1>2 DEF Ticket, Entry
<1>4. home[t.client] \in Leader /\ g[t.client] \in Stage /\ Own(t.client, home[t.client], g[t.client], Now)
  BY <1>1, <1>3 DEF Core
<1>5. t.owner = l
  BY <1>2, <1>3, <1>4, Quorate
<1>6. t.still # {} /\ Queued(t, l, home, g, Now)
  BY <1>1, <1>2, <1>5, Waiting
<1>7. PICK p : p \in t.still
  BY <1>6
<1>8. PICK u \in Entry(tickets[l], p.client) : u.entering
  BY <1>2, <1>6, <1>7 DEF Queued, Held
<1>9. Here(l).tickets = tickets[l]
  BY DEF Here, Start
<1> QED
  BY <1>7, <1>8, <1>9 DEF EnteringOf, Entry

LEMMA PairsNothingLeft == TwoLeaders /\ PairInv => NothingLeft
<1> SUFFICES ASSUME TwoLeaders, PairInv, Settled, NEW l \in Leader, NEW t \in tickets[l],
                    client[t.client].state = "IDLE"
             PROVE  FALSE
  BY DEF NothingLeft
<1>1. PICK home, g : Core(home, g, Now) /\ Shows(g)
  BY DEF PairInv, Pairing
<1>2. Now.tickets = tickets /\ Now.net = net /\ t \in Ticket
  BY NowWorld DEF PairInv
<1> DEFINE c == t.client
<1>3. c \in Client /\ t \in Entry(tickets[l], c)
  BY <1>2 DEF Ticket, Entry
<1>4. home[c] \in Leader /\ g[c] \in Stage /\ Keeps(c, home[c], g[c], Now)
  BY <1>1, <1>3 DEF Core, Own
<1>5. g[c] = "IDLE"
  <2>1. StateOf(g[c]) = "IDLE"
    BY <1>1, <1>3 DEF Shows
  <2> QED BY <1>4, <2>1, Stages
<1>6. Rid(c, l, Now)
  <2>1. Rid(c, home[c], Now) /\ Rid(c, Other(home[c]), Now)
    BY <1>4, <1>5 DEF Keeps, Outside
  <2> QED BY <1>4, <2>1, OtherLeader
<1>7. ~Left(c, l, Now)
  <2>1. Other(l) \in Node
    BY OtherLeader DEF Node
  <2>2. net[Other(l)][l] = <<>>
    BY <2>1 DEF Settled
  <2> QED BY <1>2, <2>2 DEF Left, Lacks
<1> QED
  BY <1>2, <1>3, <1>6, <1>7 DEF Rid

\* Only who waits is told LOCKED.
LEMMA PairHears ==
  ASSUME TwoLeaders, PairInv, NEW c \in Client, NEW l \in Leader, HearLocked(c, l)
  PROVE  client[c].state = "LOCKING"
<1>1. PICK home, g : Core(home, g, Now) /\ Shows(g)
  BY DEF PairInv, Pairing
<1>2. Now.mail = mail
  BY NowWorld DEF PairInv
<1>3. mail[c][l] # <<>> /\ Head(mail[c][l]).type = "LOCKED"
  BY DEF HearLocked, Hears
<1>4. Talks(c, home[c], g[c], Now)
  BY <1>1 DEF Core, Own
<1>5. g[c] = "LOCKED"
  BY <1>2, <1>3, <1>4, TalksMail
<1> QED
  BY <1>1, <1>5 DEF Shows, StateOf

\* Of two leaders the one that grants the lock looks at its own table, and yet the ticket it
\* grants comes before all those of the other one: Ticket::max_ticket() numbers a ticket above
\* those of both tables, and whoever might still get a smaller number is in
\* f_still_entering (cluckd::msg_lock_exiting(), ticket::remove_entering()), for any number
\* of clients that lock again and again, with their messages as late as the timeouts allow.
THEOREM TwoLeadersInTurn ==
  ASSUME TwoLeaders
  PROVE  Spec => []InTurn
<1>1. PairInv => InTurn
  BY PairsInTurn
<1> QED
  BY AlwaysPairs, <1>1, PTL

\* With two leaders two processes never believe at the same time that they have the lock
\* ("by a single process running in a computer cluster of any size", cluck/cluck.cpp): each of
\* them has a locked ticket in the table of the leader that granted it (ticket::activate_lock()
\* and lock_activated()), which comes before all the others in turn.
THEOREM TwoLeadersExclude ==
  ASSUME TwoLeaders
  PROVE  Spec => []MutualExclusion
<1>1. PairInv => MutualExclusion
  BY PairsExclude
<1> QED
  BY AlwaysPairs, <1>1, PTL

\* A ticket waits for tickets that are still entering and no others: remove_entering() and the
\* LOCK_EXITING of the other leader take away the last reference to a ticket that has entered
\* or was dropped.
THEOREM TwoLeadersWaitForNoGhost ==
  ASSUME TwoLeaders
  PROVE  Spec => []NobodyWaitsForAGhost
<1>1. PairInv => NobodyWaitsForAGhost
  BY PairsNoGhost
<1> QED
  BY AlwaysPairs, <1>1, PTL

\* With nothing on its way no leader keeps a ticket of an idle client: each LOCK has one ticket
\* in each table, and the UNLOCK takes away the one and its DROP_TICKET the other
\* (cluckd::msg_unlock(), ticket::drop_ticket(), cluckd::msg_drop_ticket()), even where the
\* client sent its UNLOCK to the leader that did not grant it the lock.
THEOREM TwoLeadersLeaveNothing ==
  ASSUME TwoLeaders
  PROVE  Spec => []NothingLeft
<1>1. PairInv => NothingLeft
  BY PairsNothingLeft
<1> QED
  BY AlwaysPairs, <1>1, PTL

\* What the processes see of two leaders, of the fifteen kinds of messages and of their tickets
\* is the abstract lock: the LOCKED of ticket::lock_activated() is only heard by a client that
\* waits, when nobody else has the lock, and no step of a leader is seen.
THEOREM TwoLeadersImplementLock ==
  ASSUME TwoLeaders
  PROVE  Spec => ImplementsLock
<1>1. Init => Abstract!Init
  BY InitPhases
<1>2. PairInv => MutualExclusion
  BY PairsExclude
<1>3. PairInv /\ MutualExclusion /\ MutualExclusion' /\ [Next]_vars => [Abstract!Next]_Phases
  BY PairHears, NextMoves DEF PairInv
<1> QED
  BY AlwaysPairs, <1>1, <1>2, <1>3, PTL DEF Spec, ImplementsLock, Abstract!Spec, Phases

=============================================================================
