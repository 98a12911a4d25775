--------------------- MODULE CluckTwoLeaderNumberProofs ---------------------
(***************************************************************************)
(* Two leaders, two: the ticket of a request gets its number, and waits for*)
(* whoever might get before it.                                            *)
(***************************************************************************)
EXTENDS CluckTwoLeaderOpenProofs

-----------------------------------------------------------------------------
(* A number is chosen: LOCK_ENTERED, GET_MAX_TICKET, MAX_TICKET and        *)
(* ADD_TICKET.                                                             *)

\* A ticket with the quorum, in the table of its owner.
LEMMA Waiting ==
  ASSUME TwoLeaders, NEW home, NEW g, NEW v, Core(home, g, v), World(v), NEW k \in Leader,
         NEW t \in v.tickets[k], t.owner = k, t.quorum
  PROVE  /\ t.client \in Client /\ t \in Ticket /\ t.listed /\ t.rank = t.number
         /\ Entry(v.tickets[k], t.client) = {t}
         /\ t.ready <=> t.still = {}
         /\ t.locked => t.ready
         /\ Queued(t, k, home, g, v)
         /\ \/ Gone(t, k) /\ Left(t.client, k, v)
            \/ /\ k = home[t.client] /\ g[t.client] \in Late /\ AtHome(t, k, g[t.client])
               /\ Own(t.client, k, g[t.client], v)
<1> DEFINE e == t.client
<1>1. t \in Ticket /\ e \in Client /\ t \in Entry(v.tickets[k], e)
  BY DEF World, Ticket, Entry
<1> HIDE DEF e
<1>2. home[e] \in Leader /\ g[e] \in Stage /\ Own(e, home[e], g[e], v) /\ Waits(e, home, g, v)
  BY <1>1 DEF Core
<1>3. /\ Entry(v.tickets[k], e) = {t} /\ t.listed /\ t.rank = t.number /\ (t.locked => t.ready)
      /\ t.ready <=> t.still = {}
      /\ \/ Gone(t, k) /\ Left(e, k, v)
         \/ k = home[e] /\ g[e] \in Late /\ AtHome(t, home[e], g[e])
  BY <1>1, <1>2, Quorate
<1>4. Queued(t, k, home, g, v)
  BY <1>1, <1>2 DEF Waits
<1> QED
  BY <1>1, <1>2, <1>3, <1>4 DEF e

\* Client c goes after all those that wait and do not wait for c.
Counted(l, c, h, st, v, w) ==
  \A k \in Leader : \A t \in v.tickets[k] :
    t.client # c /\ t.owner = k /\ t.quorum /\ t.rank = t.number /\ c \notin Held(t) =>
      /\ Later(t, k, c, h, st, w)
      /\ \A u \in Entry(w.tickets[l], c) : u.listed =>
           \/ Before(KeyOf(t), KeyOf(u))
           \/ \E x \in Entry(v.tickets[l], c) : x.listed /\ KeyOf(x) = KeyOf(u)

LEMMA Counting ==
  ASSUME TwoLeaders, NEW l \in Leader, NEW c \in Client, NEW r, NEW v, NEW w, Acts(l, c, r, v, w),
         NEW home, NEW g, Core(home, g, v), NEW h \in Leader, NEW st \in Stage, Counted(l, c, h, st, v, w),
         (\E u \in Entry(v.tickets[l], c) : u.entering) => \E u \in Entry(w.tickets[l], c) : u.entering
  PROVE  Courteous(c, Home(home, c, h), To(g, c, st), v, w)
<1> DEFINE o == Other(l)
<1>1. Sides(l, o, c, v, w)
  BY OneWorld DEF Worlds
<1> HIDE DEF o
<1>2. ASSUME NEW k \in Leader, NEW t \in v.tickets[k], t.client # c, t.owner = k, t.quorum
      PROVE  Yields(t, k, c, h, st, v, w)
  <2>1. World(v)
    BY <1>1 DEF Sides
  <2>2. t.rank = t.number /\ (t.ready <=> t.still = {}) /\ Queued(t, k, home, g, v)
    BY <1>2, <2>1, Waiting
  <2>3. c \in Held(t) \/ Later(t, k, c, h, st, w)
    BY <1>2, <2>2 DEF Counted
  <2>4. c \in Held(t) => \E u \in Entry(w.tickets[k], c) : u.entering
    BY <1>1, <2>2 DEF Queued, Sides
  <2>5. ASSUME t.ready PROVE Fair(t, c, v, w)
    <3>1. c \notin Held(t)
      BY <2>2, <2>5 DEF Held
    <3>2. \A u \in Entry(w.tickets[l], c) : u.listed =>
           \/ Before(KeyOf(t), KeyOf(u))
           \/ \E x \in Entry(v.tickets[l], c) : x.listed /\ KeyOf(x) = KeyOf(u)
      BY <1>2, <2>2, <3>1 DEF Counted
    <3> QED BY <1>1, <3>2 DEF Fair, Sides
  <2> QED BY <2>3, <2>4, <2>5 DEF Yields
<1>3. Home(home, c, h)[c] = h /\ To(g, c, st)[c] = st
  BY Going DEF Core
<1> QED
  BY <1>2, <1>3 DEF Courteous

\* No number in table S is above n.
Over(S, n) == \A x \in S : x.listed => x.number <= n

\* The number of the home's table is above those that wait, at least when they arrive.
LEMMA AboveAll ==
  ASSUME TwoLeaders, NEW home, NEW g, NEW v, Core(home, g, v), World(v),
         NEW l \in Leader, NEW o \in Leader, l # o, NEW n, Over(v.tickets[l], n),
         NEW k \in Leader, NEW t \in v.tickets[k], t.owner = k, t.quorum
  PROVE  t.number <= n \/ (k = o /\ Left(t.client, o, v))
<1>1. Leader = {l, o} /\ Other(o) = l
  BY OtherLeader
<1>2. CASE k = l
  <2>1. t.listed
    BY Waiting
  <2> QED BY <1>2, <2>1 DEF Over
<1>3. CASE k = o
  <2> DEFINE e == t.client
  <2>1. /\ e \in Client /\ Entry(v.tickets[o], e) = {t}
        /\ Left(e, o, v) \/ (o = home[e] /\ g[e] \in Late /\ Own(e, o, g[e], v))
    BY <1>3, Waiting
  <2> HIDE DEF e
  <2>2. ASSUME g[e] \in Late, Own(e, o, g[e], v) PROVE t.number <= n
    <3>1. g[e] \notin Outside \cup Opening
      BY <2>2 DEF Late, Granted, Outside, Opening
    <3>2. PICK x, y \in Ticket : /\ Entry(v.tickets[o], e) = {x} /\ Entry(v.tickets[l], e) = {y}
                                 /\ AtOther(y, o, g[e]) /\ x.number = y.number
      <4>1. Keeps(e, o, g[e], v)
        BY <2>2 DEF Own
      <4> DEFINE st == g[e]
      <4>2. st \notin Outside \cup Opening /\ Keeps(e, o, st, v) /\ st \in Late
        BY <2>2, <3>1, <4>1
      <4> HIDE DEF st
      <4>3. \E x, y \in Ticket :
              /\ Entry(v.tickets[o], e) = {x} /\ AtHome(x, o, st)
              /\ Lacks(v.net[o][Other(o)], {m \in Of(e, {"ADD_TICKET"}) : m.key # KeyOf(x)})
              /\ Entry(v.tickets[Other(o)], e) = {y} /\ AtOther(y, o, st)
              /\ st \in {"TICKET_ADDED"} \cup Late => x.number = y.number
        BY <4>2, KeptInside, ZenonT(60)
      <4> QED BY <1>1, <4>2, <4>3 DEF st
    <3>3. t = x
      BY <2>1, <3>2
    <3>4. y \in v.tickets[l] /\ y.listed
      BY <2>2, <3>2 DEF Entry, AtOther
    <3> QED BY <3>2, <3>3, <3>4 DEF Over
  <2> QED BY <1>3, <2>1, <2>2 DEF e
<1> QED
  BY <1>1, <1>2, <1>3

\* The ticket t with the number n to begin with.
Asked(t, n) == [t EXCEPT !.maxAsked = TRUE, !.number = n]

\* The home asks for the other leader's largest number, its own being that of u.
LEMMA NumberAsked ==
  ASSUME TwoLeaders, NEW l \in Leader, NEW c \in Client, NEW v, NEW w,
         NEW m \in Of(c, {"GET_MAX_TICKET"}), Acts(l, c, <<m>>, v, w), Quiet(c, v), w.mail[c] = v.mail[c],
         NEW home, NEW g, Core(home, g, v), Own(c, l, "LOCK_ENTERED", v),
         \A e \in Client \ {c} : Quits(e, home[e], g[e], v),
         Lacks(v.net[Other(l)][l], Grants(c)),
         NEW t, Entry(v.tickets[l], c) = {t}, NEW u \in Ticket, Entry(w.tickets[l], c) = {u},
         NEW n, u = Asked(t, n), Over(v.tickets[l], n)
  PROVE  Pairing(Home(home, c, l), To(g, c, "GET_MAX_TICKET"), w)
<1> DEFINE o == Other(l)
           st == "GET_MAX_TICKET"
<1>0. "GET_MAX_TICKET" \in Down
  BY DEF Down
<1>1. Wired(l, o, c, m, "GET_MAX_TICKET", v, w) /\ Posts(l, o, l, c, m, "GET_MAX_TICKET", v, w)
  <2>1. \A k \in Leader : Once(v.net[k][Other(k)], Drops(c))
    BY DEF Own, Moves
  <2> QED BY <1>0, <2>1, PostsSome
<1>2. Sides(l, o, c, v, w) /\ Other(l) = o /\ Other(o) = l /\ Lacks(v.net[o][l], Grants(c))
  BY <1>1 DEF Posts, Sides
<1> HIDE DEF o
<1>3. /\ Talks(c, l, st, w) /\ Moves(c, l, st, w)
      /\ Left(c, l, w) <=> Left(c, l, v)
      /\ Left(c, o, w) <=> Left(c, o, v)
  BY <1>1 DEF Posts
<1>4. /\ ~Left(c, l, v) /\ ~Left(c, o, v) /\ AtHome(t, l, "LOCK_ENTERED") /\ t \in Ticket
      /\ \E y \in Ticket : Entry(v.tickets[o], c) = {y} /\ AtOther(y, l, "LOCK_ENTERED")
  <2>1. "LOCK_ENTERED" \notin Outside \cup Opening
    BY DEF Outside, Opening
  <2>2. /\ ~Left(c, l, v) /\ ~Left(c, o, v)
        /\ \E x, y \in Ticket : /\ Entry(v.tickets[l], c) = {x} /\ AtHome(x, l, "LOCK_ENTERED")
                                /\ Entry(v.tickets[o], c) = {y} /\ AtOther(y, l, "LOCK_ENTERED")
    BY <1>2, <2>1, KeptInside DEF Own
  <2> QED BY <2>2
<1>5. PICK y \in Ticket : Entry(v.tickets[o], c) = {y} /\ AtOther(y, l, "LOCK_ENTERED")
  BY <1>4
<1>6. Keeps(c, l, st, w)
  <2>1. AtHome(u, l, st)
    <3>1. /\ u.owner = t.owner /\ u.entering = t.entering /\ u.listed = t.listed /\ u.maxAsked
          /\ u.added = t.added /\ u.quorum = t.quorum /\ u.locked = t.locked /\ u.ready = t.ready
          /\ u.still = t.still
      BY <1>4 DEF Ticket, Asked
    <3>2. ~t.listed /\ t.entering /\ ~t.quorum /\ ~t.locked /\ t.owner = l /\ ~t.added /\ ~t.ready
      BY <1>4 DEF AtHome, Late, Granted
    <3> QED BY <3>1, <3>2 DEF AtHome, Opening, Late, Granted
  <2>2. AtOther(y, l, st)
    BY <1>5 DEF AtOther, Choosing, Late, Granted
  <2>3. Lacks(w.net[l][o], {x \in Of(c, {"ADD_TICKET"}) : x.key # KeyOf(u)})
    <3> DEFINE Z == {x \in Of(c, {"ADD_TICKET"}) : x.key # KeyOf(u)}
    <3>1. Lacks(v.net[l][o], Z) /\ m \notin Z
      BY <1>1 DEF Wired, Free, Lacks, Of, Steps, Down
    <3> HIDE DEF Z
    <3>2. Lacks(w.net[l][o], Z)
      BY <1>1, <3>1 DEF Wired
    <3> QED BY <3>2 DEF Z
  <2>4. st \notin {"TICKET_ADDED"} \cup Late /\ st \notin Outside \cup Opening
    BY DEF Late, Granted, Outside, Opening
  <2>5. Entry(w.tickets[o], c) = {y} /\ ~Left(c, l, w) /\ ~Left(c, o, w)
    BY <1>2, <1>3, <1>4, <1>5 DEF Sides
  <2> QED BY <1>2, <2>1, <2>2, <2>3, <2>4, <2>5, KeepsInside
<1>7. InOrder(c, l, st, w)
  <2>1. Lacks(v.net[l][o], Grants(c))
    BY <1>2 DEF Own, InOrder
  <2>2. Lacks(w.net[l][o], Grants(c)) /\ Lacks(w.net[o][l], Grants(c))
    BY <1>1, <1>2, <2>1 DEF Wired
  <2> QED BY <1>2, <2>2 DEF InOrder
<1>8. Own(c, l, st, w) /\ st \in Stage \ Late
  BY <1>3, <1>6, <1>7 DEF Own, Stage, Choosing, Late, Granted
<1>9. ~u.listed /\ ~u.quorum /\ u.entering
  BY <1>4 DEF AtHome, Ticket, Late, Granted, Asked
<1>10. Counted(l, c, l, st, v, w)
  <2> SUFFICES ASSUME NEW k \in Leader, NEW x \in v.tickets[k], x.client # c, x.owner = k, x.quorum
               PROVE  Later(x, k, c, l, st, w)
    BY <1>9 DEF Counted
  <2>1. World(v) /\ o \in Leader /\ l # o
    BY <1>2 DEF Sides
  <2>2. x.number <= u.number \/ (k = o /\ Left(x.client, o, v))
    <3>1. x.number <= n \/ (k = o /\ Left(x.client, o, v))
      BY <2>1, AboveAll
    <3>2. u.number = n
      BY <1>4 DEF Ticket, Asked
    <3> QED BY <3>1, <3>2
  <2>3. x.number \in Nat /\ u.number \in Nat
    <3>1. x \in Ticket
      BY <2>1 DEF World
    <3>2. Number \subseteq Nat
      BY NumberAssumption DEF Number
    <3>3. x.number \in Number /\ u.number \in Number
      BY <3>1 DEF Ticket
    <3> QED BY <3>2, <3>3
  <2>4. ASSUME k = o, Left(x.client, o, v) PROVE Led(w.net[l][k], Drops(x.client), Of(c, {st}))
    <3>1. Wires(l, o, <<m>>, v, w)
      BY OneWorld DEF Worlds, o
    <3>2. ~Lacks(v.net[l][o], Drops(x.client))
      BY <1>2, <2>4 DEF Left
    <3>3. Lacks(v.net[l][o], Of(c, {st}))
      BY <1>1 DEF Wired, Free, Lacks, Of, Steps, Down
    <3>4. Led(v.net[l][o], Drops(x.client), Of(c, {st}))
      BY <3>3, LacksLed
    <3> DEFINE r == <<m>>
    <3>5. Wires(l, o, r, v, w)
      BY <3>1
    <3> HIDE DEF r
    <3> QED BY <2>4, <3>2, <3>4, <3>5, LedJoin DEF Wires
  <2>5. \A z \in Entry(w.tickets[l], c) : z = u
    OBVIOUS
  <2> QED BY <2>1, <2>2, <2>3, <2>4, <2>5 DEF Later
<1>11. Courteous(c, Home(home, c, l), To(g, c, st), v, w)
  BY <1>8, <1>9, <1>10, Counting
<1>12. \A z \in Entry(w.tickets[l], c) : z.quorum /\ z.owner = l => z \in v.tickets[l]
  BY <1>9
<1> QED
  BY <1>8, <1>11, <1>12, EarlyTo

\* The tickets t and y of the request of c, in the table of its home h and of the other leader o.
Both(t, y, c, h, o, st, w) ==
  /\ t \in Ticket /\ y \in Ticket /\ t.client = c /\ y.client = c
  /\ ~Left(c, h, w) /\ ~Left(c, o, w)
  /\ Entry(w.tickets[h], c) = {t} /\ AtHome(t, h, st)
  /\ Lacks(w.net[h][o], {m \in Of(c, {"ADD_TICKET"}) : m.key # KeyOf(t)})
  /\ Entry(w.tickets[o], c) = {y} /\ AtOther(y, h, st)
  /\ st \in {"TICKET_ADDED"} \cup Late => t.number = y.number

LEMMA Inside ==
  ASSUME NEW c, NEW h, NEW w, NEW st, st \notin Outside \cup Opening, Keeps(c, h, st, w)
  PROVE  \E t, y : Both(t, y, c, h, Other(h), st, w)
<1>1. PICK x \in Ticket :
        /\ Entry(w.tickets[h], c) = {x} /\ AtHome(x, h, st)
        /\ Lacks(w.net[h][Other(h)], {m \in Of(c, {"ADD_TICKET"}) : m.key # KeyOf(x)})
  BY DEF Keeps
<1>2. PICK y \in Ticket :
        /\ Entry(w.tickets[Other(h)], c) = {y} /\ AtOther(y, h, st)
        /\ st \in {"TICKET_ADDED"} \cup Late => \A u \in Entry(w.tickets[h], c) : u.number = y.number
  BY DEF Keeps
<1>3. x.client = c /\ y.client = c
  BY <1>1, <1>2 DEF Entry
<1>4. ~Left(c, h, w) /\ ~Left(c, Other(h), w)
  BY DEF Keeps
<1>5. st \in {"TICKET_ADDED"} \cup Late => x.number = y.number
  BY <1>1, <1>2
<1>6. Both(x, y, c, h, Other(h), st, w)
  BY <1>1, <1>2, <1>3, <1>4, <1>5, Zenon DEF Both
<1> QED
  BY <1>6

LEMMA BothKeeps ==
  ASSUME NEW c, NEW h, NEW o, o = Other(h), NEW w, NEW st, st \notin Outside \cup Opening,
         NEW t, NEW y, Both(t, y, c, h, o, st, w)
  PROVE  Keeps(c, h, st, w)
<1>1. /\ ~Left(c, h, w) /\ ~Left(c, Other(h), w)
      /\ Entry(w.tickets[h], c) = {t} /\ AtHome(t, h, st) /\ t \in Ticket
      /\ Lacks(w.net[h][Other(h)], {m \in Of(c, {"ADD_TICKET"}) : m.key # KeyOf(t)})
      /\ Entry(w.tickets[Other(h)], c) = {y} /\ AtOther(y, h, st) /\ y \in Ticket
      /\ st \in {"TICKET_ADDED"} \cup Late => t.number = y.number
  BY Zenon DEF Both
<1> QED
  BY <1>1, KeepsInside, Zenon

\* The only ticket of c in a table is found, or not, by what it is.
LEMMA Lookup ==
  ASSUME NEW D, NEW c, NEW t, t.client = c, Entry(D.tickets, c) = {t}
  PROVE  /\ EnteringOf(D, c) = IF t.entering THEN {t} ELSE {}
         /\ ListedOf(D, c) = IF t.listed THEN {t} ELSE {}
         /\ \A k : k.client = c => ListedAs(D, k) = IF t.listed /\ KeyOf(t) = k THEN {t} ELSE {}
         /\ One({t}) = t /\ t \in D.tickets
<1>1. \A x : x \in D.tickets /\ x.client = c <=> x = t
  BY DEF Entry
<1>2. \A k : k.client = c => ListedAs(D, k) = IF t.listed /\ KeyOf(t) = k THEN {t} ELSE {}
  <2> SUFFICES ASSUME NEW k, k.client = c
               PROVE  ListedAs(D, k) = IF t.listed /\ KeyOf(t) = k THEN {t} ELSE {}
    OBVIOUS
  <2>1. \A x : KeyOf(x) = k => x.client = c
    BY DEF KeyOf
  <2> QED BY <1>1, <2>1 DEF ListedAs
<1> QED
  BY <1>1, <1>2 DEF EnteringOf, ListedOf, One


\* What was sent before the message that is read has been read.
LEMMA Drained ==
  ASSUME TypeInv, NEW l \in Leader, NEW o \in Leader, NEW v, Read(v, o, l, o), net[o][l] # <<>>,
         NEW A, NEW B, Head(net[o][l]) \in B, Ahead(net[o][l], A, B)
  PROVE  Lacks(v.net[o][l], A)
<1> DEFINE q == net[o][l]
<1>1. q \in Seq(Message) /\ q # <<>> /\ Head(q) \in B /\ Ahead(q, A, B)
  BY DEF TypeInv, TypeOK, Node
<1>2. v.net[o][l] = Tail(q)
  BY DEF Read
<1> HIDE DEF q
<1>3. Lacks(q, A)
  BY <1>1, AheadRead
<1> QED
  BY <1>1, <1>2, <1>3, LacksTail

\* A ticket that changes its number.
LEMMA Renumbered ==
  ASSUME NEW t \in Ticket, NEW n \in Number
  PROVE  /\ Asked(t, n) \in Ticket /\ Asked(t, n).number = n
         /\ Asked(t, n).client = t.client /\ Asked(t, n).listed = t.listed
         /\ Asked(t, n).entering = t.entering
         /\ t \in Punctual => Asked(t, n) \in Punctual
BY DEF Ticket, KeyOf, Punctual, Asked

LEMMA EntersAsked ==
  ASSUME NEW D, NEW t, ~t.maxAsked, ~OneLeader(D)
  PROVE  Entered(D, t) = SendToLeaders(Update(D, t, Asked(t, LastTicket(D))),
                                       Msg("GET_MAX_TICKET", EnteringKey(t.client)))
BY Zenon DEF Entered, Asked

LEMMA PairsLockEntered ==
  ASSUME TwoLeaders, TypeInv, Timely, NEW home, NEW g, Pairing(home, g, Now),
         NEW s \in Node, NEW l \in Leader, MsgLockEntered(s, l)
  PROVE  Advances(s, l, home, g)
<1> DEFINE m == Head(net[s][l])
           c == m.key.client
           o == Other(l)
           D == Here(l)
           v == After(s, l, D)
           S == tickets[l]
           n == LastTicket(D)
           x == Msg("GET_MAX_TICKET", EnteringKey(c))
<1>1. net[s][l] # <<>> /\ m.type = "LOCK_ENTERED"
  BY DEF MsgLockEntered, Arrived
<1>2. Begins("LOCK_ENTERED", m, c, s, l, l, home, g, v) /\ o = s
  <2>1. "LOCK_ENTERED" \in Up
    BY DEF Up
  <2> QED BY <1>1, <2>1, UpBegins
<1>3. o \in Leader /\ Other(l) = o /\ Other(o) = l
  BY OtherLeader
<1> HIDE DEF m, o
<1>4. /\ c \in Client /\ g[c] = "LOCK_ENTERED" /\ home \in [Client -> Leader] /\ g \in [Client -> Stage]
      /\ Core(home, g, v) /\ Quiet(c, v) /\ Own(c, l, "LOCK_ENTERED", v) /\ v.tickets[l] = S
      /\ m \in Of(c, {"LOCK_ENTERED"})
      /\ \A e \in Client \ {c} : Quits(e, home[e], g[e], v)
  BY <1>2 DEF Begins
<1>5. Lacks(v.net[o][l], Grants(c))
  <2>1. Own(c, l, "LOCK_ENTERED", Now) /\ Read(v, o, l, o)
    BY <1>2, <1>3 DEF Begins
  <2>2. Ahead(net[o][l], Grants(c), Of(c, {"LOCK_ENTERED"}))
    BY <1>3, <2>1 DEF Own, InOrder, Now
  <2>3. net[o][l] # <<>> /\ Head(net[o][l]) \in Of(c, {"LOCK_ENTERED"})
    BY <1>1, <1>2, <1>4 DEF m
  <2> HIDE DEF v, c
  <2> QED BY <1>3, <2>1, <2>2, <2>3, Drained
<1>6. PICK t, y : Both(t, y, c, l, o, "LOCK_ENTERED", v)
  <2>1. "LOCK_ENTERED" \notin Outside \cup Opening /\ Keeps(c, l, "LOCK_ENTERED", v)
    BY <1>4 DEF Outside, Opening, Own
  <2> HIDE DEF v, c
  <2>2. \E t, y : Both(t, y, c, l, Other(l), "LOCK_ENTERED", v)
    BY <2>1, Inside
  <2> QED BY <1>3, <2>2
<1>7. Prompt(l, D) /\ D.tickets = S /\ D.tickets \subseteq Ticket /\ D.tickets \subseteq Punctual
  <2>1. Prompt(l, D) /\ D.tickets = S
    BY HerePrompt
  <2> HIDE DEF D
  <2> QED BY <2>1, PromptTickets DEF Prompt
<1>8. Carries(l, D, S, <<>>, c, <<>>)
  BY <1>4, CarriesHere
<1> HIDE DEF v
<1>9. /\ t \in Ticket /\ t.client = c /\ Entry(S, c) = {t} /\ AtHome(t, l, "LOCK_ENTERED")
      /\ t.entering /\ ~t.listed /\ ~t.maxAsked
  BY <1>4, <1>6 DEF Both, AtHome, Late, Granted
<1> HIDE DEF c, D, S
<1>10. EnteringOf(D, c) = {t} /\ One({t}) = t /\ t \in D.tickets
  BY <1>7, <1>9, Lookup
<1>11. n \in Number /\ Over(S, n)
  BY <1>7, LastTicketType DEF Over, Listed
<1> DEFINE u == Asked(t, n)
           E == Update(D, t, u)
           F == SendToLeaders(E, x)
           T == Put(S, c, u)
           w == After(s, l, F)
<1>12. u = Asked(t, n)
  OBVIOUS
<1>13. x \in InTime /\ x \in Of(c, {"GET_MAX_TICKET"}) /\ Lacks(<<x>>, Apart(c)) /\ <<x>> \in Seq(Message)
  <2> DEFINE key == EnteringKey(c)
  <2>1. key \in Key /\ key.client = c /\ c \in Client
    BY <1>4, KeyTypes DEF EnteringKey
  <2> HIDE DEF key
  <2> QED BY <2>1, Posting DEF key
<1>14. Entered(D, t) = F
  <2>1. ~OneLeader(D)
    BY <1>7, PromptTickets
  <2>2. Entered(D, t) = SendToLeaders(Update(D, t, Asked(t, LastTicket(D))),
                                      Msg("GET_MAX_TICKET", EnteringKey(t.client)))
    BY <1>9, <2>1, EntersAsked
  <2> QED BY <1>9, <2>2
<1> HIDE DEF u, x
<1>15. /\ u \in Ticket /\ u.number = n /\ u.client = c /\ ~u.listed /\ u.entering /\ u \in Punctual
  <2> HIDE DEF n
  <2>1. /\ u \in Ticket /\ u.number = n
        /\ u.client = t.client /\ u.listed = t.listed /\ u.entering = t.entering
        /\ t \in Punctual => u \in Punctual
    BY <1>9, <1>11, <1>12, Renumbered
  <2> QED BY <1>7, <1>9, <1>10, <2>1
<1> HIDE DEF n
<1>16. Carries(l, F, T, <<x>>, c, <<>>)
  <2>1. Carries(l, E, T, <<>>, c, <<>>)
    BY <1>8, <1>9, <1>15, CarriesUpdate
  <2> HIDE DEF E
  <2> QED BY <1>13, <2>1, CarriesSend
<1>20. Prompt(l, F)
  BY <1>16 DEF Carries
<1> HIDE DEF F
<1>21. Done(s, l, F)
  BY <1>10, <1>14, Zenon DEF MsgLockEntered, Received, m, c, D
<1>22. Entry(T, c) = {u} /\ \A e \in Client \ {c} : Entry(T, e) = Entry(S, e)
  <2>1. Entry(T, c) = IF u.entering \/ u.listed THEN {u} ELSE {}
    BY <1>15, PutEntry, Zenon
  <2>2. ASSUME NEW e \in Client \ {c} PROVE Entry(T, e) = Entry(S, e)
    BY <1>15 DEF Put, Entry
  <2> QED BY <1>15, <2>1, <2>2
<1> HIDE DEF T
<1>17. Acts(l, c, <<x>>, v, w) /\ w.tickets[l] = T /\ w.mail[c] = v.mail[c]
  <2>1. Handles(v, w, l, c, <<x>>, T, <<>>)
    BY <1>1, <1>4, <1>13, <1>16, <1>22, Handled DEF v, D, S
  <2> QED BY <2>1 DEF Handles
<1> HIDE DEF w
<1>18. Pairing(Home(home, c, l), To(g, c, "GET_MAX_TICKET"), w)
  <2>1. /\ Lacks(v.net[Other(l)][l], Grants(c)) /\ Entry(v.tickets[l], c) = {t}
        /\ Entry(w.tickets[l], c) = {u} /\ Over(v.tickets[l], n)
    BY <1>3, <1>4, <1>5, <1>9, <1>11, <1>17, <1>22
  <2> QED BY <1>4, <1>12, <1>13, <1>15, <1>17, <2>1, NumberAsked
<1>19. "GET_MAX_TICKET" \in Stage /\ StateOf("GET_MAX_TICKET") = StateOf(g[c])
  BY <1>4 DEF Stage, StateOf, Choosing
<1> QED
  BY <1>4, <1>18, <1>19, <1>20, <1>21, Settles DEF w

\* The number that client c has at its home is not below those of the tickets that wait.
Ranked(c, h, w) ==
  \A k \in Leader : \A t \in w.tickets[k] : t.client # c /\ t.owner = k /\ t.quorum /\ c \notin Held(t) =>
    \A u \in Entry(w.tickets[h], c) : u.number >= t.number

\* It is not when the other leader is asked for its largest number.
LEMMA RankedAsked ==
  ASSUME TwoLeaders, TypeInv, NEW home, NEW g, Core(home, g, Now), NEW l \in Leader, NEW o \in Leader,
         o # l, NEW c \in Client, net[o][l] # <<>>, Head(net[o][l]) \in Of(c, {"GET_MAX_TICKET"}),
         home[c] = o, g[c] = "GET_MAX_TICKET"
  PROVE  Ranked(c, o, Now)
<1>1. World(Now) /\ Now.tickets = tickets
  BY NowWorld
<1> SUFFICES ASSUME NEW k \in Leader, NEW t \in tickets[k], t.client # c, t.owner = k, t.quorum,
                    c \notin Held(t), NEW u \in Entry(tickets[o], c), ~(u.number >= t.number)
             PROVE  FALSE
  BY <1>1 DEF Ranked
<1>2. Later(t, k, c, o, "GET_MAX_TICKET", Now)
  <2>1. Queued(t, k, home, g, Now)
    BY <1>1, Waiting
  <2> QED BY <2>1 DEF Queued
<1>3. k # o /\ Led(net[o][k], Drops(t.client), Of(c, {"GET_MAX_TICKET"}))
  BY <1>1, <1>2 DEF Later, Now
<1>4. k = l
  <2>1. Leader = {l, Other(l)}
    BY OtherLeader
  <2> QED BY <1>3, <2>1
<1> DEFINE q == net[o][l]
<1>5. q \in Seq(Message) /\ q # <<>> /\ Head(q) \in Of(c, {"GET_MAX_TICKET"})
      /\ Led(q, Drops(t.client), Of(c, {"GET_MAX_TICKET"}))
  BY <1>3, <1>4 DEF TypeInv, TypeOK, Node
<1> HIDE DEF q
<1> QED
  BY <1>5, LedRead

\* The other leader answers.
LEMMA MaxAnswered ==
  ASSUME TwoLeaders, NEW l \in Leader, NEW c \in Client, NEW v, NEW w,
         NEW m \in Of(c, {"MAX_TICKET"}), Acts(l, c, <<m>>, v, w), Quiet(c, v), w.mail[c] = v.mail[c],
         NEW home, NEW g, Core(home, g, v), Own(c, Other(l), "GET_MAX_TICKET", v),
         \A e \in Client \ {c} : Quits(e, home[e], g[e], v),
         w.tickets[l] = v.tickets[l], Ranked(c, Other(l), v)
  PROVE  Pairing(Home(home, c, Other(l)), To(g, c, "MAX_TICKET"), w)
<1> DEFINE o == Other(l)
<1>0. "MAX_TICKET" \in Up
  BY DEF Up
<1>1. Wired(l, o, c, m, "MAX_TICKET", v, w) /\ Posts(l, o, o, c, m, "MAX_TICKET", v, w)
  <2>1. \A k \in Leader : Once(v.net[k][Other(k)], Drops(c))
    BY DEF Own, Moves
  <2> QED BY <1>0, <2>1, PostsSome
<1>2. Own(c, o, "GET_MAX_TICKET", v) /\ Ranked(c, o, v)
  OBVIOUS
<1>3. Sides(l, o, c, v, w) /\ Other(l) = o /\ Other(o) = l
  BY <1>1 DEF Posts, Sides
<1> HIDE DEF o
<1>4. /\ Talks(c, o, "MAX_TICKET", w) /\ Moves(c, o, "MAX_TICKET", w)
      /\ Left(c, l, w) <=> Left(c, l, v)
      /\ Left(c, o, w) <=> Left(c, o, v)
  BY <1>1 DEF Posts
<1>5. PICK t, y : Both(t, y, c, o, l, "GET_MAX_TICKET", v)
  <2>1. "GET_MAX_TICKET" \notin Outside \cup Opening /\ Keeps(c, o, "GET_MAX_TICKET", v)
    BY <1>2 DEF Outside, Opening, Own
  <2>2. \E t, y : Both(t, y, c, o, Other(o), "GET_MAX_TICKET", v)
    BY <2>1, Inside
  <2> QED BY <1>3, <2>2
<1>6. Both(t, y, c, o, l, "MAX_TICKET", w)
  <2>1. AtHome(t, o, "MAX_TICKET") /\ AtOther(y, o, "MAX_TICKET")
    BY <1>5 DEF Both, AtHome, AtOther, Opening, Choosing, Late, Granted
  <2>2. Lacks(w.net[o][l], {x \in Of(c, {"ADD_TICKET"}) : x.key # KeyOf(t)})
    BY <1>1, <1>5 DEF Wired, Both
  <2>3. Entry(w.tickets[o], c) = {t} /\ Entry(w.tickets[l], c) = {y}
    BY <1>3, <1>5 DEF Both, Sides
  <2>4. "MAX_TICKET" \notin {"TICKET_ADDED"} \cup Late
    BY DEF Late, Granted
  <2> QED BY <1>4, <1>5, <2>1, <2>2, <2>3, <2>4 DEF Both
<1>7. Keeps(c, o, "MAX_TICKET", w)
  <2>1. "MAX_TICKET" \notin Outside \cup Opening
    BY DEF Outside, Opening
  <2> QED BY <1>3, <1>6, <2>1, BothKeeps
<1>8. InOrder(c, o, "MAX_TICKET", w)
  <2>1. Lacks(v.net[l][o], Grants(c)) /\ Lacks(v.net[o][l], Grants(c))
    BY <1>2, <1>3 DEF Own, InOrder, Choosing
  <2>2. Lacks(w.net[l][o], Grants(c)) /\ Lacks(w.net[o][l], Grants(c))
    BY <1>1, <2>1 DEF Wired
  <2> QED BY <1>3, <2>2 DEF InOrder
<1>9. Own(c, o, "MAX_TICKET", w) /\ "MAX_TICKET" \in Stage \ Late /\ o \in Leader
  BY <1>3, <1>4, <1>7, <1>8 DEF Own, Stage, Choosing, Late, Granted, Sides
<1>10. Counted(l, c, o, "MAX_TICKET", v, w)
  <2> SUFFICES ASSUME NEW k \in Leader, NEW x \in v.tickets[k], x.client # c, x.owner = k, x.quorum,
                      c \notin Held(x)
               PROVE  Later(x, k, c, o, "MAX_TICKET", w)
    BY DEF Counted
  <2>1. \A u \in Entry(w.tickets[o], c) : u.number >= x.number
    BY <1>2, <1>3 DEF Ranked, Sides
  <2> QED BY <2>1 DEF Later
<1>11. Courteous(c, Home(home, c, o), To(g, c, "MAX_TICKET"), v, w)
  BY <1>9, <1>10, Counting
<1>12. \A z \in Entry(w.tickets[l], c) : z.quorum /\ z.owner = l => z \in v.tickets[l]
  BY DEF Entry
<1>13. Pairing(Home(home, c, o), To(g, c, "MAX_TICKET"), w)
  BY <1>9, <1>11, <1>12, EarlyTo
<1> QED
  BY <1>13 DEF o

LEMMA PairsGetMaxTicket ==
  ASSUME TwoLeaders, TypeInv, Timely, NEW home, NEW g, Pairing(home, g, Now),
         NEW s \in Node, NEW l \in Leader, MsgGetMaxTicket(s, l)
  PROVE  Advances(s, l, home, g)
<1> DEFINE m == Head(net[s][l])
           c == m.key.client
           o == Other(l)
           D == Here(l)
           v == After(s, l, D)
           S == tickets[l]
           n == LastTicket(D)
           x == [Msg("MAX_TICKET", m.key) EXCEPT !.value = n]
           F == Tell(D, s, x)
           w == After(s, l, F)
<1>1. net[s][l] # <<>> /\ m.type = "GET_MAX_TICKET"
  BY DEF MsgGetMaxTicket, Arrived
<1>2. Begins("GET_MAX_TICKET", m, c, s, l, o, home, g, v) /\ o = s
  <2>1. "GET_MAX_TICKET" \in Down
    BY DEF Down
  <2> QED BY <1>1, <2>1, DownBegins
<1>3. o \in Leader /\ Other(l) = o /\ Other(o) = l /\ o # l
  BY OtherLeader
<1> HIDE DEF m, o
<1>4. /\ c \in Client /\ g[c] = "GET_MAX_TICKET" /\ home \in [Client -> Leader] /\ g \in [Client -> Stage]
      /\ Core(home, g, v) /\ Quiet(c, v) /\ Own(c, o, "GET_MAX_TICKET", v) /\ v.tickets[l] = S
      /\ v.tickets[o] = tickets[o] /\ home[c] = o
      /\ m \in Of(c, {"GET_MAX_TICKET"}) /\ m.key \in Key
      /\ \A e \in Client \ {c} : Quits(e, home[e], g[e], v)
  BY <1>2, <1>3 DEF Begins
<1>5. Ranked(c, o, v)
  <2>1. net[o][l] # <<>> /\ Head(net[o][l]) \in Of(c, {"GET_MAX_TICKET"})
    BY <1>1, <1>2, <1>4 DEF m
  <2>2. Core(home, g, Now)
    BY DEF Pairing
  <2> HIDE DEF v, c
  <2>3. Ranked(c, o, Now)
    BY <1>3, <1>4, <2>1, <2>2, RankedAsked
  <2>4. \A k \in Leader : v.tickets[k] = Now.tickets[k]
    BY <1>3, <1>4, OtherLeader DEF Now
  <2> QED BY <1>3, <2>3, <2>4 DEF Ranked
<1>6. Prompt(l, D) /\ D.tickets = S /\ D.tickets \subseteq Ticket /\ Cleanup(D) = D
  <2>1. Prompt(l, D) /\ D.tickets = S
    BY HerePrompt
  <2> HIDE DEF D
  <2> QED BY <2>1, PromptTickets, NothingExpires
<1>7. Carries(l, D, S, <<>>, c, <<>>)
  BY <1>4, CarriesHere
<1>8. m.key.client = c
  OBVIOUS
<1> HIDE DEF v, c, D, S
<1>9. n \in Nat
  BY <1>6, LastTicketType, NumberAssumption DEF Number
<1>10. x \in InTime /\ x \in Of(c, {"MAX_TICKET"}) /\ Lacks(<<x>>, Apart(c)) /\ <<x>> \in Seq(Message)
  <2> DEFINE key == m.key
  <2>1. key \in Key /\ key.client = c /\ c \in Client
    BY <1>4, <1>8
  <2> HIDE DEF key, n
  <2>2. x \in Message /\ x.type = "MAX_TICKET" /\ x.key = key
    BY <1>9, <2>1, MsgType DEF key, Msg
  <2> HIDE DEF x
  <2>3. x \notin Apart(c)
    BY <2>1, <2>2 DEF Apart
  <2> QED BY <2>1, <2>2, <2>3, OneMessage DEF InTime, Of
<1> HIDE DEF x
<1>11. Carries(l, F, S, <<x>>, c, <<>>) /\ Prompt(l, F)
  <2>1. s = Other(l)
    BY <1>2, <1>3
  <2>2. Carries(l, F, S, <<x>>, c, <<>>)
    BY <1>7, <1>10, <2>1, CarriesReply
  <2> HIDE DEF F
  <2> QED BY <2>2 DEF Carries
<1>12. Done(s, l, F)
  BY <1>6, Zenon DEF MsgGetMaxTicket, Received, Reply, m, D, x
<1> HIDE DEF F
<1>13. Acts(l, c, <<x>>, v, w) /\ w.tickets[l] = S /\ w.mail[c] = v.mail[c]
  <2>1. Handles(v, w, l, c, <<x>>, S, <<>>)
    BY <1>1, <1>4, <1>10, <1>11, Handled DEF v, D, S
  <2> QED BY <2>1 DEF Handles
<1> HIDE DEF w
<1>14. Pairing(Home(home, c, o), To(g, c, "MAX_TICKET"), w)
  <2>1. w.tickets[l] = v.tickets[l]
    BY <1>4, <1>13
  <2> QED BY <1>4, <1>5, <1>10, <1>13, <2>1, MaxAnswered DEF o
<1>15. "MAX_TICKET" \in Stage /\ StateOf("MAX_TICKET") = StateOf(g[c])
  BY <1>4 DEF Stage, StateOf, Choosing
<1> QED
  BY <1>3, <1>4, <1>11, <1>12, <1>14, <1>15, Settles DEF w


\* The home chooses the number n for its ticket t, and says so.
LEMMA NumberChosen ==
  ASSUME TwoLeaders, NEW l \in Leader, NEW c \in Client, NEW v, NEW w,
         NEW m \in Of(c, {"ADD_TICKET"}), Acts(l, c, <<m>>, v, w), Quiet(c, v), w.mail[c] = v.mail[c],
         NEW home, NEW g, Core(home, g, v), Own(c, l, "MAX_TICKET", v),
         \A e \in Client \ {c} : Quits(e, home[e], g[e], v), Ranked(c, l, v),
         NEW t, Entry(v.tickets[l], c) = {t}, NEW n \in Number, n > t.number,
         Numbered(t, n) \in Ticket, Entry(w.tickets[l], c) = {Numbered(t, n)}, m.key = KeyOf(Numbered(t, n))
  PROVE  Pairing(Home(home, c, l), To(g, c, "ADD_TICKET"), w)
<1> DEFINE o == Other(l)
           u == Numbered(t, n)
<1>0. "ADD_TICKET" \in Down
  BY DEF Down
<1>1. Wired(l, o, c, m, "ADD_TICKET", v, w) /\ Posts(l, o, l, c, m, "ADD_TICKET", v, w)
  <2>1. \A k \in Leader : Once(v.net[k][Other(k)], Drops(c))
    BY DEF Own, Moves
  <2> QED BY <1>0, <2>1, PostsSome
<1>2. Sides(l, o, c, v, w) /\ Other(l) = o /\ Other(o) = l
  BY <1>1 DEF Posts, Sides
<1> HIDE DEF o
<1>3. /\ Talks(c, l, "ADD_TICKET", w) /\ Moves(c, l, "ADD_TICKET", w)
      /\ Left(c, l, w) <=> Left(c, l, v)
      /\ Left(c, o, w) <=> Left(c, o, v)
  BY <1>1 DEF Posts
<1>4. PICK x, y : Both(x, y, c, l, o, "MAX_TICKET", v)
  <2>1. "MAX_TICKET" \notin Outside \cup Opening /\ Keeps(c, l, "MAX_TICKET", v)
    BY DEF Outside, Opening, Own
  <2>2. \E x, y : Both(x, y, c, l, Other(l), "MAX_TICKET", v)
    BY <2>1, Inside
  <2> QED BY <1>2, <2>2
<1>5. t \in Ticket /\ t.client = c /\ AtHome(t, l, "MAX_TICKET") /\ Number \subseteq Nat
  BY <1>4, NumberAssumption DEF Both, Number
<1>6. /\ u.owner = t.owner /\ u.entering = t.entering /\ u.listed /\ u.maxAsked = t.maxAsked
      /\ u.added /\ u.quorum = t.quorum /\ u.locked = t.locked /\ u.ready = t.ready /\ u.still = t.still
      /\ u.number = n /\ u.rank = n /\ u.client = c
  BY <1>5 DEF Ticket, Numbered
<1>7. ~t.quorum /\ ~t.locked /\ ~t.ready /\ t.owner = l /\ t.entering /\ t.maxAsked
  BY <1>5 DEF AtHome, Opening, Choosing, Late, Granted
<1>8. u \in Ticket /\ Entry(w.tickets[l], c) = {u} /\ m.key = KeyOf(u)
  OBVIOUS
<1> HIDE DEF u
<1>9. Both(u, y, c, l, o, "ADD_TICKET", w)
  <2>1. AtHome(u, l, "ADD_TICKET")
    BY <1>6, <1>7 DEF AtHome, Opening, Late, Granted
  <2>2. AtOther(y, l, "ADD_TICKET")
    BY <1>4 DEF Both, AtOther, Choosing, Late, Granted
  <2>3. Lacks(w.net[l][o], {x2 \in Of(c, {"ADD_TICKET"}) : x2.key # KeyOf(u)})
    <3> DEFINE Z == {x2 \in Of(c, {"ADD_TICKET"}) : x2.key # KeyOf(u)}
    <3>1. Lacks(v.net[l][o], Z) /\ m \notin Z
      BY <1>1, <1>8 DEF Wired, Free, Lacks, Of, Steps, Down
    <3> HIDE DEF Z
    <3>2. Lacks(w.net[l][o], Z)
      BY <1>1, <3>1 DEF Wired
    <3> QED BY <3>2 DEF Z
  <2>4. Entry(w.tickets[o], c) = {y} /\ y \in Ticket /\ y.client = c /\ ~Left(c, l, w) /\ ~Left(c, o, w)
    BY <1>2, <1>3, <1>4 DEF Both, Sides
  <2>5. "ADD_TICKET" \notin {"TICKET_ADDED"} \cup Late
    BY DEF Late, Granted
  <2> QED BY <1>6, <1>8, <2>1, <2>2, <2>3, <2>4, <2>5 DEF Both
<1>10. Keeps(c, l, "ADD_TICKET", w)
  <2>1. "ADD_TICKET" \notin Outside \cup Opening
    BY DEF Outside, Opening
  <2> QED BY <1>2, <1>9, <2>1, BothKeeps
<1>11. InOrder(c, l, "ADD_TICKET", w)
  <2>1. Lacks(v.net[l][o], Grants(c)) /\ Lacks(v.net[o][l], Grants(c))
    BY <1>2 DEF Own, InOrder, Choosing
  <2>2. Lacks(w.net[l][o], Grants(c)) /\ Lacks(w.net[o][l], Grants(c))
    BY <1>1, <2>1 DEF Wired
  <2> QED BY <1>2, <2>2 DEF InOrder
<1>12. Own(c, l, "ADD_TICKET", w) /\ "ADD_TICKET" \in Stage \ Late
  BY <1>3, <1>10, <1>11 DEF Own, Stage, Choosing, Late, Granted
<1>13. Counted(l, c, l, "ADD_TICKET", v, w)
  <2> SUFFICES ASSUME NEW k \in Leader, NEW x2 \in v.tickets[k], x2.client # c, x2.owner = k, x2.quorum,
                      x2.rank = x2.number, c \notin Held(x2)
               PROVE  Before(KeyOf(x2), KeyOf(u))
    BY <1>8 DEF Counted, Later
  <2>1. t.number >= x2.number
    BY DEF Ranked
  <2>2. x2 \in Ticket
    BY <1>2 DEF World, Sides
  <2>3. x2.number \in Nat /\ t.number \in Nat /\ n \in Nat
    BY <1>5, <2>2 DEF Ticket
  <2>4. x2.number < n
    BY <2>1, <2>3
  <2> QED BY <1>6, <2>4 DEF Before, KeyOf
<1>14. Courteous(c, Home(home, c, l), To(g, c, "ADD_TICKET"), v, w)
  <2>1. u.entering
    BY <1>6, <1>7
  <2> QED BY <1>8, <1>12, <1>13, <2>1, Counting
<1>15. \A z \in Entry(w.tickets[l], c) : z.quorum /\ z.owner = l => z \in v.tickets[l]
  BY <1>6, <1>7, <1>8
<1> QED
  BY <1>12, <1>14, <1>15, EarlyTo

\* A ticket of c that gets a number takes its place under its new key.
LEMMA CarriesSet ==
  ASSUME TwoLeaders, NEW l \in Leader, NEW D, NEW S, NEW r, NEW c, NEW q, Carries(l, D, S, r, c, q),
         NEW t, Entry(S, c) = {t}, NEW u \in Ticket, u.client = c, u \in Punctual
  PROVE  Carries(l, SetTicket(D, t, u), Put(S, c, u), r, c, q)
<1> DEFINE E == SetTicket(D, t, u)
           others == {x \in D.tickets \ {t} : x.listed /\ KeyOf(x) = KeyOf(u)}
<1>1. Prompt(l, D) /\ D.tickets = S /\ D \in Context
  BY DEF Carries, Prompt, Sound
<1>2. t \in S /\ t.client = c /\ \A x \in S \ {t} : x.client # c
  BY DEF Entry
<1>3. others = {}
  BY <1>1, <1>2 DEF KeyOf
<1>4. E.tickets = Alive((S \ {t}) \cup {u}) /\ E.out = D.out /\ E.mail = D.mail
  <2>1. E = [D EXCEPT !.tickets = Alive((@ \ (others \cup {t}))
                                        \cup {[x EXCEPT !.listed = FALSE] : x \in others} \cup {u})]
    BY Zenon DEF SetTicket
  <2> HIDE DEF others, E
  <2>2. {[x EXCEPT !.listed = FALSE] : x \in others} = {}
    BY <1>3
  <2>3. (S \ (others \cup {t})) \cup {[x EXCEPT !.listed = FALSE] : x \in others} \cup {u} = (S \ {t}) \cup {u}
    BY <1>3, <2>2
  <2> QED BY <1>1, <2>1, <2>3 DEF Context
<1>5. \A x \in S : x.entering \/ x.listed
  BY <1>1, PromptTickets
<1>6. Alive((S \ {t}) \cup {u}) = Put(S, c, u)
  BY <1>2, <1>5 DEF Alive, Put
<1>7. Sound(l, E)
  BY <1>1, <1>2, SetTicketSound DEF Prompt
<1> HIDE DEF E
<1>8. Prompt(l, E)
  <2>1. E.tickets \subseteq Punctual
    BY <1>1, <1>4 DEF Alive, Prompt
  <2> QED BY <1>1, <1>4, <1>7, <2>1, PromptTable
<1>9. Carries(l, E, Put(S, c, u), r, c, q)
  BY <1>4, <1>6, <1>8 DEF Carries
<1> QED
  BY <1>9 DEF E


\* The number above those of both leaders, when it fits.
LEMMA NextFits ==
  ASSUME NEW t \in Ticket, ~t.added, NEW n \in Nat, ~Overflows(t, n), t \in Punctual
  PROVE  LET k == NextNumber(t, n)
         IN  /\ k \in Number /\ k > t.number /\ Numbered(t, k) \in Ticket /\ Numbered(t, k) \in Punctual
             /\ Numbered(t, k).client = t.client
<1> DEFINE k == NextNumber(t, n)
           u == Numbered(t, k)
<1>1. MaxNumber \in Nat /\ Number = 0..MaxNumber
  BY NumberAssumption DEF Number
<1>2. t.number \in Nat
  BY <1>1 DEF Ticket
<1>3. k \in Nat /\ k > t.number /\ k <= MaxNumber
  BY <1>1, <1>2 DEF Overflows, NextNumber
<1>4. k \in Number
  BY <1>1, <1>3
<1> HIDE DEF k
<1>5. u \in Ticket /\ u.client = t.client
  BY <1>4 DEF Ticket, Numbered
<1>6. u \in Punctual
  BY <1>5 DEF Punctual, Numbered, Ticket
<1> QED
  BY <1>3, <1>4, <1>5, <1>6 DEF k

LEMMA MaxTicketAsks ==
  ASSUME NEW D, NEW t, ~t.added, ~OneLeader(D), NEW n, NEW u, u = Numbered(t, NextNumber(t, n))
  PROVE  MaxTicket(D, t, n) = SendToLeaders(SetTicket(D, t, u), [Msg("ADD_TICKET", KeyOf(u)) EXCEPT !.value = t.obtention])
BY Zenon DEF MaxTicket

LEMMA PairsMaxTicket ==
  ASSUME TwoLeaders, TypeInv, Timely, NEW home, NEW g, Pairing(home, g, Now),
         NEW s \in Node, NEW l \in Leader, MsgMaxTicket(s, l)
  PROVE  Advances(s, l, home, g)
<1> DEFINE m == Head(net[s][l])
           c == m.key.client
           o == Other(l)
           D == Here(l)
           v == After(s, l, D)
           S == tickets[l]
<1>1. net[s][l] # <<>> /\ m.type = "MAX_TICKET"
  BY DEF MsgMaxTicket, Arrived
<1>2. Begins("MAX_TICKET", m, c, s, l, l, home, g, v) /\ o = s
  <2>1. "MAX_TICKET" \in Up
    BY DEF Up
  <2> QED BY <1>1, <2>1, UpBegins
<1>3. o \in Leader /\ Other(l) = o /\ Other(o) = l /\ o # l
  BY OtherLeader
<1>4. Pairing(home, g, v)
  <2>1. Opens(m, c, s, l, home, g, v)
    BY <1>1, Opened
  <2> HIDE DEF v, m, c
  <2>2. m.type \in Steps /\ m.type # "LOCK_EXITING" /\ m.type # "DROP_TICKET"
    BY <1>1 DEF Steps, Up
  <2> QED BY <2>1, <2>2 DEF Opens, Pairing
<1> HIDE DEF m, o
<1>5. /\ c \in Client /\ g[c] = "MAX_TICKET" /\ home \in [Client -> Leader] /\ g \in [Client -> Stage]
      /\ Core(home, g, v) /\ Quiet(c, v) /\ Own(c, l, "MAX_TICKET", v) /\ v.tickets[l] = S
      /\ home[c] = l /\ m.value \in Nat /\ World(v)
      /\ \A e \in Client \ {c} : Quits(e, home[e], g[e], v)
  BY <1>2, <1>3 DEF Begins
<1>6. PICK t, y : Both(t, y, c, l, o, "MAX_TICKET", v)
  <2>1. "MAX_TICKET" \notin Outside \cup Opening /\ Keeps(c, l, "MAX_TICKET", v)
    BY <1>5 DEF Outside, Opening, Own
  <2> HIDE DEF v, c
  <2>2. \E t, y : Both(t, y, c, l, Other(l), "MAX_TICKET", v)
    BY <2>1, Inside
  <2> QED BY <1>3, <2>2
<1>7. Prompt(l, D) /\ D.tickets = S /\ D.tickets \subseteq Punctual /\ ~OneLeader(D)
  <2>1. Prompt(l, D) /\ D.tickets = S
    BY HerePrompt
  <2> HIDE DEF D
  <2> QED BY <2>1, PromptTickets DEF Prompt
<1>8. Carries(l, D, S, <<>>, c, <<>>)
  BY <1>5, CarriesHere
<1>9. Ranked(c, l, v)
  <2> HIDE DEF v, c
  <2> SUFFICES ASSUME NEW k \in Leader, NEW x \in v.tickets[k], x.client # c, x.owner = k, x.quorum,
                      c \notin Held(x), NEW u \in Entry(v.tickets[l], c)
               PROVE  u.number >= x.number
    BY DEF Ranked
  <2>1. Queued(x, k, home, g, v)
    BY <1>5, Waiting
  <2>2. Later(x, k, c, l, "MAX_TICKET", v)
    BY <1>5, <2>1 DEF Queued
  <2> QED BY <2>2 DEF Later
<1> HIDE DEF v
<1>10. t \in Ticket /\ t.client = c /\ Entry(S, c) = {t} /\ t.entering /\ ~t.added /\ t \in S
  BY <1>5, <1>6 DEF Both, AtHome, Opening, Choosing, Late, Granted, Entry
<1> HIDE DEF c, D, S
<1>11. EnteringOf(D, c) = {t} /\ One({t}) = t /\ t \in D.tickets /\ t \in Punctual
  BY <1>7, <1>10, Lookup
<1>12. IF Overflows(t, m.value) THEN Stop(s, l) ELSE Done(s, l, MaxTicket(D, t, m.value))
  BY <1>11, Zenon DEF MsgMaxTicket, Received, m, c, D
<1>13. CASE Overflows(t, m.value)
  <2>1. Stop(s, l)
    BY <1>12, <1>13
  <2>2. Pairing(home, g, After(s, l, Here(l)))
    BY <1>4 DEF v, D
  <2> QED BY <2>1, <2>2, Zenon DEF Advances, Halts
<1>14. CASE ~Overflows(t, m.value)
  <2> DEFINE n == NextNumber(t, m.value)
             u == Numbered(t, n)
             x == [Msg("ADD_TICKET", KeyOf(u)) EXCEPT !.value = t.obtention]
             E == SetTicket(D, t, u)
             F == SendToLeaders(E, x)
             T == Put(S, c, u)
             w == After(s, l, F)
  <2>1. /\ n \in Number /\ n > t.number /\ u \in Ticket /\ u \in Punctual /\ u.client = t.client
    BY <1>5, <1>10, <1>11, <1>14, NextFits
  <2>2. Done(s, l, F)
    <3>1. MaxTicket(D, t, m.value) = F
      BY <1>7, <1>10, MaxTicketAsks
    <3> QED BY <1>12, <1>14, <3>1
  <2>3. u.client = c /\ u.entering
    BY <1>10, <2>1 DEF Numbered, Ticket
  <2> HIDE DEF n
  <2> DEFINE key == KeyOf(u)
  <2>4. key \in Key /\ key.client = c /\ t.obtention \in Nat
    BY <1>10, <2>1, <2>3, KeyTypes DEF KeyOf, Ticket
  <2>5. /\ x \in InTime /\ x \in Of(c, {"ADD_TICKET"}) /\ Lacks(<<x>>, Apart(c)) /\ <<x>> \in Seq(Message)
        /\ x.key = key
    <3> HIDE DEF key
    <3>1. [Msg("ADD_TICKET", key) EXCEPT !.value = t.obtention] \in Message
      BY <2>4, MsgType
    <3>2. x \in Message /\ x.type = "ADD_TICKET" /\ x.key = key
      BY <3>1 DEF Msg, key
    <3> HIDE DEF x
    <3>3. x \notin Apart(c)
      BY <2>4, <3>2 DEF Apart
    <3> QED BY <2>4, <3>2, <3>3, OneMessage DEF InTime, Of
  <2> HIDE DEF x
  <2>6. Numbered(t, n) = u
    OBVIOUS
  <2> HIDE DEF u
  <2>7. Carries(l, F, T, <<x>>, c, <<>>)
    <3>1. Carries(l, E, T, <<>>, c, <<>>)
      BY <1>8, <1>10, <2>1, <2>3, CarriesSet
    <3> HIDE DEF E
    <3> QED BY <2>5, <3>1, CarriesSend
  <2> HIDE DEF F
  <2>8. Entry(T, c) = {u} /\ \A e \in Client \ {c} : Entry(T, e) = Entry(S, e)
    <3>1. Entry(T, c) = IF u.entering \/ u.listed THEN {u} ELSE {}
      BY <2>3, PutEntry, Zenon
    <3>2. ASSUME NEW e \in Client \ {c} PROVE Entry(T, e) = Entry(S, e)
      BY <2>3 DEF Put, Entry
    <3> QED BY <2>3, <3>1, <3>2
  <2> HIDE DEF T
  <2>9. Acts(l, c, <<x>>, v, w) /\ w.tickets[l] = T /\ w.mail[c] = v.mail[c]
    <3>1. Handles(v, w, l, c, <<x>>, T, <<>>)
      BY <1>1, <1>5, <2>5, <2>7, <2>8, Handled DEF v, D, S
    <3> QED BY <3>1 DEF Handles
  <2> HIDE DEF w
  <2>10. Pairing(Home(home, c, l), To(g, c, "ADD_TICKET"), w)
    <3>1. /\ Entry(v.tickets[l], c) = {t} /\ Numbered(t, n) \in Ticket
          /\ Entry(w.tickets[l], c) = {Numbered(t, n)} /\ x.key = KeyOf(Numbered(t, n))
      BY <1>5, <1>10, <2>1, <2>5, <2>6, <2>8, <2>9
    <3> HIDE DEF key
    <3> QED BY <1>5, <1>9, <2>1, <2>5, <2>9, <3>1, NumberChosen
  <2>11. "ADD_TICKET" \in Stage /\ StateOf("ADD_TICKET") = StateOf(g[c])
    BY <1>5 DEF Stage, StateOf, Choosing
  <2>12. Prompt(l, F)
    BY <2>7 DEF Carries
  <2> QED
    BY <1>5, <2>2, <2>10, <2>11, <2>12, Settles DEF w
<1> QED
  BY <1>13, <1>14


\* The other leader gives the number of the home's ticket t to its own, which is now u.
LEMMA NumberAdded ==
  ASSUME TwoLeaders, NEW l \in Leader, NEW c \in Client, NEW v, NEW w,
         NEW m \in Of(c, {"TICKET_ADDED"}), Acts(l, c, <<m>>, v, w), Quiet(c, v), w.mail[c] = v.mail[c],
         NEW home, NEW g, Core(home, g, v), home[c] = Other(l), g[c] = "ADD_TICKET",
         \A e \in Client \ {c} : Quits(e, home[e], g[e], v),
         NEW t, NEW y, Both(t, y, c, Other(l), l, "ADD_TICKET", v),
         NEW u \in Ticket, u = Numbered(y, t.number), Entry(w.tickets[l], c) = {u}
  PROVE  Pairing(Home(home, c, Other(l)), To(g, c, "TICKET_ADDED"), w)
<1> DEFINE o == Other(l)
<1>0. "TICKET_ADDED" \in Up
  BY DEF Up
<1>2. Own(c, o, "ADD_TICKET", v) /\ home[c] = o /\ g[c] = "ADD_TICKET" /\ Both(t, y, c, o, l, "ADD_TICKET", v)
  BY DEF Core
<1>1. Wired(l, o, c, m, "TICKET_ADDED", v, w) /\ Posts(l, o, o, c, m, "TICKET_ADDED", v, w)
  <2>1. \A k \in Leader : Once(v.net[k][Other(k)], Drops(c))
    BY <1>2 DEF Own, Moves
  <2> HIDE DEF o
  <2> QED BY <1>0, <2>1, PostsSome DEF o
<1>3. Sides(l, o, c, v, w) /\ Other(l) = o /\ Other(o) = l
  BY <1>1 DEF Posts, Sides
<1> HIDE DEF o
<1>4. /\ Talks(c, o, "TICKET_ADDED", w) /\ Moves(c, o, "TICKET_ADDED", w)
      /\ Left(c, l, w) <=> Left(c, l, v)
      /\ Left(c, o, w) <=> Left(c, o, v)
  BY <1>1 DEF Posts
<1>5. /\ t \in Ticket /\ y \in Ticket /\ t.client = c /\ y.client = c /\ Entry(v.tickets[o], c) = {t}
      /\ Entry(v.tickets[l], c) = {y} /\ AtHome(t, o, "ADD_TICKET") /\ AtOther(y, o, "ADD_TICKET")
      /\ t.rank = t.number
  BY <1>2 DEF Both, AtHome
<1>6. /\ u.owner = y.owner /\ u.entering = y.entering /\ u.listed /\ u.added /\ u.quorum = y.quorum
      /\ u.locked = y.locked /\ u.ready = y.ready /\ u.number = t.number /\ u.rank = t.number /\ u.client = c
  <2>1. Numbered(y, t.number).client = c
    BY <1>5 DEF Ticket, Numbered
  <2> QED BY <1>5 DEF Ticket, Numbered
<1>7. KeyOf(u) = KeyOf(t)
  BY <1>5, <1>6 DEF KeyOf
<1>8. y.owner = o /\ y.entering /\ ~y.quorum /\ ~y.ready /\ ~y.locked
  BY <1>5 DEF AtOther, Choosing, Late, Granted
<1>9. Both(t, u, c, o, l, "TICKET_ADDED", w)
  <2>1. AtHome(t, o, "TICKET_ADDED")
    BY <1>5 DEF AtHome, Opening, Choosing, Late, Granted
  <2>2. AtOther(u, o, "TICKET_ADDED")
    BY <1>6, <1>8 DEF AtOther, Choosing, Late, Granted
  <2>3. Lacks(w.net[o][l], {x \in Of(c, {"ADD_TICKET"}) : x.key # KeyOf(t)})
    BY <1>1, <1>2 DEF Wired, Both
  <2>4. Entry(w.tickets[o], c) = {t} /\ Entry(w.tickets[l], c) = {u}
    BY <1>3, <1>5 DEF Sides
  <2>5. ~Left(c, o, w) /\ ~Left(c, l, w)
    BY <1>2, <1>4 DEF Both
  <2> QED BY <1>5, <1>6, <2>1, <2>2, <2>3, <2>4, <2>5 DEF Both
<1>10. Keeps(c, o, "TICKET_ADDED", w)
  <2>1. "TICKET_ADDED" \notin Outside \cup Opening
    BY DEF Outside, Opening
  <2> QED BY <1>3, <1>9, <2>1, BothKeeps
<1>11. InOrder(c, o, "TICKET_ADDED", w)
  <2>1. Lacks(v.net[l][o], Grants(c)) /\ Lacks(v.net[o][l], Grants(c))
    BY <1>2, <1>3 DEF Own, InOrder, Choosing
  <2>2. Lacks(w.net[l][o], Grants(c)) /\ Lacks(w.net[o][l], Grants(c))
    BY <1>1, <2>1 DEF Wired
  <2> QED BY <1>3, <2>2 DEF InOrder
<1>12. Own(c, o, "TICKET_ADDED", w) /\ "TICKET_ADDED" \in Stage \ Late /\ o \in Leader
  BY <1>3, <1>4, <1>10, <1>11 DEF Own, Stage, Choosing, Late, Granted, Sides
<1>13. Counted(l, c, o, "TICKET_ADDED", v, w)
  <2> SUFFICES ASSUME NEW k \in Leader, NEW x \in v.tickets[k], x.client # c, x.owner = k, x.quorum,
                      c \notin Held(x)
               PROVE  Before(KeyOf(x), KeyOf(u))
    BY DEF Counted, Later
  <2>1. Queued(x, k, home, g, v)
    BY <1>3, Waiting DEF Sides
  <2>2. Later(x, k, c, o, "ADD_TICKET", v)
    BY <1>2, <2>1 DEF Queued
  <2>3. Before(KeyOf(x), KeyOf(t))
    BY <1>5, <2>2 DEF Later
  <2> QED BY <1>7, <2>3
<1>14. Courteous(c, Home(home, c, o), To(g, c, "TICKET_ADDED"), v, w)
  BY <1>6, <1>8, <1>12, <1>13, Counting
<1>15. \A z \in Entry(w.tickets[l], c) : z.quorum /\ z.owner = l => z \in v.tickets[l]
  BY <1>6, <1>8
<1>16. Pairing(Home(home, c, o), To(g, c, "TICKET_ADDED"), w)
  BY <1>12, <1>14, <1>15, EarlyTo
<1> QED
  BY <1>16 DEF o

\* A ticket of c that gets its number, in the table of the other leader.
LEMMA CarriesNumber ==
  ASSUME TwoLeaders, NEW l \in Leader, NEW D, NEW S, NEW r, NEW c, NEW q, Carries(l, D, S, r, c, q),
         NEW t, Entry(S, c) = {t}, NEW u \in Ticket, u.client = c, u \in Punctual
  PROVE  Carries(l, Update(D, t, u), Put(S, c, u), r, c, q)
<1> DEFINE E == Update(D, t, u)
           T == Put(S, c, u)
<1>1. Prompt(l, D) /\ D.tickets = S /\ D \in Context
  BY DEF Carries, Prompt, Sound
<1>2. t \in S /\ t.client = c /\ \A x \in S \ {t} : x.client # c
  BY DEF Entry
<1>3. \A x \in S : x.entering \/ x.listed
  BY <1>1, PromptTickets
<1>4. Alive((S \ {t}) \cup {u}) = T
  BY <1>2, <1>3 DEF Alive, Put
<1>5. E = [D EXCEPT !.tickets = T]
  BY <1>1, <1>4 DEF Update
<1>6. T \subseteq Punctual /\ IsFiniteSet(T) /\ KeysDiffer(T)
  <2>1. IsFiniteSet(S) /\ KeysDiffer(S) /\ S \subseteq Punctual
    BY <1>1 DEF Prompt, Sound
  <2>2. T \subseteq S \cup {u} /\ \A x \in T : x = u \/ (x \in S /\ x.client # c)
    BY DEF Put
  <2> HIDE DEF T
  <2>3. IsFiniteSet(S \cup {u})
    BY <2>1, FS_AddElement
  <2>4. IsFiniteSet(T)
    BY <2>2, <2>3, FS_Subset
  <2> QED BY <2>1, <2>2, <2>4 DEF KeysDiffer, KeyOf
<1> HIDE DEF T
<1>7. Carries(l, [D EXCEPT !.tickets = T], T, r, c, q)
  BY <1>6, CarriesTable
<1> HIDE DEF E
<1>8. Carries(l, E, T, r, c, q)
  BY <1>5, <1>7
<1> QED
  BY <1>8 DEF E, T

LEMMA PairsAddTicket ==
  ASSUME TwoLeaders, TypeInv, Timely, NEW home, NEW g, Pairing(home, g, Now),
         NEW s \in Node, NEW l \in Leader, MsgAddTicket(s, l)
  PROVE  Advances(s, l, home, g)
<1> DEFINE m == Head(net[s][l])
           c == m.key.client
           o == Other(l)
           D == Here(l)
           v == After(s, l, D)
           S == tickets[l]
           x == Msg("TICKET_ADDED", m.key)
<1>1. net[s][l] # <<>> /\ m.type = "ADD_TICKET"
  BY DEF MsgAddTicket, Arrived
<1>2. Begins("ADD_TICKET", m, c, s, l, o, home, g, v) /\ o = s
  <2>1. "ADD_TICKET" \in Down
    BY DEF Down
  <2> QED BY <1>1, <2>1, DownBegins
<1>3. o \in Leader /\ Other(l) = o /\ Other(o) = l /\ o # l
  BY OtherLeader
<1> HIDE DEF m, o
<1>4. /\ c \in Client /\ g[c] = "ADD_TICKET" /\ home \in [Client -> Leader] /\ g \in [Client -> Stage]
      /\ Core(home, g, v) /\ Quiet(c, v) /\ Own(c, o, "ADD_TICKET", v) /\ v.tickets[l] = S
      /\ v.tickets[o] = tickets[o] /\ home[c] = o
      /\ m \in Of(c, {"ADD_TICKET"}) /\ m.key \in Key
      /\ \A e \in Client \ {c} : Quits(e, home[e], g[e], v)
  BY <1>2, <1>3 DEF Begins
<1>5. "ADD_TICKET" \notin Outside \cup Opening
  BY DEF Outside, Opening
<1>6. PICK t, y : Both(t, y, c, o, l, "ADD_TICKET", v)
  <2>1. Keeps(c, o, "ADD_TICKET", v)
    BY <1>4 DEF Own
  <2> HIDE DEF v, c
  <2>2. \E t, y : Both(t, y, c, o, Other(o), "ADD_TICKET", v)
    BY <1>5, <2>1, Inside
  <2> QED BY <1>3, <2>2
<1>7. m.key = KeyOf(t)
  <2>1. Keeps(c, o, "ADD_TICKET", Now)
    BY <1>2, <1>3 DEF Begins, Own
  <2> HIDE DEF v, c
  <2>2. \E t2, y2 : Both(t2, y2, c, o, Other(o), "ADD_TICKET", Now)
    BY <1>5, <2>1, Inside
  <2>3. PICK t2, y2 : Both(t2, y2, c, o, l, "ADD_TICKET", Now)
    BY <1>3, <2>2
  <2>4. t2 = t
    <3>1. Entry(tickets[o], c) = {t2}
      BY <2>3 DEF Both, Now
    <3>2. Entry(tickets[o], c) = {t}
      BY <1>4, <1>6 DEF Both
    <3> QED BY <3>1, <3>2
  <2> DEFINE Z == {z \in Of(c, {"ADD_TICKET"}) : z.key # KeyOf(t)}
             q == net[o][l]
  <2>5. Lacks(q, Z)
    BY <2>3, <2>4 DEF Both, Now
  <2>6. q \in Seq(Message) /\ q # <<>> /\ Head(q) = m
    BY <1>1, <1>2, <1>3 DEF TypeInv, TypeOK, Node, m
  <2>7. m \notin Z
    <3> HIDE DEF Z, q
    <3> QED BY <2>5, <2>6, LacksTail
  <2> QED BY <1>4, <2>7
<1>8. Prompt(l, D) /\ D.tickets = S /\ D.tickets \subseteq Punctual
  <2>1. Prompt(l, D) /\ D.tickets = S
    BY HerePrompt
  <2> HIDE DEF D
  <2> QED BY <2>1 DEF Prompt
<1>9. Carries(l, D, S, <<>>, c, <<>>)
  BY <1>4, CarriesHere
<1>10. m.key.client = c
  OBVIOUS
<1> HIDE DEF v
<1>11. /\ t \in Ticket /\ y \in Ticket /\ y.client = c /\ Entry(S, c) = {y} /\ y.entering /\ ~y.added
       /\ ~y.listed /\ y.number = 0 /\ t.rank = t.number
  BY <1>4, <1>6 DEF Both, AtOther, AtHome, Opening, Choosing, Late, Granted
<1> HIDE DEF c, D, S
<1>12. EnteringOf(D, c) = {y} /\ One({y}) = y /\ y \in D.tickets /\ y \in Punctual /\ ListedAs(D, m.key) = {}
  <2> DEFINE key == m.key
  <2>1. key.client = c
    BY <1>10
  <2> HIDE DEF key
  <2>2. EnteringOf(D, c) = {y} /\ One({y}) = y /\ y \in D.tickets /\ ListedAs(D, key) = {}
    BY <1>8, <1>11, <2>1, Lookup
  <2> QED BY <1>8, <2>2 DEF key
<1> DEFINE u == Numbered(y, m.key.number)
           E == Update(D, y, u)
           F == Tell(E, s, x)
           T == Put(S, c, u)
           w == After(s, l, F)
<1>13. u = Numbered(y, t.number)
  <2>1. m.key.number = t.number
    BY <1>7, <1>11 DEF KeyOf
  <2> QED BY <2>1
<1>14. Done(s, l, F)
  BY <1>11, <1>12, Zenon DEF MsgAddTicket, Received, Reply, m, c, D
<1> HIDE DEF u
<1>15. u \in Ticket /\ u \in Punctual /\ u.client = c /\ u.entering
  <2>1. t.number \in Number
    BY <1>11 DEF Ticket
  <2>2. Numbered(y, t.number) \in Ticket /\ Numbered(y, t.number).client = c /\ Numbered(y, t.number).entering
    BY <1>11, <2>1 DEF Ticket, Numbered
  <2>3. Numbered(y, t.number) \in Punctual
    BY <1>12, <2>2 DEF Punctual, Numbered, Ticket
  <2> QED BY <1>13, <2>2, <2>3
<1>16. x \in InTime /\ x \in Of(c, {"TICKET_ADDED"}) /\ Lacks(<<x>>, Apart(c)) /\ <<x>> \in Seq(Message)
  <2> DEFINE key == m.key
  <2>1. key \in Key /\ key.client = c /\ c \in Client
    BY <1>4, <1>10
  <2> HIDE DEF key
  <2> QED BY <2>1, Posting DEF key
<1> HIDE DEF x
<1>17. Carries(l, F, T, <<x>>, c, <<>>) /\ Prompt(l, F)
  <2>1. Carries(l, E, T, <<>>, c, <<>>)
    BY <1>9, <1>11, <1>15, CarriesNumber
  <2> HIDE DEF E
  <2>2. s = Other(l)
    BY <1>2, <1>3
  <2>3. Carries(l, F, T, <<x>>, c, <<>>)
    BY <1>16, <2>1, <2>2, CarriesReply
  <2> HIDE DEF F
  <2> QED BY <2>3 DEF Carries
<1> HIDE DEF F
<1>18. Entry(T, c) = {u} /\ \A e \in Client \ {c} : Entry(T, e) = Entry(S, e)
  <2>1. Entry(T, c) = IF u.entering \/ u.listed THEN {u} ELSE {}
    BY <1>15, PutEntry, Zenon
  <2>2. ASSUME NEW e \in Client \ {c} PROVE Entry(T, e) = Entry(S, e)
    BY <1>15 DEF Put, Entry
  <2> QED BY <1>15, <2>1, <2>2
<1> HIDE DEF T
<1>19. Acts(l, c, <<x>>, v, w) /\ w.tickets[l] = T /\ w.mail[c] = v.mail[c]
  <2>1. Handles(v, w, l, c, <<x>>, T, <<>>)
    BY <1>1, <1>4, <1>16, <1>17, <1>18, Handled DEF v, D, S
  <2> QED BY <2>1 DEF Handles
<1> HIDE DEF w
<1>20. Pairing(Home(home, c, o), To(g, c, "TICKET_ADDED"), w)
  <2>1. Entry(w.tickets[l], c) = {u}
    BY <1>18, <1>19
  <2> QED BY <1>4, <1>6, <1>13, <1>15, <1>16, <1>19, <2>1, NumberAdded DEF o
<1>21. "TICKET_ADDED" \in Stage /\ StateOf("TICKET_ADDED") = StateOf(g[c])
  BY <1>4 DEF Stage, StateOf, Choosing
<1> QED
  BY <1>3, <1>4, <1>14, <1>17, <1>20, <1>21, Settles DEF w


-----------------------------------------------------------------------------
(* The first ticket is to be activated.                                    *)

\* Where a ticket may be ready.
LEMMA ReadyStages ==
  ASSUME TwoLeaders, NEW v, NEW c, NEW h \in Leader, NEW st, Own(c, h, st, v),
         NEW l \in Leader, NEW t \in Entry(v.tickets[l], c), t.ready
  PROVE  \/ l = h /\ st \in Outside \cup Late
         \/ l # h /\ st \in Outside \cup Opening \cup {"WAITING"} \cup Granted
<1>1. Keeps(c, h, st, v)
  BY DEF Own
<1>2. CASE l = h
  <2>1. ASSUME st \notin Outside PROVE st \in Late
    <3>1. PICK x \in Ticket : Entry(v.tickets[h], c) = {x} /\ AtHome(x, h, st)
      BY <1>1, <2>1 DEF Keeps
    <3>2. x = t
      BY <1>2, <3>1
    <3> QED BY <3>1, <3>2 DEF AtHome
  <2> QED BY <1>2, <2>1
<1>3. CASE l # h
  <2>1. l = Other(h)
    BY <1>3, OtherLeader
  <2>2. ASSUME st \notin Outside \cup Opening PROVE st \in {"WAITING"} \cup Granted
    <3>1. PICK x, y : Both(x, y, c, h, Other(h), st, v)
      BY <1>1, <2>2, Inside
    <3>2. y = t /\ AtOther(y, h, st)
      BY <2>1, <3>1 DEF Both
    <3> QED BY <3>2 DEF AtOther
  <2> QED BY <1>3, <2>2
<1> QED
  BY <1>2, <1>3

\* The queues p from the home and q to it, before a leader sends m and after.
Sends(p, q, p2, q2, m) ==
  /\ \A S : Lacks(p, S) /\ m \notin S => Lacks(p2, S)
  /\ \A S : Lacks(q, S) /\ m \notin S => Lacks(q2, S)
  /\ \A S : Lacks(p2, S) => Lacks(p, S)
  /\ \A S : Lacks(q2, S) => Lacks(q, S)
  /\ \A A, B : Ahead(p, A, B) /\ m \notin A => Ahead(p2, A, B)
  /\ \A A, B : Ahead(q, A, B) /\ m \notin A => Ahead(q2, A, B)
  /\ \A S : Once(p, S) /\ m \notin S => Once(p2, S)
  /\ \A S : Once(q, S) /\ m \notin S => Once(q2, S)
  /\ p2 = p \/ q2 = q

LEMMA SendsJoin ==
  ASSUME NEW q \in Seq(Message), NEW m \in Message
  PROVE  /\ \A S : Lacks(q, S) /\ m \notin S => Lacks(q \o <<m>>, S)
         /\ \A S : Lacks(q \o <<m>>, S) => Lacks(q, S)
         /\ \A A, B : Ahead(q, A, B) /\ m \notin A => Ahead(q \o <<m>>, A, B)
         /\ \A S : Once(q, S) /\ m \notin S => Once(q \o <<m>>, S)
<1> DEFINE r == <<m>>
<1>1. r \in Seq(Message) /\ \A S : Lacks(r, S) <=> m \notin S
  BY OneMessage
<1> HIDE DEF r
<1>2. \A S : Lacks(q, S) /\ m \notin S => Lacks(q \o r, S)
  BY <1>1, LacksConcat
<1>3. \A S : Lacks(q \o r, S) => Lacks(q, S)
  BY <1>1, LacksConcat
<1>4. \A A, B : Ahead(q, A, B) /\ m \notin A => Ahead(q \o r, A, B)
  BY <1>1, AheadJoin
<1>5. ASSUME NEW S, Once(q, S), m \notin S PROVE Once(q \o r, S)
  <2>1. SameOrder(q \o r, q, S)
    BY <1>1, <1>5, JoinOrder
  <2> QED BY <1>5, <2>1 DEF SameOrder
<1> QED
  BY <1>2, <1>3, <1>4, <1>5 DEF r

LEMMA SendsOne ==
  ASSUME TwoLeaders, NEW l \in Leader, NEW c \in Client, NEW v, NEW w, NEW m \in Message,
         Acts(l, c, <<m>>, v, w), NEW h \in Leader
  PROVE  Sends(v.net[h][Other(h)], v.net[Other(h)][h], w.net[h][Other(h)], w.net[Other(h)][h], m)
<1> DEFINE o == Other(l)
           r == <<m>>
<1>1. Wires(l, o, r, v, w) /\ Sides(l, o, c, v, w)
  BY OneWorld DEF Worlds
<1>2. \A S : Once(v.net[o][l], S) => Once(w.net[o][l], S)
  BY <1>1 DEF Wires
<1>3. Sends(v.net[l][o], v.net[o][l], w.net[l][o], w.net[o][l], m)
  <2> DEFINE p == v.net[l][o]
             q == v.net[o][l]
             p2 == w.net[l][o]
             q2 == w.net[o][l]
  <2>1. p \in Seq(Message) /\ p2 = p \o <<m>> /\ q2 = q
    BY <1>1 DEF Wires
  <2> HIDE DEF p, q, p2, q2
  <2>2. /\ \A S : Lacks(p, S) /\ m \notin S => Lacks(p2, S)
        /\ \A S : Lacks(p2, S) => Lacks(p, S)
        /\ \A A, B : Ahead(p, A, B) /\ m \notin A => Ahead(p2, A, B)
        /\ \A S : Once(p, S) /\ m \notin S => Once(p2, S)
    BY <2>1, SendsJoin
  <2>3. Sends(p, q, p2, q2, m)
    BY <2>1, <2>2 DEF Sends
  <2> QED BY <2>3 DEF p, q, p2, q2
<1> HIDE DEF o, r
<1>4. CASE h = l
  BY <1>3, <1>4 DEF o
<1>5. CASE h # l
  <2>1. h = o /\ Other(h) = l
    BY <1>1, <1>5 DEF Sides
  <2>2. Sends(v.net[o][l], v.net[l][o], w.net[o][l], w.net[l][o], m)
    BY <1>3 DEF Sends
  <2> QED BY <2>1, <2>2
<1> QED
  BY <1>4, <1>5


\* Leader l asks whether the first of its tickets, which is ready, is first elsewhere as well.
LEMMA FirstAsked ==
  ASSUME TwoLeaders, NEW l \in Leader, NEW c \in Client, NEW v, NEW w,
         NEW m \in Of(c, {"ACTIVATE_LOCK"}), Acts(l, c, <<m>>, v, w),
         w.tickets[l] = v.tickets[l], w.mail[c] = v.mail[c],
         NEW home, NEW g, Core(home, g, v),
         NEW t \in Entry(v.tickets[l], c), t.listed, t.ready, Clear(v.tickets[l], t)
  PROVE  /\ Core(home, g, w)
         /\ \A e \in Client : Quits(e, home[e], g[e], v) => Quits(e, home[e], g[e], w)
<1> DEFINE h == home[c]
           st == g[c]
           o == Other(h)
           p == v.net[h][o]
           q == v.net[o][h]
           p2 == w.net[h][o]
           q2 == w.net[o][h]
<1>1. /\ h \in Leader /\ st \in Stage /\ home \in [Client -> Leader] /\ g \in [Client -> Stage]
      /\ Own(c, h, st, v) /\ Waits(c, home, g, v) /\ Sure(c, h, st, v)
  BY DEF Core
<1>2. m \in Message
  BY DEF Of
<1>3. Sends(p, q, p2, q2, m)
  BY <1>1, <1>2, SendsOne
<1>4. /\ \A T : "ACTIVATE_LOCK" \notin T => m \notin Of(c, T)
      /\ m \notin Dones(c) /\ m \notin Drops(c) /\ m.key.client = c
      /\ \A K : m \notin {x \in Of(c, {"ADD_TICKET"}) : x.key # K}
  BY DEF Of, Dones, Drops
<1>5. Sides(l, Other(l), c, v, w) /\ Wires(l, Other(l), <<m>>, v, w)
  BY OneWorld DEF Worlds
<1>6. /\ o \in Leader /\ o # h /\ Other(o) = h
      /\ \A k \in Leader : w.tickets[k] = v.tickets[k]
      /\ l = h => q2 = q
      /\ l # h => p2 = p /\ l = o
  <2>1. o \in Leader /\ o # h /\ Other(o) = h /\ Leader = {h, o}
    BY <1>1, OtherLeader
  <2>2. \A k \in Leader : w.tickets[k] = v.tickets[k]
    BY <1>5 DEF Sides
  <2>3. w.net[Other(l)][l] = v.net[Other(l)][l]
    BY <1>5 DEF Wires
  <2>4. l = h \/ l = o
    BY <2>1
  <2> QED BY <2>1, <2>2, <2>3, <2>4, Zenon
<1> HIDE DEF o
<1>7. \/ l = h /\ st \in Outside \cup Late
      \/ l # h /\ st \in Outside \cup Opening \cup {"WAITING"} \cup Granted
  BY <1>1, ReadyStages
<1>8. \A k \in Leader : /\ Left(c, k, w) <=> Left(c, k, v)
                        /\ Rid(c, k, v) => Rid(c, k, w)
                        /\ Entry(w.tickets[k], c) = Entry(v.tickets[k], c)
  <2>1. Lacks(<<m>>, Drops(c))
    BY <1>2, <1>4, OneMessage
  <2> QED BY <1>6, <2>1, ActsDrops
<1>9. Talks(c, h, st, w)
  <2>1. Talks(c, h, st, v) /\ w.net[c] = v.net[c]
    BY <1>1, <1>5 DEF Own, Sides
  <2> QED BY <2>1 DEF Talks
<1>10. Moves(c, h, st, w)
  <2>1. Moves(c, h, st, v)
    BY <1>1 DEF Own
  <2>2. /\ \A T : Bears(p, c, T) /\ T \subseteq Steps => Bears(p2, c, T)
        /\ \A T : Bears(q, c, T) /\ T \subseteq Steps => Bears(q2, c, T)
    <3>1. \A T : T \subseteq Steps => m \notin Of(c, T) /\ m \notin Of(c, Steps \ T)
      BY <1>4 DEF Steps, Asks, Down, Up
    <3> QED BY <1>3, <3>1 DEF Bears, Sends
  <2>3. Bears(p2, c, Down \cap {st}) /\ Bears(q2, c, Up \cap {st})
    BY <2>1, <2>2 DEF Moves, Steps, o
  <2>4. ASSUME NEW k \in Leader PROVE Once(w.net[k][Other(k)], Drops(c))
    <3>1. Once(v.net[k][Other(k)], Drops(c))
      BY <2>1 DEF Moves
    <3>2. Sends(v.net[k][Other(k)], v.net[Other(k)][k], w.net[k][Other(k)], w.net[Other(k)][k], m)
      BY <1>2, SendsOne
    <3> QED BY <1>4, <3>1, <3>2 DEF Sends
  <2> QED BY <2>3, <2>4 DEF Moves, o
<1>11. Keeps(c, h, st, w)
  <2>1. Keeps(c, h, st, v)
    BY <1>1 DEF Own
  <2>2. \A K : Lacks(p, {x \in Of(c, {"ADD_TICKET"}) : x.key # K})
                => Lacks(p2, {x \in Of(c, {"ADD_TICKET"}) : x.key # K})
    BY <1>3, <1>4 DEF Sends
  <2>3. /\ st \in Outside => Rid(c, h, w)
        /\ st \in Outside \cup Opening => Rid(c, o, w)
    BY <1>1, <1>6, <1>8, <2>1 DEF Keeps, o
  <2>4. /\ Entry(w.tickets[h], c) = Entry(v.tickets[h], c)
        /\ Entry(w.tickets[o], c) = Entry(v.tickets[o], c)
        /\ Left(c, h, w) <=> Left(c, h, v)
        /\ Left(c, o, w) <=> Left(c, o, v)
    BY <1>1, <1>6, <1>8
  <2> HIDE DEF h, st
  <2> QED BY <2>1, <2>2, <2>3, <2>4 DEF Keeps, o
<1>12. InOrder(c, h, st, w)
  <2>1. InOrder(c, h, st, v)
    BY <1>1 DEF Own
  <2>2. CASE st = "LOCK_ENTERING"
    <3>1. p2 = p
      BY <1>6, <1>7, <2>2 DEF Outside, Late, Granted
    <3> QED BY <2>1, <2>2, <3>1 DEF InOrder, Choosing, o
  <2>3. CASE st = "LOCK_EXITING"
    <3>1. q2 = q
      BY <1>6, <1>7, <2>3 DEF Outside, Opening, Granted
    <3>2. Lacks(q, Grants(c)) /\ Ahead(p, Of(c, {st}), Grants(c))
      BY <2>1, <2>3 DEF InOrder, o
    <3>3. Ahead(p2, Of(c, {st}), Grants(c))
      BY <1>3, <1>4, <2>3, <3>2 DEF Sends
    <3> QED BY <2>3, <3>1, <3>2, <3>3 DEF InOrder, Choosing, o
  <2>4. CASE st = "WAITING"
    <3>1. Lacks(q, Of(c, {"TICKET_READY"}))
      BY <2>1, <2>4 DEF InOrder, o
    <3>2. Lacks(q2, Of(c, {"TICKET_READY"}))
      BY <1>3, <1>4, <3>1 DEF Sends
    <3> QED BY <2>4, <3>2 DEF InOrder, Choosing, o
  <2>5. st \notin Choosing \cup {"LOCK_ENTERED"}
    BY <1>7 DEF Choosing, Outside, Opening, Late, Granted
  <2> QED BY <2>2, <2>3, <2>4, <2>5 DEF InOrder
<1>13. Own(c, h, st, w)
  BY <1>9, <1>10, <1>11, <1>12 DEF Own
<1>14. Beside(c, v, w) /\ (\A k \in Leader : DropsLead(k, c, v, w)) /\ World(v) /\ World(w)
  BY ActsBeside
<1>15. Moving(c, home, g, home, g)
  BY <1>1 DEF Moving
<1>16. Waits(c, home, g, w)
  <2> SUFFICES ASSUME NEW k \in Leader, NEW x \in Entry(w.tickets[k], c), x.owner = k, x.quorum
               PROVE  Queued(x, k, home, g, w)
    BY DEF Waits
  <2>1. x \in Entry(v.tickets[k], c) /\ x \in v.tickets[k] /\ x.client = c
    BY <1>8 DEF Entry
  <2>2. Queued(x, k, home, g, v)
    BY <1>1, <2>1 DEF Waits
  <2>3. c \in Held(x) => \E u \in Entry(w.tickets[k], c) : u.entering
    BY <1>8, <2>2 DEF Queued
  <2> QED BY <1>14, <1>15, <2>1, <2>2, <2>3, QueuedOwn
<1>17. Sure(c, h, st, w)
  <2> SUFFICES ASSUME st \in {"LOCK_EXITING", "WAITING"}, NEW x \in Entry(w.tickets[h], c)
               PROVE  /\ x.ready
                      /\ ~Lacks(p2, Of(c, {"ACTIVATE_LOCK"})) => Clear(w.tickets[h], x)
                      /\ ~Lacks(q2, Of(c, {"ACTIVATE_LOCK"})) => Clear(w.tickets[o], x)
                      /\ ~Lacks(p2, Dones(c)) \/ ~Lacks(q2, Dones(c)) =>
                           Clear(w.tickets[h], x) /\ Clear(w.tickets[o], x)
    BY DEF Sure, o
  <2>1. x \in Entry(v.tickets[h], c)
    BY <1>1, <1>8
  <2>2. /\ \A u \in Entry(v.tickets[o], c) : u.ready => x.ready
        /\ ~Lacks(p, Of(c, {"ACTIVATE_LOCK"})) => Clear(v.tickets[h], x)
        /\ ~Lacks(q, Of(c, {"ACTIVATE_LOCK"})) => Clear(v.tickets[o], x)
        /\ ~Lacks(p, Dones(c)) \/ ~Lacks(q, Dones(c)) =>
             Clear(v.tickets[h], x) /\ Clear(v.tickets[o], x)
    BY <1>1, <2>1 DEF Sure, o
  <2>3. PICK a, y : Both(a, y, c, h, o, st, v)
    <3>1. Keeps(c, h, st, v) /\ st \notin Outside \cup Opening
      BY <1>1 DEF Own, Outside, Opening
    <3> QED BY <3>1, Inside DEF o
  <2>4. /\ x = a /\ x.ready /\ x.client = c
        /\ l = h => t = x
        /\ l # h => t.client = x.client /\ KeyOf(t) = KeyOf(x)
    <3>1. x = a /\ x.client = c /\ t.client = c /\ (l = h => t = x)
      BY <2>1, <2>3 DEF Both, Entry
    <3>2. ASSUME l # h PROVE x.ready /\ KeyOf(t) = KeyOf(x)
      <4>1. t = y /\ t \in Entry(v.tickets[o], c)
        BY <1>6, <2>3, <3>2 DEF Both
      <4>2. x.rank = x.number /\ t.rank = t.number /\ t.number = x.number
        BY <2>3, <3>1, <4>1 DEF Both, AtHome, AtOther, Late
      <4> QED BY <2>2, <3>1, <4>1, <4>2 DEF KeyOf
    <3> QED BY <3>1, <3>2
  <2>5. Clear(v.tickets[l], x)
    BY <2>4 DEF Clear
  <2>6. /\ l = h => Clear(v.tickets[h], x)
        /\ l # h => Clear(v.tickets[o], x)
    BY <1>6, <2>5
  <2>7. /\ ~Lacks(p2, Dones(c)) => ~Lacks(p, Dones(c))
        /\ ~Lacks(q2, Dones(c)) => ~Lacks(q, Dones(c))
    BY <1>3, <1>4 DEF Sends
  <2>8. w.tickets[h] = v.tickets[h] /\ w.tickets[o] = v.tickets[o]
    BY <1>1, <1>6
  <2> HIDE DEF h, st, p, q, p2, q2
  <2> QED BY <1>6, <2>2, <2>4, <2>6, <2>7, <2>8
<1>18. Courteous(c, home, g, v, w)
  <2>1. g[c] \notin {"GET_MAX_TICKET", "MAX_TICKET", "ADD_TICKET"}
    BY <1>7 DEF Outside, Opening, Late, Granted
  <2>2. Entry(w.tickets[l], c) = Entry(v.tickets[l], c)
    BY <1>8
  <2> QED BY <1>15, <2>1, <2>2, Polite
<1>19. /\ Core(home, g, w)
       /\ \A e \in Client \ {c} : Quits(e, home[e], g[e], v) => Quits(e, home[e], g[e], w)
  BY <1>13, <1>15, <1>16, <1>17, <1>18, Onward
<1>20. Quits(c, h, st, v) => Quits(c, h, st, w)
  BY <1>1, <1>3, <1>6, <1>8 DEF Quits, Sends, o
<1> QED
  BY <1>19, <1>20

\* The clients are in the same states.
Agree(g, g2) == \A c \in Client : StateOf(g2[c]) = StateOf(g[c])

\* A handler that looks at the first ticket when all else is done.
LEMMA EndsFirst ==
  ASSUME TwoLeaders, TypeInv, Timely, NEW s \in Node, NEW l \in Leader, net[s][l] # <<>>,
         NEW D, Prompt(l, D), Done(s, l, ActivateFirstLock(D)) \/ Done(s, l, D),
         NEW home, NEW g, NEW home2, NEW g2, Pairing(home2, g2, After(s, l, D)), Agree(g, g2)
  PROVE  Advances(s, l, home, g)
<1> DEFINE E == ActivateFirstLock(D)
           t == First(Listed(D))
           c == t.client
           m == Msg("ACTIVATE_LOCK", KeyOf(t))
           v == After(s, l, D)
           w == After(s, l, E)
<1>1. home2 \in [Client -> Leader] /\ g2 \in [Client -> Stage]
  BY DEF Pairing, Core
<1>2. CASE Done(s, l, D)
  <2>1. Advance(s, l, D, home, g, home2, g2)
    BY <1>1, <1>2 DEF Advance, Agree
  <2> QED BY <2>1 DEF Advances
<1>3. ASSUME Done(s, l, E), E # D PROVE Advances(s, l, home, g)
  <2>1. /\ Prompt(l, E) /\ Listed(D) # {} /\ t.ready
        /\ E = SendToLeaders(D, m)
    BY <1>3, PromptFirst
  <2>2. /\ t \in D.tickets /\ t.listed
        /\ \A u \in Listed(D) \ {t} : Before(KeyOf(t), KeyOf(u))
    <3>1. Sound(l, D)
      BY DEF Prompt
    <3> QED BY <2>1, <3>1, FirstListed
  <2> HIDE DEF t
  <2>3. t \in Ticket /\ c \in Client /\ KeyOf(t) \in Key /\ KeyOf(t).client = c
    <3>1. t \in Ticket
      BY <2>2, PromptTickets
    <3> QED BY <3>1, KeyTypes DEF KeyOf, Ticket
  <2>4. Clear(D.tickets, t)
    BY <2>2 DEF Clear, Listed
  <2> DEFINE key == KeyOf(t)
  <2> HIDE DEF c
  <2>5. /\ m \in InTime /\ m \in Of(c, {"ACTIVATE_LOCK"}) /\ Lacks(<<m>>, Apart(c))
        /\ <<m>> \in Seq(Message)
    <3>1. key \in Key /\ key.client = c
      BY <2>3
    <3> HIDE DEF key
    <3> DEFINE x == Msg("ACTIVATE_LOCK", key)
    <3>2. x \in InTime /\ x \in Of(c, {"ACTIVATE_LOCK"}) /\ Lacks(<<x>>, Apart(c)) /\ <<x>> \in Seq(Message)
      BY <2>3, <3>1, Posting, ZenonT(40)
    <3> QED BY <3>2 DEF key
  <2> HIDE DEF m
  <2>6. E.tickets = D.tickets /\ E.mail = D.mail /\ E.out[Other(l)] = D.out[Other(l)] \o <<m>>
    BY <2>1, <2>5, Sending
  <2>7. Sound(l, D) /\ Sound(l, E)
    BY <2>1 DEF Prompt
  <2> HIDE DEF E
  <2>8. Acted(v, w, l, c, <<m>>, D, E)
    BY <2>3, <2>5, <2>6, <2>7, Acting
  <2>9. /\ Acts(l, c, <<m>>, v, w) /\ w.tickets[l] = v.tickets[l] /\ w.mail[c] = v.mail[c]
        /\ v.tickets[l] = D.tickets
    BY <2>6, <2>8 DEF Acted
  <2>10. Core(home2, g2, v) /\ \A e \in Client : Quits(e, home2[e], g2[e], v)
    BY DEF Pairing
  <2>11. t \in Entry(v.tickets[l], c) /\ Clear(v.tickets[l], t)
    BY <2>2, <2>4, <2>9 DEF Entry, c
  <2> HIDE DEF v, w
  <2>12. /\ Core(home2, g2, w)
         /\ \A e \in Client : Quits(e, home2[e], g2[e], v) => Quits(e, home2[e], g2[e], w)
    BY <2>1, <2>2, <2>3, <2>5, <2>9, <2>10, <2>11, FirstAsked
  <2>13. Pairing(home2, g2, w)
    BY <2>10, <2>12 DEF Pairing
  <2>14. Advance(s, l, E, home, g, home2, g2)
    BY <1>1, <1>3, <2>1, <2>13 DEF Advance, Agree, w
  <2> QED BY <2>14 DEF Advances
<1> QED
  BY <1>2, <1>3

-----------------------------------------------------------------------------
(* Tickets wait for less.                                                  *)

\* The ticket y is x, which waits no longer for the clients in S; theirs are no longer entering.
Eases(x, y, S) ==
  /\ x \in Ticket /\ y \in Ticket
  /\ y.client = x.client /\ y.owner = x.owner /\ y.number = x.number /\ y.rank = x.rank
  /\ y.listed = x.listed /\ y.maxAsked = x.maxAsked /\ y.added = x.added
  /\ y.quorum = x.quorum /\ y.locked = x.locked
  /\ y.entering <=> x.entering /\ x.client \notin S
  /\ x.quorum => Held(y) = Held(x) \ S /\ (y.ready <=> y.still = {}) /\ (x.ready => y.ready)
  /\ ~x.quorum => y.ready = x.ready
Softer(A, B, S) == \E f : B = {f[x] : x \in A} /\ \A x \in A : Eases(x, f[x], S)

\* A message to say that a ticket in table B is ready now.
Readied(m, B) ==
  m.type = "TICKET_READY" /\ \E y \in B : y.client = m.key.client /\ y.quorum /\ y.ready /\ ~y.locked

\* Leader l eases its tickets, and sends r.
Eased(l, S, r, v, w) ==
  /\ World(v) /\ World(w) /\ r \in Seq(Message)
  /\ Softer(v.tickets[l], w.tickets[l], S) /\ w.tickets[Other(l)] = v.tickets[Other(l)]
  /\ w.net[l][Other(l)] = v.net[l][Other(l)] \o r /\ w.net[Other(l)][l] = v.net[Other(l)][l]
  /\ \A e \in Client : w.net[e] = v.net[e] /\ w.mail[e] = v.mail[e]
  /\ \A i \in DOMAIN r : Readied(r[i], w.tickets[l])

\* The clients in S may leave the tickets that enter, at leader l.
Leaves(l, S, home, g) ==
  \A d \in S : d \in Client /\ g[d] \in Late /\ (home[d] # l => g[d] # "LOCK_EXITING")

LEMMA SofterEntries ==
  ASSUME NEW A, NEW B, NEW S, Softer(A, B, S)
  PROVE  /\ \A y \in B : \E x \in A : Eases(x, y, S)
         /\ \A x \in A : \E y \in B : Eases(x, y, S)
         /\ \A e : \A y \in Entry(B, e) : \E x \in Entry(A, e) : Eases(x, y, S)
         /\ \A e : \A x \in Entry(A, e) : \E y \in Entry(B, e) : Eases(x, y, S)
         /\ \A e : Entry(A, e) = {} => Entry(B, e) = {}
<1>1. PICK f : B = {f[x] : x \in A} /\ \A x \in A : Eases(x, f[x], S)
  BY DEF Softer
<1>2. /\ \A y \in B : \E x \in A : Eases(x, y, S)
      /\ \A x \in A : \E y \in B : Eases(x, y, S)
  BY <1>1
<1>3. /\ \A e : \A y \in Entry(B, e) : \E x \in Entry(A, e) : Eases(x, y, S)
      /\ \A e : \A x \in Entry(A, e) : \E y \in Entry(B, e) : Eases(x, y, S)
  BY <1>2 DEF Entry, Eases
<1> QED
  BY <1>2, <1>3

LEMMA SofterOne ==
  ASSUME NEW A, NEW B, NEW S, Softer(A, B, S), NEW e, NEW x, Entry(A, e) = {x}
  PROVE  \E y \in Ticket : Entry(B, e) = {y} /\ Eases(x, y, S)
<1>1. PICK f : B = {f[z] : z \in A} /\ \A z \in A : Eases(z, f[z], S)
  BY DEF Softer
<1>2. x \in A /\ x.client = e /\ Eases(x, f[x], S)
  BY <1>1 DEF Entry
<1>3. f[x] \in Entry(B, e) /\ f[x] \in Ticket
  BY <1>1, <1>2 DEF Entry, Eases
<1>4. ASSUME NEW z \in Entry(B, e) PROVE z = f[x]
  <2>1. PICK a \in A : z = f[a] /\ Eases(a, z, S)
    BY <1>1, <1>4 DEF Entry
  <2>2. a.client = e
    BY <1>4, <2>1 DEF Entry, Eases
  <2>3. a \in Entry(A, e)
    BY <2>1, <2>2 DEF Entry
  <2> QED BY <2>1, <2>3
<1> QED
  BY <1>2, <1>3, <1>4

\* A ticket that waits for nobody keeps its place.
LEMMA SofterClear ==
  ASSUME NEW A, NEW B, NEW S, Softer(A, B, S), NEW x, NEW y, y.client = x.client,
         KeyOf(y) = KeyOf(x), Clear(A, x)
  PROVE  Clear(B, y)
<1> SUFFICES ASSUME NEW z \in B, z.listed, z.client # y.client PROVE Before(KeyOf(y), KeyOf(z))
  BY DEF Clear
<1>1. PICK a \in A : Eases(a, z, S)
  BY SofterEntries
<1>2. a.listed /\ a.client # x.client /\ KeyOf(z) = KeyOf(a)
  BY <1>1 DEF Eases, KeyOf
<1>3. Before(KeyOf(x), KeyOf(a))
  BY <1>2 DEF Clear
<1> QED
  BY <1>2, <1>3

\* Of the two leaders, only l eases anything.
At(k, l, S) == IF k = l THEN S ELSE {}

LEMMA EasedTables ==
  ASSUME TwoLeaders, NEW l \in Leader, NEW S, NEW r, NEW v, NEW w, Eased(l, S, r, v, w),
         NEW home, NEW g, Core(home, g, v), NEW k \in Leader
  PROVE  Softer(v.tickets[k], w.tickets[k], At(k, l, S))
<1>1. CASE k = l
  BY <1>1 DEF Eased, At
<1>2. CASE k # l
  <2>1. w.tickets[k] = v.tickets[k] /\ World(v)
    <3>1. k = Other(l)
      BY <1>2, OtherLeader
    <3> QED BY <3>1 DEF Eased
  <2>2. ASSUME NEW x \in v.tickets[k] PROVE Eases(x, x, {})
    <3>1. x \in Ticket /\ x.client \in Client /\ x \in Entry(v.tickets[k], x.client)
      BY <2>1 DEF World, Ticket, Entry
    <3>2. x.quorum => (x.ready <=> x.still = {})
      <4>1. /\ home[x.client] \in Leader /\ g[x.client] \in Stage
            /\ Own(x.client, home[x.client], g[x.client], v)
        BY <3>1 DEF Core
      <4> QED BY <2>1, <3>1, <4>1, Quorate
    <3> QED BY <3>1, <3>2 DEF Eases
  <2> DEFINE f == [x \in v.tickets[k] |-> x]
  <2>3. w.tickets[k] = {f[x] : x \in v.tickets[k]} /\ \A x \in v.tickets[k] : Eases(x, f[x], {})
    BY <2>1, <2>2
  <2>4. Softer(v.tickets[k], w.tickets[k], {})
    BY <2>3 DEF Softer
  <2> QED BY <1>2, <2>4 DEF At
<1> QED
  BY <1>1, <1>2

\* The queue q2 is q, or q and the messages of r.
Spreads(q, q2, r) ==
  /\ \A X : Lacks(q, X) /\ Lacks(r, X) => Lacks(q2, X)
  /\ \A X : Lacks(q2, X) => Lacks(q, X)
  /\ \A A, B : Ahead(q, A, B) /\ Lacks(r, A) => Ahead(q2, A, B)
  /\ \A X : Once(q, X) /\ Lacks(r, X) => Once(q2, X)
  /\ \A A, B : Led(q, A, B) /\ Lacks(r, B) => Led(q2, A, B)

LEMMA SpreadsJoin ==
  ASSUME NEW q \in Seq(Message), NEW r \in Seq(Message)
  PROVE  Spreads(q, q \o r, r) /\ Spreads(q, q, r)
<1>1. \A X : Lacks(q, X) /\ Lacks(r, X) => Lacks(q \o r, X)
  BY LacksConcat
<1>2. \A X : Lacks(q \o r, X) => Lacks(q, X)
  BY LacksConcat
<1>3. \A A, B : Ahead(q, A, B) /\ Lacks(r, A) => Ahead(q \o r, A, B)
  BY AheadJoin
<1>4. ASSUME NEW X, Once(q, X), Lacks(r, X) PROVE Once(q \o r, X)
  <2>1. SameOrder(q \o r, q, X)
    BY <1>4, JoinOrder
  <2> QED BY <1>4, <2>1 DEF SameOrder
<1>5. \A A, B : Led(q, A, B) /\ Lacks(r, B) => Led(q \o r, A, B)
  BY LedJoin
<1>6. Spreads(q, q \o r, r)
  BY <1>1, <1>2, <1>3, <1>4, <1>5 DEF Spreads
<1>7. Spreads(q, q, r)
  BY DEF Spreads
<1> QED
  BY <1>6, <1>7

LEMMA EasedWires ==
  ASSUME TwoLeaders, NEW l \in Leader, NEW S, NEW r, NEW v, NEW w, Eased(l, S, r, v, w),
         NEW k \in Leader
  PROVE  /\ Spreads(v.net[k][Other(k)], w.net[k][Other(k)], r)
         /\ k # l => w.net[k][Other(k)] = v.net[k][Other(k)]
<1>1. r \in Seq(Message) /\ \A d \in Leader : v.net[k][d] \in Seq(Message)
  BY DEF Eased, World, Node
<1>2. Other(k) \in Leader
  BY OtherLeader
<1>3. CASE k = l
  <2>1. w.net[k][Other(k)] = v.net[k][Other(k)] \o r
    BY <1>3 DEF Eased
  <2> QED BY <1>1, <1>2, <1>3, <2>1, SpreadsJoin
<1>4. CASE k # l
  <2>1. k = Other(l) /\ Other(k) = l
    BY <1>4, OtherLeader
  <2>2. w.net[k][Other(k)] = v.net[k][Other(k)]
    BY <2>1, Zenon DEF Eased
  <2> QED BY <1>1, <1>2, <2>2, SpreadsJoin
<1> QED
  BY <1>3, <1>4

\* What is sent is about tickets that may be granted now.
Noted(e, l, r, home, g, w) ==
  /\ \A T : "TICKET_READY" \notin T => Lacks(r, Of(e, T))
  /\ Lacks(r, Drops(e)) /\ Lacks(r, Dones(e))
  /\ \A K : Lacks(r, {m \in Of(e, {"ADD_TICKET"}) : m.key # K})
  /\ \/ Lacks(r, Grants(e))
     \/ /\ l = home[e] /\ g[e] \in {"LOCK_EXITING", "WAITING"}
        /\ \A y \in Entry(w.tickets[l], e) : y.ready

LEMMA EasedNotes ==
  ASSUME TwoLeaders, NEW l \in Leader, NEW S, NEW r, NEW v, NEW w, Eased(l, S, r, v, w),
         NEW home, NEW g, Core(home, g, v), NEW e \in Client
  PROVE  Noted(e, l, r, home, g, w)
<1>1. \A i \in DOMAIN r : r[i].type = "TICKET_READY"
  BY DEF Eased, Readied
<1>2. /\ \A T : "TICKET_READY" \notin T => Lacks(r, Of(e, T))
      /\ Lacks(r, Drops(e)) /\ Lacks(r, Dones(e))
      /\ \A K : Lacks(r, {m \in Of(e, {"ADD_TICKET"}) : m.key # K})
  BY <1>1 DEF Lacks, Of, Drops, Dones
<1>3. ASSUME ~Lacks(r, Grants(e))
      PROVE  /\ l = home[e] /\ g[e] \in {"LOCK_EXITING", "WAITING"}
             /\ \A y \in Entry(w.tickets[l], e) : y.ready
  <2>1. PICK i \in DOMAIN r : r[i].key.client = e
    BY <1>3 DEF Lacks, Grants, Of, Dones
  <2>2. PICK y \in Entry(w.tickets[l], e) : y.quorum /\ y.ready /\ ~y.locked
    BY <2>1 DEF Eased, Readied, Entry
  <2>3. Softer(v.tickets[l], w.tickets[l], S)
    BY DEF Eased
  <2>4. PICK x \in Entry(v.tickets[l], e) : Eases(x, y, S)
    BY <2>3, SofterEntries
  <2>5. x.quorum /\ ~x.locked
    BY <2>2, <2>4 DEF Eases
  <2>6. /\ Entry(v.tickets[l], e) = {x} /\ x.owner = l
        /\ \/ Gone(x, l)
           \/ l = home[e] /\ g[e] \in Late /\ AtHome(x, home[e], g[e])
    <3> DEFINE h == home[e]
               st == g[e]
    <3>1. h \in Leader /\ st \in Stage /\ Own(e, h, st, v) /\ World(v)
      BY DEF Core, Eased
    <3> HIDE DEF h, st
    <3>2. /\ Entry(v.tickets[l], e) = {x} /\ x.owner = l
          /\ \/ Gone(x, l)
             \/ l = h /\ st \in Late /\ AtHome(x, h, st)
      BY <2>5, <3>1, Quorate
    <3> QED BY <3>2 DEF h, st
  <2>7. l = home[e] /\ g[e] \in Late \ Granted
    BY <2>5, <2>6 DEF Gone, AtHome
  <2>8. Entry(w.tickets[l], e) = {y}
    <3> DEFINE A == v.tickets[l]
               B == w.tickets[l]
    <3>1. Softer(A, B, S) /\ Entry(A, e) = {x} /\ y \in Entry(B, e)
      BY <2>2, <2>3, <2>6
    <3> HIDE DEF A, B
    <3>2. \E z \in Ticket : Entry(B, e) = {z}
      BY <3>1, SofterOne
    <3> QED BY <3>1, <3>2 DEF B
  <2> QED BY <2>2, <2>7, <2>8 DEF Late
<1> QED
  BY <1>2, <1>3 DEF Noted

\* The tickets of a client are at the same stage.
LEMMA EasesStage ==
  ASSUME NEW x, NEW y, NEW S, Eases(x, y, S), NEW h, NEW st
  PROVE  /\ AtHome(x, h, st) /\ (x.client \in S => st \in Late) => AtHome(y, h, st)
         /\ AtOther(x, h, st) /\ (x.client \in S => st \in Late \ {"LOCK_EXITING"}) => AtOther(y, h, st)
         /\ \A k : Gone(x, k) => Gone(y, k)
         /\ KeyOf(y) = KeyOf(x) /\ y.client = x.client /\ y.number = x.number
<1>1. /\ KeyOf(y) = KeyOf(x) /\ y.client = x.client /\ y.number = x.number /\ y.owner = x.owner
      /\ y.rank = x.rank /\ y.listed = x.listed /\ y.maxAsked = x.maxAsked /\ y.added = x.added
      /\ y.quorum = x.quorum /\ y.locked = x.locked /\ (y.entering <=> x.entering /\ x.client \notin S)
      /\ x.quorum => (y.ready <=> y.still = {}) /\ (x.ready => y.ready)
      /\ ~x.quorum => y.ready = x.ready
      /\ x.listed \in BOOLEAN /\ x.maxAsked \in BOOLEAN /\ x.added \in BOOLEAN /\ x.quorum \in BOOLEAN
      /\ x.locked \in BOOLEAN /\ x.ready \in BOOLEAN /\ x.entering \in BOOLEAN
  BY DEF Eases, KeyOf, Ticket
<1>2. Late \cap (Opening \cup {"LOCK_ENTERED"} \cup Choosing) = {} /\ Granted \subseteq Late
  BY DEF Late, Opening, Choosing, Granted
<1>3. AtHome(x, h, st) /\ (x.client \in S => st \in Late) => AtHome(y, h, st)
  BY <1>1, <1>2 DEF AtHome
<1>4. AtOther(x, h, st) /\ (x.client \in S => st \in Late \ {"LOCK_EXITING"}) => AtOther(y, h, st)
  BY <1>1, <1>2 DEF AtOther
<1>5. \A k : Gone(x, k) => Gone(y, k)
  BY <1>1 DEF Gone
<1> QED
  BY <1>1, <1>3, <1>4, <1>5

LEMMA EasedLeft ==
  ASSUME TwoLeaders, NEW l \in Leader, NEW S, NEW r, NEW v, NEW w, Eased(l, S, r, v, w),
         NEW home, NEW g, Core(home, g, v), NEW e \in Client, NEW k \in Leader
  PROVE  /\ Left(e, k, w) <=> Left(e, k, v)
         /\ Rid(e, k, v) => Rid(e, k, w)
<1> DEFINE q == v.net[Other(k)][k]
           q2 == w.net[Other(k)][k]
<1>1. Spreads(q, q2, r)
  <2>1. Other(k) \in Leader /\ Other(Other(k)) = k
    BY OtherLeader
  <2>2. Spreads(v.net[Other(k)][Other(Other(k))], w.net[Other(k)][Other(Other(k))], r)
    BY <2>1, EasedWires
  <2> QED BY <2>1, <2>2
<1>2. Lacks(r, Drops(e))
  BY EasedNotes DEF Noted
<1> HIDE DEF q, q2
<1>3. Left(e, k, w) <=> Left(e, k, v)
  <2>1. Lacks(q2, Drops(e)) <=> Lacks(q, Drops(e))
    BY <1>1, <1>2 DEF Spreads
  <2> QED BY <2>1 DEF Left, q, q2
<1>4. ASSUME Rid(e, k, v) PROVE Rid(e, k, w)
  <2> DEFINE A == v.tickets[k]
             B == w.tickets[k]
             Z == At(k, l, S)
  <2>1. Softer(A, B, Z)
    BY EasedTables
  <2> HIDE DEF A, B, Z
  <2>2. CASE Entry(A, e) = {} /\ ~Left(e, k, v)
    <3>1. Entry(B, e) = {}
      BY <2>1, <2>2, SofterEntries
    <3> QED BY <1>3, <2>2, <3>1 DEF Rid, B
  <2>3. ASSUME Left(e, k, v), NEW x \in Ticket, Entry(A, e) = {x}, Gone(x, k),
               Lacks(q, {m \in Drops(e) : m.key # KeyOf(x)})
        PROVE  Rid(e, k, w)
    <3>1. PICK y \in Ticket : Entry(B, e) = {y} /\ Eases(x, y, Z)
      BY <2>1, <2>3, SofterOne
    <3>2. Gone(y, k) /\ KeyOf(y) = KeyOf(x)
      BY <2>3, <3>1, EasesStage
    <3>3. Lacks(q2, {m \in Drops(e) : m.key # KeyOf(x)})
      <4> DEFINE X == {m \in Drops(e) : m.key # KeyOf(x)}
      <4>1. Lacks(r, X)
        BY <1>2 DEF Lacks
      <4>2. Lacks(q, X)
        BY <2>3
      <4> HIDE DEF X
      <4>3. Lacks(q2, X)
        BY <1>1, <4>1, <4>2 DEF Spreads
      <4> QED BY <4>3 DEF X
    <3> QED BY <1>3, <2>3, <3>1, <3>2, <3>3 DEF Rid, B, q2
  <2> QED BY <1>4, <2>2, <2>3 DEF Rid, A, q
<1> QED
  BY <1>3, <1>4

\* The place of client d allows that it leaves.
LEMMA LeavesStage ==
  ASSUME TwoLeaders, NEW l \in Leader, NEW S, NEW home, NEW g, Leaves(l, S, home, g), NEW e \in Client
  PROVE  /\ e \in At(home[e], l, S) => g[e] \in Late
         /\ e \in At(Other(home[e]), l, S) => g[e] \in Late \ {"LOCK_EXITING"}
         /\ \A k : \A d \in At(k, l, S) : d \in Client /\ g[d] \in Late
<1>1. \A k : \A d \in At(k, l, S) : k = l /\ d \in S
  BY DEF At
<1>2. e \in At(Other(home[e]), l, S) => home[e] # l
  <2>1. ASSUME home[e] = l PROVE Other(home[e]) # l
    BY <2>1, OtherLeader
  <2> QED BY <1>1, <2>1
<1> QED
  BY <1>1, <1>2 DEF Leaves

LEMMA EasedKeeps ==
  ASSUME TwoLeaders, NEW l \in Leader, NEW S, NEW r, NEW v, NEW w, Eased(l, S, r, v, w),
         NEW home, NEW g, Core(home, g, v), Leaves(l, S, home, g), NEW e \in Client
  PROVE  Keeps(e, home[e], g[e], w)
<1> DEFINE h == home[e]
           st == g[e]
           o == Other(h)
           p == v.net[h][o]
           p2 == w.net[h][o]
<1>1. h \in Leader /\ st \in Stage /\ Keeps(e, h, st, v)
  BY DEF Core, Own
<1>2. o \in Leader
  BY <1>1, OtherLeader
<1>3. /\ Left(e, h, w) <=> Left(e, h, v)
      /\ Left(e, o, w) <=> Left(e, o, v)
      /\ Rid(e, h, v) => Rid(e, h, w)
      /\ Rid(e, o, v) => Rid(e, o, w)
  BY <1>1, <1>2, EasedLeft
<1>4. Softer(v.tickets[h], w.tickets[h], At(h, l, S)) /\ Softer(v.tickets[o], w.tickets[o], At(o, l, S))
  BY <1>1, <1>2, EasedTables
<1>5. (e \in At(h, l, S) => st \in Late) /\ (e \in At(o, l, S) => st \in Late \ {"LOCK_EXITING"})
  BY LeavesStage
<1>6. \A K : Lacks(p, {m \in Of(e, {"ADD_TICKET"}) : m.key # K})
             => Lacks(p2, {m \in Of(e, {"ADD_TICKET"}) : m.key # K})
  <2>1. Spreads(p, p2, r)
    BY <1>1, EasedWires
  <2>2. \A K : Lacks(r, {m \in Of(e, {"ADD_TICKET"}) : m.key # K})
    <3>1. Noted(e, l, r, home, g, w)
      BY EasedNotes
    <3> QED BY <3>1, Zenon DEF Noted
  <2> HIDE DEF p, p2
  <2> QED BY <2>1, <2>2 DEF Spreads
<1> DEFINE A == v.tickets[h]
           B == w.tickets[h]
           A2 == v.tickets[o]
           B2 == w.tickets[o]
           Z == At(h, l, S)
           Z2 == At(o, l, S)
<1>7. /\ st \in Outside => Rid(e, h, w)
      /\ st \in Outside \cup Opening => Rid(e, o, w)
  BY <1>1, <1>3 DEF Keeps
<1>8. ASSUME st \notin Outside
      PROVE  /\ ~Left(e, h, w)
             /\ \E t \in Ticket : Entry(B, e) = {t} /\ AtHome(t, h, st)
                                  /\ Lacks(p2, {m \in Of(e, {"ADD_TICKET"}) : m.key # KeyOf(t)})
  <2>1. PICK x \in Ticket : Entry(A, e) = {x} /\ AtHome(x, h, st)
                            /\ Lacks(p, {m \in Of(e, {"ADD_TICKET"}) : m.key # KeyOf(x)})
    BY <1>1, <1>8 DEF Keeps
  <2>2. ~Left(e, h, w)
    BY <1>1, <1>3, <1>8 DEF Keeps
  <2>3. x.client = e
    BY <2>1 DEF Entry
  <2> HIDE DEF A, B, Z, h, st, p, p2
  <2>4. PICK y \in Ticket : Entry(B, e) = {y} /\ Eases(x, y, Z)
    <3>1. Softer(A, B, Z)
      BY <1>4 DEF A, B, Z
    <3> QED BY <2>1, <3>1, SofterOne
  <2>5. AtHome(y, h, st) /\ KeyOf(y) = KeyOf(x)
    BY <1>5, <2>1, <2>3, <2>4, EasesStage DEF Z
  <2>6. Lacks(p2, {m \in Of(e, {"ADD_TICKET"}) : m.key # KeyOf(y)})
    BY <1>6, <2>1, <2>5
  <2> QED BY <2>2, <2>4, <2>5, <2>6
<1>9. ASSUME st \notin Outside \cup Opening
      PROVE  /\ ~Left(e, o, w)
             /\ \E t \in Ticket : /\ Entry(B2, e) = {t} /\ AtOther(t, h, st)
                                  /\ st \in {"TICKET_ADDED"} \cup Late =>
                                       \A u \in Entry(B, e) : u.number = t.number
  <2>1. PICK x \in Ticket : /\ Entry(A2, e) = {x} /\ AtOther(x, h, st)
                            /\ st \in {"TICKET_ADDED"} \cup Late =>
                                 \A u \in Entry(A, e) : u.number = x.number
    BY <1>1, <1>9 DEF Keeps
  <2>2. ~Left(e, o, w)
    BY <1>1, <1>3, <1>9 DEF Keeps
  <2>3. x.client = e
    BY <2>1 DEF Entry
  <2> HIDE DEF A, B, A2, B2, Z, Z2, h, st, p, p2
  <2>4. PICK y \in Ticket : Entry(B2, e) = {y} /\ Eases(x, y, Z2)
    <3>1. Softer(A2, B2, Z2)
      BY <1>4 DEF A2, B2, Z2
    <3>2. Entry(A2, e) = {x}
      BY <2>1
    <3> QED BY <3>1, <3>2, SofterOne
  <2>5. AtOther(y, h, st) /\ y.number = x.number
    BY <1>5, <2>1, <2>3, <2>4, EasesStage DEF Z2
  <2>6. ASSUME st \in {"TICKET_ADDED"} \cup Late, NEW u \in Entry(B, e) PROVE u.number = y.number
    <3>1. Softer(A, B, Z)
      BY <1>4 DEF A, B, Z
    <3>2. PICK a \in Entry(A, e) : Eases(a, u, Z)
      BY <3>1, SofterEntries
    <3> QED BY <2>1, <2>5, <2>6, <3>2 DEF Eases
  <2> QED BY <2>2, <2>4, <2>5, <2>6
<1> QED
  BY <1>7, <1>8, <1>9 DEF Keeps

LEMMA EasedOwn ==
  ASSUME TwoLeaders, NEW l \in Leader, NEW S, NEW r, NEW v, NEW w, Eased(l, S, r, v, w),
         NEW home, NEW g, Core(home, g, v), Leaves(l, S, home, g), NEW e \in Client
  PROVE  Own(e, home[e], g[e], w)
<1> DEFINE h == home[e]
           st == g[e]
           o == Other(h)
           p == v.net[h][o]
           p2 == w.net[h][o]
           q == v.net[o][h]
           q2 == w.net[o][h]
<1>1. h \in Leader /\ st \in Stage /\ Own(e, h, st, v)
  BY DEF Core
<1>2. o \in Leader /\ Other(o) = h
  BY <1>1, OtherLeader
<1>3. Spreads(p, p2, r) /\ Spreads(q, q2, r) /\ (l = h => q2 = q)
  <2>1. Spreads(p, p2, r)
    BY <1>1, EasedWires
  <2>2. Spreads(v.net[o][Other(o)], w.net[o][Other(o)], r) /\ (o # l => w.net[o][Other(o)] = v.net[o][Other(o)])
    BY <1>2, EasedWires
  <2>3. o # h
    BY <1>1, OtherLeader
  <2> QED BY <1>2, <2>1, <2>2, <2>3
<1>4. Noted(e, l, r, home, g, w)
  BY EasedNotes
<1>5. Talks(e, h, st, w)
  <2>1. Talks(e, h, st, v) /\ w.net[e] = v.net[e] /\ w.mail[e] = v.mail[e]
    BY <1>1 DEF Own, Eased
  <2> QED BY <2>1 DEF Talks
<1>6. Moves(e, h, st, w)
  <2>1. Moves(e, h, st, v)
    BY <1>1 DEF Own
  <2>2. \A T : T \subseteq Steps => Lacks(r, Of(e, T)) /\ Lacks(r, Of(e, Steps \ T))
    <3>1. "TICKET_READY" \notin Steps
      BY DEF Steps, Asks, Down, Up
    <3> QED BY <1>4, <3>1 DEF Noted
  <2>3. /\ \A T : Bears(p, e, T) /\ T \subseteq Steps => Bears(p2, e, T)
        /\ \A T : Bears(q, e, T) /\ T \subseteq Steps => Bears(q2, e, T)
    BY <1>3, <2>2 DEF Bears, Spreads
  <2>4. Bears(p2, e, Down \cap {st}) /\ Bears(q2, e, Up \cap {st})
    BY <2>1, <2>3 DEF Moves, Steps
  <2>5. ASSUME NEW k \in Leader PROVE Once(w.net[k][Other(k)], Drops(e))
    <3>1. Spreads(v.net[k][Other(k)], w.net[k][Other(k)], r)
      BY EasedWires
    <3> QED BY <1>4, <2>1, <3>1 DEF Spreads, Noted, Moves
  <2> QED BY <2>4, <2>5 DEF Moves
<1>7. InOrder(e, h, st, w)
  <2>1. InOrder(e, h, st, v)
    BY <1>1 DEF Own
  <2>2. /\ Lacks(r, Grants(e)) \/ (l = h /\ st \in {"LOCK_EXITING", "WAITING"})
        /\ Lacks(r, Drops(e)) /\ \A T : "TICKET_READY" \notin T => Lacks(r, Of(e, T))
    BY <1>4 DEF Noted
  <2>3. /\ \A X : Lacks(p, X) /\ Lacks(r, X) => Lacks(p2, X)
        /\ \A X : Lacks(q, X) /\ Lacks(r, X) => Lacks(q2, X)
        /\ \A A, B : Ahead(p, A, B) /\ Lacks(r, A) => Ahead(p2, A, B)
        /\ \A A, B : Ahead(q, A, B) /\ Lacks(r, A) => Ahead(q2, A, B)
    BY <1>3 DEF Spreads
  <2>4. /\ st = "LOCK_ENTERING" => Ahead(p, Grants(e) \cup Drops(e), Of(e, {st}))
        /\ st = "LOCK_ENTERED" => Lacks(p, Grants(e)) /\ Ahead(q, Grants(e), Of(e, {st}))
        /\ st \in Choosing => Lacks(p, Grants(e)) /\ Lacks(q, Grants(e))
        /\ st = "LOCK_EXITING" => Lacks(q, Grants(e)) /\ Ahead(p, Of(e, {st}), Grants(e))
        /\ st = "WAITING" => Lacks(q, Of(e, {"TICKET_READY"}))
    BY <2>1 DEF InOrder
  <2> HIDE DEF h, st, o, p, q, p2, q2
  <2>5. st = "LOCK_ENTERING" => Ahead(p2, Grants(e) \cup Drops(e), Of(e, {st}))
    <3>1. Lacks(r, Grants(e)) => Lacks(r, Grants(e) \cup Drops(e))
      BY <2>2 DEF Lacks
    <3> QED BY <2>2, <2>3, <2>4, <3>1
  <2>6. st = "LOCK_ENTERED" => Lacks(p2, Grants(e)) /\ Ahead(q2, Grants(e), Of(e, {st}))
    BY <2>2, <2>3, <2>4
  <2>7. st \in Choosing => Lacks(p2, Grants(e)) /\ Lacks(q2, Grants(e))
    BY <2>2, <2>3, <2>4 DEF Choosing
  <2>8. st = "LOCK_EXITING" => Lacks(q2, Grants(e)) /\ Ahead(p2, Of(e, {st}), Grants(e))
    BY <1>3, <2>2, <2>3, <2>4
  <2>9. st = "WAITING" => Lacks(q2, Of(e, {"TICKET_READY"}))
    <3>1. Lacks(r, Grants(e)) => Lacks(r, Of(e, {"TICKET_READY"}))
      BY DEF Lacks, Grants, Of
    <3> QED BY <1>3, <2>2, <2>3, <2>4, <3>1
  <2>10. InOrder(e, h, st, w)
    BY <2>5, <2>6, <2>7, <2>8, <2>9 DEF InOrder, o, p2, q2
  <2> QED BY <2>10 DEF h, st
<1> QED
  BY <1>5, <1>6, <1>7, EasedKeeps DEF Own

LEMMA EasedSure ==
  ASSUME TwoLeaders, NEW l \in Leader, NEW S, NEW r, NEW v, NEW w, Eased(l, S, r, v, w),
         NEW home, NEW g, Core(home, g, v), Leaves(l, S, home, g), NEW e \in Client
  PROVE  Sure(e, home[e], g[e], w)
<1> DEFINE h == home[e]
           st == g[e]
           o == Other(h)
           p == v.net[h][o]
           p2 == w.net[h][o]
           q == v.net[o][h]
           q2 == w.net[o][h]
           A == v.tickets[h]
           B == w.tickets[h]
           A2 == v.tickets[o]
           B2 == w.tickets[o]
           Z == At(h, l, S)
           Z2 == At(o, l, S)
<1>1. h \in Leader /\ st \in Stage /\ Own(e, h, st, v) /\ Sure(e, h, st, v)
  BY DEF Core
<1>2. o \in Leader /\ Other(o) = h
  BY <1>1, OtherLeader
<1>3. Spreads(p, p2, r) /\ Spreads(q, q2, r)
  <2>1. Spreads(p, p2, r)
    BY <1>1, EasedWires
  <2>2. Spreads(v.net[o][Other(o)], w.net[o][Other(o)], r)
    BY <1>2, EasedWires
  <2> QED BY <1>2, <2>1, <2>2
<1>4. Noted(e, l, r, home, g, w)
  BY EasedNotes
<1>5. Softer(A, B, Z) /\ Softer(A2, B2, Z2)
  BY <1>1, <1>2, EasedTables
<1>6. SUFFICES ASSUME st \in {"LOCK_EXITING", "WAITING"}, NEW y \in Entry(B, e)
      PROVE  /\ ~Lacks(p2, Grants(e)) \/ ~Lacks(q2, Grants(e)) => y.ready
             /\ \A u \in Entry(B2, e) : u.ready => y.ready
             /\ ~Lacks(p2, Of(e, {"ACTIVATE_LOCK"})) => Clear(B, y)
             /\ ~Lacks(q2, Of(e, {"ACTIVATE_LOCK"})) => Clear(B2, y)
             /\ ~Lacks(p2, Dones(e)) \/ ~Lacks(q2, Dones(e)) => Clear(B, y) /\ Clear(B2, y)
  BY DEF Sure
<1>7. PICK x \in Entry(A, e) : Eases(x, y, Z)
  BY <1>5, <1>6, SofterEntries
<1>8. /\ ~Lacks(p, Grants(e)) \/ ~Lacks(q, Grants(e)) => x.ready
      /\ \A u \in Entry(A2, e) : u.ready => x.ready
      /\ ~Lacks(p, Of(e, {"ACTIVATE_LOCK"})) => Clear(A, x)
      /\ ~Lacks(q, Of(e, {"ACTIVATE_LOCK"})) => Clear(A2, x)
      /\ ~Lacks(p, Dones(e)) \/ ~Lacks(q, Dones(e)) => Clear(A, x) /\ Clear(A2, x)
  BY <1>1, <1>6, <1>7 DEF Sure
<1>9. /\ AtHome(x, h, st)
      /\ \A u \in Entry(A2, e) : AtOther(u, h, st)
  <2>1. Keeps(e, h, st, v) /\ st \notin Outside \cup Opening
    BY <1>1, <1>6 DEF Own, Outside, Opening
  <2>2. \E a, b : Both(a, b, e, h, o, st, v)
    BY <2>1, Inside
  <2>3. PICK a, b : Entry(A, e) = {a} /\ AtHome(a, h, st) /\ Entry(A2, e) = {b} /\ AtOther(b, h, st)
    BY <2>2 DEF Both
  <2> HIDE DEF A, A2
  <2> QED BY <1>7, <2>3
<1>10. x.ready => y.ready
  <2>1. x.quorum
    BY <1>6, <1>9 DEF AtHome, Late
  <2> QED BY <1>7, <2>1 DEF Eases
<1>11. (Clear(A, x) => Clear(B, y)) /\ (Clear(A2, x) => Clear(B2, y))
  <2>1. y.client = x.client /\ KeyOf(y) = KeyOf(x)
    BY <1>7, EasesStage
  <2> HIDE DEF A, B, A2, B2, Z, Z2
  <2> QED BY <1>5, <2>1, SofterClear
<1>12. \A u \in Entry(B2, e) : u.ready => y.ready
  <2> SUFFICES ASSUME NEW u \in Entry(B2, e), u.ready PROVE y.ready
    OBVIOUS
  <2>1. PICK a \in Entry(A2, e) : Eases(a, u, Z2)
    BY <1>5, SofterEntries
  <2>2. ~a.quorum
    BY <1>9 DEF AtOther
  <2>3. a.ready
    BY <2>1, <2>2 DEF Eases
  <2> QED BY <1>8, <1>10, <2>3
<1>13. /\ Lacks(r, Dones(e)) /\ Lacks(r, Of(e, {"ACTIVATE_LOCK"}))
       /\ Lacks(r, Grants(e)) \/ y.ready
  BY <1>4, <1>6 DEF Noted
<1>14. /\ ~Lacks(p2, Grants(e)) => ~Lacks(p, Grants(e)) \/ y.ready
       /\ ~Lacks(q2, Grants(e)) => ~Lacks(q, Grants(e)) \/ y.ready
       /\ ~Lacks(p2, Of(e, {"ACTIVATE_LOCK"})) => ~Lacks(p, Of(e, {"ACTIVATE_LOCK"}))
       /\ ~Lacks(q2, Of(e, {"ACTIVATE_LOCK"})) => ~Lacks(q, Of(e, {"ACTIVATE_LOCK"}))
       /\ ~Lacks(p2, Dones(e)) => ~Lacks(p, Dones(e))
       /\ ~Lacks(q2, Dones(e)) => ~Lacks(q, Dones(e))
  <2> HIDE DEF p, q, p2, q2
  <2> QED BY <1>3, <1>13 DEF Spreads
<1> HIDE DEF A, B, A2, B2, Z, Z2, h, st, o, p, q, p2, q2
<1> QED
  BY <1>8, <1>10, <1>11, <1>12, <1>14

LEMMA EasedWaits ==
  ASSUME TwoLeaders, NEW l \in Leader, NEW S, NEW r, NEW v, NEW w, Eased(l, S, r, v, w),
         NEW home, NEW g, Core(home, g, v), Leaves(l, S, home, g), NEW e \in Client
  PROVE  Waits(e, home, g, w)
<1> SUFFICES ASSUME NEW k \in Leader, NEW y \in Entry(w.tickets[k], e), y.owner = k, y.quorum
             PROVE  Queued(y, k, home, g, w)
  BY DEF Waits
<1> DEFINE A == v.tickets[k]
           B == w.tickets[k]
           Z == At(k, l, S)
<1>1. \A d \in Leader : Softer(v.tickets[d], w.tickets[d], At(d, l, S))
  BY EasedTables
<1>2. PICK x \in Entry(A, e) : Eases(x, y, Z)
  BY <1>1, SofterEntries
<1>3. /\ Waits(e, home, g, v)
      /\ home \in [Client -> Leader] /\ g \in [Client -> Stage]
  BY DEF Core
<1>4. /\ x.owner = k /\ x.quorum /\ y.client = x.client /\ x.client = e /\ y.number = x.number
      /\ KeyOf(y) = KeyOf(x) /\ y.locked = x.locked /\ Held(y) = Held(x) \ Z
  BY <1>2 DEF Eases, Entry, KeyOf
<1>5. Queued(x, k, home, g, v)
  BY <1>2, <1>3, <1>4 DEF Waits
<1>6. \A d \in Z : d \in Client /\ g[d] \in Late
  BY LeavesStage
<1>7. ASSUME NEW d \in Client, d # e, d \notin Held(y) PROVE Later(y, k, d, home[d], g[d], w)
  <2>1. CASE d \in Z
    <3>1. g[d] \in Late
      BY <1>6, <2>1
    <3>2. g[d] \notin {"GET_MAX_TICKET", "MAX_TICKET", "ADD_TICKET"}
      BY <3>1 DEF Late, Granted
    <3> QED BY <3>2 DEF Later
  <2>2. CASE d \notin Z
    <3> DEFINE f == home[d]
               sd == g[d]
    <3>1. Later(x, k, d, f, sd, v)
      BY <1>4, <1>5, <1>7, <2>2 DEF Queued
    <3>2. f \in Leader
      BY <1>3
    <3> HIDE DEF f, sd
    <3>3. \A b \in Entry(w.tickets[f], d) : \E a \in Entry(v.tickets[f], d) :
            b.number = a.number /\ KeyOf(b) = KeyOf(a)
      <4>1. Softer(v.tickets[f], w.tickets[f], At(f, l, S))
        BY <1>1, <3>2
      <4>2. \A b \in Entry(w.tickets[f], d) : \E a \in Entry(v.tickets[f], d) : Eases(a, b, At(f, l, S))
        BY <4>1, SofterEntries
      <4> QED BY <4>2, EasesStage
    <3>4. ASSUME f # k, sd = "GET_MAX_TICKET", Led(v.net[f][k], Drops(x.client), Of(d, {sd}))
          PROVE  Led(w.net[f][k], Drops(y.client), Of(d, {sd}))
      <4>1. k = Other(f)
        BY <3>2, <3>4, OtherLeader
      <4>2. Spreads(v.net[f][Other(f)], w.net[f][Other(f)], r)
        BY <3>2, EasedWires
      <4>3. Lacks(r, Of(d, {sd}))
        <5>1. Noted(d, l, r, home, g, w)
          BY EasedNotes
        <5> QED BY <3>4, <5>1 DEF Noted
      <4> QED BY <1>4, <3>4, <4>1, <4>2, <4>3 DEF Spreads
    <3>5. Later(y, k, d, f, sd, w)
      BY <1>4, <3>1, <3>3, <3>4 DEF Later
    <3> QED BY <3>5 DEF f, sd
  <2> QED BY <2>1, <2>2
<1>8. ASSUME NEW d \in Held(y) PROVE \E u \in Entry(B, d) : u.entering
  <2>1. d \in Held(x) /\ d \notin Z
    BY <1>4, <1>8
  <2>2. PICK a \in Entry(A, d) : a.entering
    BY <1>5, <2>1 DEF Queued
  <2>3. PICK b \in Entry(B, d) : Eases(a, b, Z)
    BY <1>1, SofterEntries
  <2>4. a.client = d
    BY DEF Entry
  <2> QED BY <2>1, <2>2, <2>3, <2>4 DEF Eases
<1>9. ASSUME y.locked, NEW d \in Leader PROVE Clear(w.tickets[d], y)
  <2>1. Clear(v.tickets[d], x)
    BY <1>4, <1>5, <1>9 DEF Queued
  <2>2. Softer(v.tickets[d], w.tickets[d], At(d, l, S))
    BY <1>1
  <2> QED BY <1>4, <2>1, <2>2, SofterClear
<1>10. y.client = e
  BY <1>4
<1> QED
  BY <1>7, <1>8, <1>9, <1>10 DEF Queued

\* Nobody minds that tickets wait for less.
LEMMA EasedCore ==
  ASSUME TwoLeaders, NEW l \in Leader, NEW S, NEW r, NEW v, NEW w, Eased(l, S, r, v, w),
         NEW home, NEW g, Core(home, g, v), Leaves(l, S, home, g)
  PROVE  /\ Core(home, g, w)
         /\ \A e \in Client : Quits(e, home[e], g[e], v) => Quits(e, home[e], g[e], w)
<1>1. Core(home, g, w)
  <2>1. home \in [Client -> Leader] /\ g \in [Client -> Stage]
    BY DEF Core
  <2> QED BY <2>1, EasedOwn, EasedWaits, EasedSure DEF Core
<1>2. ASSUME NEW e \in Client, Quits(e, home[e], g[e], v) PROVE Quits(e, home[e], g[e], w)
  <2> DEFINE h == home[e]
             st == g[e]
             o == Other(h)
  <2>1. h \in Leader /\ o \in Leader
    BY OtherLeader DEF Core
  <2>2. ASSUME NEW k \in Leader, \A t \in Entry(v.tickets[k], e) : ~t.entering,
               NEW u \in Entry(w.tickets[k], e)
        PROVE  ~u.entering
    <3>1. Softer(v.tickets[k], w.tickets[k], At(k, l, S))
      BY EasedTables
    <3>2. PICK a \in Entry(v.tickets[k], e) : Eases(a, u, At(k, l, S))
      BY <3>1, SofterEntries
    <3> QED BY <2>2, <3>2 DEF Eases
  <2>3. Spreads(v.net[h][o], w.net[h][o], r)
    BY <2>1, EasedWires
  <2>4. \A X : ~Lacks(v.net[h][o], X) => ~Lacks(w.net[h][o], X)
    BY <2>3 DEF Spreads
  <2> HIDE DEF h, st
  <2>5. Quits(e, h, st, w)
    BY <1>2, <2>1, <2>2, <2>4 DEF Quits, h, st
  <2> QED BY <2>5 DEF h, st
<1> QED
  BY <1>1, <1>2

-----------------------------------------------------------------------------
(* The client lives: ABSOLUTELY.                                           *)

\* The ticket x, an entry p of f_still_entering being put off until date k.
PutOff(x, p, k) ==
  [x EXCEPT !.still = {IF q = p THEN [q EXCEPT !.until = k] ELSE q : q \in @}]

LEMMA PutOffTicket ==
  ASSUME NEW x \in Punctual, NEW p, NEW k \in Nat, k > LastDate
  PROVE  LET y == PutOff(x, p, k)
         IN  /\ y \in Ticket /\ y \in Punctual /\ KeyOf(y) = KeyOf(x)
             /\ y = [x EXCEPT !.still = y.still]
             /\ Held(y) = Held(x) /\ (y.still = {} <=> x.still = {})
<1> DEFINE still == {IF q = p THEN [q EXCEPT !.until = k] ELSE q : q \in x.still}
           y == [x EXCEPT !.still = still]
<1>1. x \in Ticket /\ x.still \subseteq Pending
  BY DEF Punctual, Ticket
<1>2. \A q \in x.still : /\ [q EXCEPT !.until = k] \in Pending /\ [q EXCEPT !.until = k].client = q.client
                         /\ [q EXCEPT !.until = k].until = k
  BY <1>1 DEF Pending
<1>3. still \subseteq Pending /\ \A q \in still : q.until > LastDate
  BY <1>1, <1>2 DEF Punctual
<1>4. {q.client : q \in still} = {q.client : q \in x.still} /\ (still = {} <=> x.still = {})
  <2>1. \A r \in still : \E q \in x.still : r.client = q.client
    BY <1>2
  <2>2. \A q \in x.still : \E r \in still : r.client = q.client
    BY <1>2
  <2> HIDE DEF still
  <2>3. {q.client : q \in still} = {q.client : q \in x.still}
    <3>1. \A n \in {q.client : q \in still} : n \in {q.client : q \in x.still}
      BY <2>1
    <3>2. \A n \in {q.client : q \in x.still} : n \in {q.client : q \in still}
      BY <2>2
    <3> QED BY <3>1, <3>2
  <2> QED BY <2>1, <2>2, <2>3
<1> HIDE DEF still
<1>5. y \in Ticket /\ y = [x EXCEPT !.still = y.still] /\ y.still = still
  BY <1>1, <1>3 DEF Ticket
<1>6. KeyOf(y) = KeyOf(x) /\ Held(y) = Held(x)
  BY <1>1, <1>4, <1>5 DEF KeyOf, Held, Ticket
<1>7. y \in Punctual
  BY <1>1, <1>3, <1>5 DEF Punctual, Ticket
<1>8. PutOff(x, p, k) = y
  BY DEF PutOff, still
<1> HIDE DEF y
<1> QED
  BY <1>4, <1>5, <1>6, <1>7, <1>8

\* What becomes of the ticket x when the client of ticket t lives.
Lived(x, t, p) == PutOff(IF x = t THEN [t EXCEPT !.alive = 0] ELSE x, p, t.obtention)

LEMMA LivedTicket ==
  ASSUME NEW t \in Punctual, ~t.quorum, NEW x \in Punctual, x.quorum => (x.ready <=> x.still = {}),
         NEW p
  PROVE  LET y == Lived(x, t, p)
         IN  /\ y \in Ticket /\ y \in Punctual /\ Eases(x, y, {})
             /\ KeyOf(y) = KeyOf(x) /\ y.listed = x.listed /\ y.client = x.client
<1> DEFINE z == IF x = t THEN [t EXCEPT !.alive = 0] ELSE x
           y == PutOff(z, p, t.obtention)
<1>1. x \in Ticket /\ t \in Ticket /\ t.obtention \in Nat /\ t.obtention > LastDate
  BY DEF Punctual, Ticket
<1>2. z \in Punctual /\ z \in Ticket /\ KeyOf(z) = KeyOf(x) /\ z.still = x.still /\ Held(z) = Held(x)
  BY <1>1 DEF Punctual, Ticket, KeyOf, Held
<1>3. /\ z.client = x.client /\ z.owner = x.owner /\ z.number = x.number /\ z.rank = x.rank
      /\ z.listed = x.listed /\ z.maxAsked = x.maxAsked /\ z.added = x.added
      /\ z.quorum = x.quorum /\ z.locked = x.locked /\ z.entering = x.entering /\ z.ready = x.ready
  BY <1>1 DEF Ticket
<1> HIDE DEF z
<1>4. /\ y \in Ticket /\ y \in Punctual /\ KeyOf(y) = KeyOf(z)
      /\ y = [z EXCEPT !.still = y.still]
      /\ Held(y) = Held(z) /\ (y.still = {} <=> z.still = {})
  BY <1>1, <1>2, PutOffTicket
<1> HIDE DEF y
<1>5. /\ y.client = z.client /\ y.owner = z.owner /\ y.number = z.number /\ y.rank = z.rank
      /\ y.listed = z.listed /\ y.maxAsked = z.maxAsked /\ y.added = z.added
      /\ y.quorum = z.quorum /\ y.locked = z.locked /\ y.entering = z.entering /\ y.ready = z.ready
  BY <1>2, <1>4 DEF Ticket
<1>6. Held(y) = Held(x) \ {} /\ (y.still = {} <=> x.still = {}) /\ KeyOf(y) = KeyOf(x)
  BY <1>2, <1>4
<1>7. Eases(x, y, {})
  BY <1>1, <1>3, <1>4, <1>5, <1>6 DEF Eases
<1>8. Lived(x, t, p) = y
  BY DEF Lived, y, z
<1> QED
  BY <1>3, <1>4, <1>5, <1>6, <1>7, <1>8

Lives(S, t, p) == {Lived(x, t, p) : x \in S}

\* The tickets with the quorum wait for somebody or are ready.
Fit(S) == \A x \in S : x.quorum => (x.ready <=> x.still = {})

LEMMA LivedTable ==
  ASSUME NEW S, S \subseteq Punctual, IsFiniteSet(S), KeysDiffer(S),
         Fit(S), NEW t \in S, ~t.quorum, NEW p
  PROVE  /\ Lives(S, t, p) \subseteq Punctual
         /\ IsFiniteSet(Lives(S, t, p)) /\ KeysDiffer(Lives(S, t, p))
         /\ Softer(S, Lives(S, t, p), {})
<1> DEFINE f == [x \in S |-> Lived(x, t, p)]
           T == Lives(S, t, p)
<1>1. \A x \in S : LET y == Lived(x, t, p)
                   IN  /\ y \in Ticket /\ y \in Punctual /\ Eases(x, y, {})
                       /\ KeyOf(y) = KeyOf(x) /\ y.listed = x.listed
  BY LivedTicket DEF Fit
<1>2. S \in SUBSET Ticket
  BY DEF Punctual
<1>3. f \in [S -> Ticket] /\ \A x \in S : KeyOf(f[x]) = KeyOf(x) /\ (f[x].listed => x.listed)
  BY <1>1
<1>4. Range(f) = T
  BY DEF Range, Lives
<1>5. T \subseteq Punctual
  BY <1>1 DEF Lives
<1>6. T = {f[x] : x \in S} /\ \A x \in S : Eases(x, f[x], {})
  BY <1>1 DEF Lives
<1> HIDE DEF f, T
<1>7. IsFiniteSet(T) /\ KeysDiffer(T)
  BY <1>2, <1>3, <1>4, ImageTable
<1>8. Softer(S, T, {})
  BY <1>6 DEF Softer
<1> QED
  BY <1>5, <1>7, <1>8 DEF T


\* The leader asks the other one, now that it knows that the client lives.
LEMMA EnteringAsked ==
  ASSUME TwoLeaders, NEW l \in Leader, NEW c \in Client, NEW v, NEW w,
         NEW m \in Of(c, {"LOCK_ENTERING"}), Acts(l, c, <<m>>, v, w), Quiet(c, v), w.mail[c] = v.mail[c],
         w.tickets[l] = v.tickets[l],
         NEW home, NEW g, Core(home, g, v), home[c] = l, g[c] = "ABSOLUTELY",
         \A e \in Client \ {c} : Quits(e, home[e], g[e], v)
  PROVE  Pairing(Home(home, c, l), To(g, c, "LOCK_ENTERING"), w)
<1> DEFINE o == Other(l)
           st == "LOCK_ENTERING"
<1>1. Sides(l, o, c, v, w)
  BY OneWorld DEF Worlds
<1>2. st \in Down /\ st \in Opening /\ "ABSOLUTELY" \in Opening /\ st \notin Outside /\ "ABSOLUTELY" \notin Outside
  BY DEF Down, Opening, Outside
<1>3. Own(c, l, "ABSOLUTELY", v) /\ \A k \in Leader : Once(v.net[k][Other(k)], Drops(c))
  BY DEF Core, Own, Moves
<1>4. Wired(l, Other(l), c, m, st, v, w) /\ Posts(l, Other(l), l, c, m, st, v, w)
  BY <1>2, <1>3, PostsSome
<1> HIDE DEF o
<1>5. Rid(c, o, v) /\ ~Left(c, l, v)
  BY <1>2, <1>3 DEF Own, Keeps, o
<1>6. PICK t \in Ticket : Entry(v.tickets[l], c) = {t} /\ AtHome(t, l, "ABSOLUTELY")
  BY <1>2, <1>3 DEF Own, Keeps
<1>7. AtHome(t, l, st)
  BY <1>6 DEF AtHome, Opening, Choosing, Late, Granted
<1>8. Rid(c, o, w) /\ ~Left(c, l, w) /\ Talks(c, l, st, w) /\ Moves(c, l, st, w)
  BY <1>4, <1>5 DEF Posts, o
<1>9. Lacks(w.net[l][o], Of(c, {"ADD_TICKET"}))
  <2>1. Free(v.net[l][o], c) /\ "ADD_TICKET" \in Steps
    BY <1>4 DEF Wired, Steps, Down, o
  <2>2. Lacks(v.net[l][o], Of(c, {"ADD_TICKET"}))
    BY <2>1, FreeLacks
  <2>3. m \notin Of(c, {"ADD_TICKET"})
    BY DEF Of
  <2> QED BY <1>4, <2>2, <2>3 DEF Wired, o
<1>10. Ahead(w.net[l][o], Grants(c) \cup Drops(c), Of(c, {st}))
  BY <1>4 DEF Wired, o
<1>11. Keeps(c, l, st, w)
  BY <1>2, <1>6, <1>7, <1>8, <1>9, KeepsOpening DEF o
<1>12. InOrder(c, l, st, w)
  BY <1>10 DEF InOrder, o, Choosing
<1>13. Own(c, l, st, w)
  BY <1>8, <1>11, <1>12 DEF Own
<1>14. st \in Stage \ Late /\ st \notin {"GET_MAX_TICKET", "MAX_TICKET", "ADD_TICKET"}
  BY DEF Stage, Opening, Late, Granted
<1>15. Own(c, l, "LOCK_ENTERING", w) /\ "LOCK_ENTERING" \in Stage \ Late
  BY <1>13, <1>14
<1> DEFINE r == <<m>>
<1>16. Acts(l, c, r, v, w)
  OBVIOUS
<1> HIDE DEF st, r
<1>17. Entry(w.tickets[l], c) = Entry(v.tickets[l], c) /\ \A y \in Entry(w.tickets[l], c) : y \in v.tickets[l]
  BY DEF Entry
<1>18. "LOCK_ENTERING" \notin {"GET_MAX_TICKET", "MAX_TICKET", "ADD_TICKET"}
  OBVIOUS
<1> QED
  BY <1>15, <1>16, <1>17, <1>18, EarlyTo

\* What the entry of ticket t in the others' f_still_entering was, and the table after that.
Until(t, c) == [client |-> c, until |-> CurrentDate(t)]
Revived(D, t, c) == [D EXCEPT !.tickets = Lives(D.tickets, t, Until(t, c))]
Entering(t, c) == [Msg("LOCK_ENTERING", EnteringKey(c)) EXCEPT !.value = t.obtention]

LEMMA AbsolutelyActs ==
  ASSUME NEW s \in Node, NEW l \in Leader, MsgAbsolutely(s, l), Here(l) \in Context, ~OneLeader(Here(l)),
         NEW t \in Ticket, t \in Here(l).tickets, t.client = Head(net[s][l]).key.client,
         EnteringOf(Here(l), Head(net[s][l]).key.client) = {t}, ~t.locked
  PROVE  Done(s, l, SendToLeaders(Revived(Here(l), t, Head(net[s][l]).key.client),
                                  Entering(t, Head(net[s][l]).key.client)))
<1> DEFINE c == Received(s, l).key.client
           D == Here(l)
           t2 == One(EnteringOf(D, c))
           u == [t2 EXCEPT !.alive = 0]
           old == [client |-> c, until |-> CurrentDate(t2)]
           seen(v) == [v EXCEPT !.still =
                         {IF p = old THEN [p EXCEPT !.until = CurrentDate(u)] ELSE p : p \in @}]
           E == [D EXCEPT !.tickets = {seen(v) : v \in (@ \ {t2}) \cup {u}}]
<1>1. IF EnteringOf(D, c) = {} THEN Done(s, l, D)
      ELSE IF EnterOverflows(E, u) THEN Stop(s, l)
      ELSE Done(s, l, Enter(E, seen(u)))
  BY Zenon DEF MsgAbsolutely
<1>2. c = Head(net[s][l]).key.client
  BY DEF Received
<1>3. EnteringOf(D, c) # {} /\ t2 = t
  BY <1>2 DEF One
<1> HIDE DEF t2, c, D
<1>4. u = [t EXCEPT !.alive = 0] /\ old = Until(t, c)
  BY <1>3 DEF Until
<1>5. CurrentDate(u) = t.obtention /\ u.client = t.client /\ u.obtention = t.obtention
  BY <1>3 DEF CurrentDate, Ticket
<1> HIDE DEF u, old
<1>6. \A v : seen(v) = PutOff(v, Until(t, c), t.obtention)
  BY <1>4, <1>5, Zenon DEF PutOff
<1> HIDE DEF seen
<1>7. {seen(v) : v \in (D.tickets \ {t2}) \cup {u}} = Lives(D.tickets, t, Until(t, c))
  <2>1. \A x \in D.tickets : Lived(x, t, Until(t, c)) = seen(IF x = t THEN u ELSE x)
    BY <1>4, <1>6 DEF Lived
  <2>2. t \in D.tickets
    BY DEF D
  <2>3. ASSUME NEW z \in {seen(v) : v \in (D.tickets \ {t2}) \cup {u}}
        PROVE  z \in Lives(D.tickets, t, Until(t, c))
    <3>1. PICK v \in (D.tickets \ {t}) \cup {u} : z = seen(v)
      BY <1>3, <2>3
    <3>2. CASE v = u
      BY <2>1, <2>2, <3>1, <3>2 DEF Lives
    <3>3. CASE v \in D.tickets /\ v # t
      BY <2>1, <3>1, <3>3 DEF Lives
    <3> QED BY <3>1, <3>2, <3>3
  <2>4. ASSUME NEW z \in Lives(D.tickets, t, Until(t, c))
        PROVE  z \in {seen(v) : v \in (D.tickets \ {t2}) \cup {u}}
    <3>1. PICK x \in D.tickets : z = Lived(x, t, Until(t, c))
      BY <2>4 DEF Lives
    <3>2. z = seen(IF x = t THEN u ELSE x)
      BY <2>1, <3>1
    <3> QED BY <1>3, <3>2
  <2> QED BY <2>3, <2>4
<1>8. E = Revived(D, t, c)
  BY <1>7 DEF Revived
<1>9. ~OneLeader(E)
  <2>1. E.view = D.view
    BY DEF D, Context
  <2> QED BY <2>1 DEF OneLeader, D
<1> HIDE DEF E
<1>10. seen(u).client = c /\ seen(u).obtention = t.obtention
  <2>1. u \in Ticket
    BY <1>4 DEF Ticket
  <2>2. seen(u).client = u.client /\ seen(u).obtention = u.obtention
    BY <1>6, <2>1 DEF PutOff, Ticket
  <2> QED BY <1>2, <1>5, <2>2
<1>11. ~EnterOverflows(E, u)
  BY <1>9 DEF EnterOverflows
<1>12. Enter(E, seen(u)) = SendToLeaders(E, Entering(t, c))
  BY <1>9, <1>10 DEF Enter, Entering
<1>13. Done(s, l, SendToLeaders(Revived(D, t, c), Entering(t, c)))
  BY <1>1, <1>3, <1>8, <1>11, <1>12
<1> QED
  BY <1>2, <1>13 DEF D

LEMMA PairsAbsolutely ==
  ASSUME TwoLeaders, TypeInv, Timely, NEW home, NEW g, Pairing(home, g, Now),
         NEW s \in Node, NEW l \in Leader, MsgAbsolutely(s, l)
  PROVE  Advances(s, l, home, g)
<1> DEFINE m == Head(net[s][l])
           c == m.key.client
           D == Here(l)
           v == After(s, l, D)
           S == tickets[l]
<1>1. net[s][l] # <<>> /\ m.type = "ABSOLUTELY"
  BY DEF MsgAbsolutely, Arrived
<1>2. Begins("ABSOLUTELY", m, c, s, l, l, home, g, v)
  BY <1>1, AskBegins
<1> HIDE DEF m
<1>3. /\ c \in Client /\ g[c] = "ABSOLUTELY" /\ home \in [Client -> Leader] /\ g \in [Client -> Stage]
      /\ home[c] = l
      /\ Core(home, g, v) /\ Quiet(c, v) /\ Own(c, l, "ABSOLUTELY", v) /\ v.tickets[l] = S /\ World(v)
      /\ \A e \in Client \ {c} : Quits(e, home[e], g[e], v)
  BY <1>2 DEF Begins
<1>4. now \in Nat
  BY DEF TypeInv, TypeOK
<1> HIDE DEF v
<1>5. PICK t \in Ticket : Entry(S, c) = {t} /\ AtHome(t, l, "ABSOLUTELY")
  <2>1. "ABSOLUTELY" \notin Outside
    BY DEF Outside
  <2> QED BY <1>3, <2>1 DEF Own, Keeps
<1>6. t.client = c /\ t \in S /\ t.entering /\ ~t.quorum /\ ~t.listed /\ t.locked = FALSE
  BY <1>5 DEF AtHome, Opening, Late, Granted, Entry, Ticket
<1>7. Carries(l, D, S, <<>>, c, <<>>)
  BY <1>3, CarriesHere
<1>8. /\ D \in Context /\ D.tickets = S /\ ~OneLeader(D) /\ S \subseteq Punctual
      /\ IsFiniteSet(S) /\ KeysDiffer(S)
  <2>1. Prompt(l, D) /\ D.tickets = S
    BY <1>7 DEF Carries
  <2>2. ~OneLeader(D) /\ D \in Context
    BY <2>1, PromptTickets
  <2> QED BY <2>1, <2>2 DEF Prompt, Sound
<1> HIDE DEF D, c
<1>9. EnteringOf(D, c) = {t} /\ One({t}) = t
  BY <1>5, <1>6, <1>8, Lookup
<1> DEFINE p == Until(t, c)
           T == Lives(S, t, p)
           E == Revived(D, t, c)
           x == Entering(t, c)
           F == SendToLeaders(E, x)
           v2 == After(s, l, E)
           w == After(s, l, F)
<1>10. t \in Punctual /\ t.obtention \in Nat /\ t.obtention > LastDate
  BY <1>6, <1>8 DEF Punctual, Ticket
<1>11. Fit(S)
  <2> SUFFICES ASSUME NEW y \in S, y.quorum
               PROVE  y.ready <=> y.still = {}
    BY DEF Fit
  <2>1. y.client \in Client
    BY <1>8 DEF Punctual, Ticket
  <2>2. Own(y.client, home[y.client], g[y.client], v) /\ home[y.client] \in Leader /\ g[y.client] \in Stage
    BY <1>3, <2>1 DEF Core
  <2>3. y \in Entry(v.tickets[l], y.client)
    BY <1>3 DEF Entry
  <2> QED BY <1>3, <2>1, <2>2, <2>3, Quorate
<1> HIDE DEF p, S, T, x
<1>12. T \subseteq Punctual /\ IsFiniteSet(T) /\ KeysDiffer(T) /\ Softer(S, T, {})
  BY <1>6, <1>8, <1>10, <1>11, LivedTable DEF T
<1>13. E = [D EXCEPT !.tickets = T]
  BY <1>8 DEF Revived, T, p
<1>14. Carries(l, E, T, <<>>, c, <<>>)
  <2> DEFINE E2 == [D EXCEPT !.tickets = T]
  <2>1. Carries(l, E2, T, <<>>, c, <<>>)
    BY <1>7, <1>12, CarriesTable
  <2> HIDE DEF E2, E
  <2>2. E = E2
    BY <1>13 DEF E2
  <2> QED BY <2>1, <2>2
<1>15. Done(s, l, F)
  <2>1. D \in Context /\ ~OneLeader(D) /\ t \in D.tickets /\ EnteringOf(D, c) = {t} /\ t.client = c /\ ~t.locked
    BY <1>6, <1>8, <1>9
  <2> HIDE DEF E, F
  <2>2. Done(s, l, SendToLeaders(Revived(D, t, c), Entering(t, c)))
    BY <2>1, AbsolutelyActs DEF D, c, m
  <2> QED BY <2>2 DEF E, F, x
<1>16. x \in InTime /\ x \in Of(c, {"LOCK_ENTERING"}) /\ Lacks(<<x>>, Apart(c)) /\ <<x>> \in Seq(Message)
  BY <1>3, <1>10, PostingEntering DEF x, Entering
<1> HIDE DEF E
<1>17. Carries(l, F, T, <<x>>, c, <<>>)
  BY <1>14, <1>16, CarriesSend
<1> HIDE DEF F
<1>18. /\ Prompt(l, D) /\ Prompt(l, E) /\ Prompt(l, F) /\ Sound(l, D) /\ Sound(l, E) /\ Sound(l, F)
       /\ D.tickets = S /\ E.tickets = T /\ F.tickets = T
       /\ D.out[Other(l)] = <<>> /\ E.out[Other(l)] = <<>> /\ F.out[Other(l)] = <<x>>
       /\ \A e \in Client : D.mail[e] = <<>> /\ E.mail[e] = <<>> /\ F.mail[e] = <<>>
  BY <1>7, <1>14, <1>17 DEF Carries, Prompt
<1>19. v = After(s, l, D)
  BY DEF v, D
<1> HIDE DEF v2, w
<1>20. Eased(l, {}, <<>>, v, v2)
  <2> DEFINE r == <<>>
  <2>1. r \in Seq(Message) /\ E.out[Other(l)] = D.out[Other(l)] \o r
    BY <1>18
  <2> HIDE DEF r
  <2>2. GoneOn(After(s, l, D), After(s, l, E), l, Other(l), r, D, E)
    BY <1>1, <1>18, <2>1, GoOn
  <2>3. GoneOn(v, v2, l, Other(l), r, D, E)
    BY <1>19, <2>2 DEF v2
  <2>4. \A i \in DOMAIN r : Readied(r[i], v2.tickets[l])
    BY DEF r
  <2>5. Eased(l, {}, r, v, v2)
    BY <1>12, <1>18, <2>1, <2>3, <2>4 DEF Eased, GoneOn
  <2> QED BY <2>5 DEF r
<1>21. Leaves(l, {}, home, g)
  BY DEF Leaves
<1>22. Core(home, g, v2) /\ \A e \in Client : Quits(e, home[e], g[e], v) => Quits(e, home[e], g[e], v2)
  BY <1>3, <1>20, <1>21, EasedCore
<1>23. Acts(l, c, <<x>>, v2, w) /\ w.tickets[l] = v2.tickets[l] /\ w.mail[c] = v2.mail[c]
  <2> DEFINE r == <<x>>
  <2>1. r \in Seq(Message) /\ F.out[Other(l)] = E.out[Other(l)] \o r /\ Lacks(r, Apart(c))
    BY <1>16, <1>18
  <2> HIDE DEF r
  <2>2. Acted(After(s, l, E), After(s, l, F), l, c, r, E, F)
    BY <1>1, <1>3, <1>18, <2>1, Acting
  <2>3. Acted(v2, w, l, c, r, E, F)
    BY <2>2 DEF v2, w
  <2>4. Acts(l, c, r, v2, w) /\ w.tickets[l] = v2.tickets[l] /\ w.mail[c] = v2.mail[c]
    BY <1>3, <1>18, <2>3 DEF Acted
  <2> QED BY <2>4 DEF r
<1>24. Quiet(c, v2)
  <2>1. /\ v2.net[l][Other(l)] = v.net[l][Other(l)] \o <<>> /\ v2.net[Other(l)][l] = v.net[Other(l)][l]
        /\ v2.net[c] = v.net[c] /\ v2.mail[c] = v.mail[c] /\ v.net[l][Other(l)] \in Seq(Message)
    BY <1>3, <1>20, OtherLeader DEF Eased, World, Node
  <2>2. v2.net[l][Other(l)] = v.net[l][Other(l)]
    BY <2>1, ConcatEmptySeq
  <2>3. \A k \in Leader : v2.net[k][Other(k)] = v.net[k][Other(k)]
    BY <2>1, <2>2, OtherLeader
  <2> QED BY <1>3, <2>1, <2>3 DEF Quiet
<1>25. \A e \in Client \ {c} : Quits(e, home[e], g[e], v2)
  BY <1>3, <1>22
<1>26. Pairing(Home(home, c, l), To(g, c, "LOCK_ENTERING"), w)
  BY <1>3, <1>16, <1>22, <1>23, <1>24, <1>25, EnteringAsked
<1>27. "LOCK_ENTERING" \in Stage /\ StateOf("LOCK_ENTERING") = StateOf(g[c])
  BY <1>3 DEF Stage, Opening, StateOf
<1> QED
  BY <1>3, <1>15, <1>18, <1>26, <1>27, Settles DEF w
-----------------------------------------------------------------------------
(* A ticket leaves f_entering_tickets: TICKET_ADDED and LOCK_EXITING.      *)

\* What becomes of ticket x of leader l when ticket t of client c is no longer entering.
Freely(x, t, c) == Relieved(IF x = t THEN [t EXCEPT !.entering = FALSE] ELSE x, c)

\* The tickets with the quorum are listed, are ready when they wait for nobody, and are only
\* locked when they are ready.
Firm(S) == \A x \in S : x.quorum => x.listed /\ (x.ready <=> x.still = {}) /\ (x.locked => x.ready)

LEMMA FirmTable ==
  ASSUME TwoLeaders, NEW home, NEW g, NEW v, Core(home, g, v), World(v), NEW l \in Leader
  PROVE  Firm(v.tickets[l])
<1> SUFFICES ASSUME NEW x \in v.tickets[l], x.quorum
             PROVE  x.listed /\ (x.ready <=> x.still = {}) /\ (x.locked => x.ready)
  BY DEF Firm
<1>1. x.client \in Client
  BY DEF World, Ticket
<1>2. Own(x.client, home[x.client], g[x.client], v) /\ home[x.client] \in Leader /\ g[x.client] \in Stage
  BY <1>1 DEF Core
<1>3. x \in Entry(v.tickets[l], x.client)
  BY DEF Entry
<1> QED
  BY <1>1, <1>2, <1>3, Quorate

LEMMA FreelyTicket ==
  ASSUME TwoLeaders, now \in Nat, 1 <= now, now <= LastDate, NEW S, S \subseteq Punctual, Firm(S),
         NEW c, NEW t, Entry(S, c) = {t}, t.listed, NEW x \in S
  PROVE  LET y == Freely(x, t, c)
         IN  /\ Eases(x, y, {c})
             /\ x.client = c => ~y.entering
<1> DEFINE t2 == [t EXCEPT !.entering = FALSE]
           z == IF x = t THEN t2 ELSE x
           y == Relieved(z, c)
<1>1. t \in S /\ t \in Punctual /\ t \in Ticket /\ t.client = c /\ x \in Ticket /\ x \in Punctual
  BY DEF Entry, Punctual
<1>2. x.client = c <=> x = t
  BY <1>1 DEF Entry
<1>3. z \in Ticket /\ z \in Punctual /\ z.still = x.still /\ (z.entering <=> x.entering /\ x # t)
  <2>1. t2 \in Ticket /\ t2 \in Punctual /\ t2.still = t.still /\ t2.entering = FALSE
    BY <1>1 DEF Ticket, Punctual
  <2> HIDE DEF t2
  <2>2. CASE x = t
    BY <2>1, <2>2
  <2>3. CASE x # t
    BY <1>1, <2>3
  <2> QED BY <2>2, <2>3
<1>4. /\ z.client = x.client /\ z.owner = x.owner /\ z.number = x.number /\ z.rank = x.rank
      /\ z.listed = x.listed /\ z.maxAsked = x.maxAsked /\ z.added = x.added
      /\ z.quorum = x.quorum /\ z.locked = x.locked /\ z.ready = x.ready
  BY <1>1 DEF Ticket
<1> HIDE DEF z, t2
<1>5. /\ y \in Ticket /\ y = [z EXCEPT !.still = y.still, !.ready = y.ready]
      /\ ~(z.listed /\ Freed(z, c)) => y = z
      /\ z.listed /\ Freed(z, c) => /\ Held(y) = Held(z) \ {c}
                                    /\ y.ready <=> y.still = {}
  <2>1. z \in Punctual
    BY <1>3
  <2> QED BY <2>1, RelievedTicket, ZenonT(30)
<1>6. Freed(z, c) <=> x.quorum /\ ~x.ready /\ c \in Held(x)
  BY <1>3, <1>4 DEF Freed, Held
<1> HIDE DEF y
<1>7. /\ y.client = z.client /\ y.owner = z.owner /\ y.number = z.number /\ y.rank = z.rank
      /\ y.listed = z.listed /\ y.maxAsked = z.maxAsked /\ y.added = z.added
      /\ y.quorum = z.quorum /\ y.locked = z.locked /\ y.entering = z.entering
  BY <1>3, <1>5 DEF Ticket
<1>8. x.quorum => x.listed /\ (x.ready <=> x.still = {})
  BY DEF Firm
<1>9. x.ready \in BOOLEAN /\ x.still = {} => Held(x) = {}
  BY <1>1 DEF Held, Ticket
<1>10. Held(z) = Held(x)
  BY <1>3 DEF Held
<1>11. x.quorum => Held(y) = Held(x) \ {c} /\ (y.ready <=> y.still = {}) /\ (x.ready => y.ready)
  <2>1. CASE x.quorum /\ Freed(z, c)
    BY <1>4, <1>5, <1>6, <1>8, <1>10, <2>1
  <2>2. CASE x.quorum /\ ~Freed(z, c)
    <3>1. y = z
      BY <1>5, <2>2
    <3>2. c \notin Held(x)
      BY <1>1, <1>6, <1>8, <1>9, <2>2 DEF Ticket
    <3>3. Held(x) = Held(x) \ {c}
      BY <3>2
    <3> QED BY <1>3, <1>4, <1>8, <1>10, <2>2, <3>1, <3>3
  <2> QED BY <2>1, <2>2
<1>12. ~x.quorum => y.ready = x.ready
  BY <1>4, <1>5, <1>6
<1>13. y.entering <=> x.entering /\ x.client \notin {c}
  BY <1>2, <1>3, <1>7
<1>14. Eases(x, y, {c})
  BY <1>1, <1>4, <1>5, <1>7, <1>11, <1>12, <1>13 DEF Eases
<1>15. Freely(x, t, c) = y
  BY DEF Freely, y, z, t2
<1> QED
  BY <1>13, <1>14, <1>15

\* The table that a LOCK_EXITING leaves.
Freedom(S, t, c) == {Freely(x, t, c) : x \in S}

LEMMA FreedomSofter ==
  ASSUME TwoLeaders, now \in Nat, 1 <= now, now <= LastDate, NEW S, S \subseteq Punctual, Firm(S),
         NEW c, NEW t, Entry(S, c) = {t}, t.listed
  PROVE  /\ Softer(S, Freedom(S, t, c), {c})
         /\ Freedom(S, t, c) = {Relieved(u, c) : u \in Leaving(S, t)}
         /\ \A y \in Entry(Freedom(S, t, c), c) : ~y.entering
         /\ \A m \in FreeNow(Leaving(S, t), c) : Readied(m, Freedom(S, t, c))
<1> DEFINE f == [x \in S |-> Freely(x, t, c)]
           T == Freedom(S, t, c)
           t2 == [t EXCEPT !.entering = FALSE]
<1>1. \A x \in S : Eases(x, Freely(x, t, c), {c}) /\ (x.client = c => ~Freely(x, t, c).entering)
  BY FreelyTicket
<1>2. t \in S /\ t \in Ticket
  BY DEF Entry, Punctual
<1>3. T = {f[x] : x \in S} /\ \A x \in S : Eases(x, f[x], {c})
  BY <1>1 DEF Freedom
<1>4. Softer(S, T, {c})
  <2> HIDE DEF f, T
  <2> QED BY <1>3 DEF Softer
<1>5. T = {Relieved(u, c) : u \in Leaving(S, t)}
  <2>1. \A x \in S : /\ x = t => Freely(x, t, c) = Relieved(t2, c)
                     /\ x # t => Freely(x, t, c) = Relieved(x, c)
    BY DEF Freely
  <2>2. ASSUME NEW z \in T PROVE z \in {Relieved(u, c) : u \in Leaving(S, t)}
    <3>1. PICK x \in S : z = Freely(x, t, c)
      BY <2>2 DEF Freedom
    <3> HIDE DEF T, t2
    <3>2. CASE x = t
      BY <2>1, <3>1, <3>2 DEF Leaving, t2
    <3>3. CASE x # t
      BY <2>1, <3>1, <3>3 DEF Leaving
    <3> QED BY <3>2, <3>3
  <2>3. ASSUME NEW u \in Leaving(S, t) PROVE Relieved(u, c) \in T
    <3>1. u = t2 \/ (u \in S /\ u # t)
      BY DEF Leaving
    <3>2. CASE u = t2
      BY <1>2, <2>1, <3>2 DEF Freedom
    <3>3. CASE u \in S /\ u # t
      BY <2>1, <3>3 DEF Freedom
    <3> QED BY <3>1, <3>2, <3>3
  <2> HIDE DEF T
  <2> QED BY <2>2, <2>3
<1>6. \A y \in Entry(T, c) : ~y.entering
  <2> SUFFICES ASSUME NEW y \in Entry(T, c) PROVE ~y.entering
    OBVIOUS
  <2>1. PICK x \in S : y = Freely(x, t, c)
    BY DEF Entry, Freedom
  <2>2. x.client = c
    BY <1>1, <2>1 DEF Eases, Entry
  <2> QED BY <1>1, <2>1, <2>2
<1>7. ASSUME NEW m \in FreeNow(Leaving(S, t), c) PROVE Readied(m, T)
  <2>1. PICK u \in Leaving(S, t) : /\ m = Msg("TICKET_READY", KeyOf(u))
                                   /\ u.listed /\ Freed(u, c) /\ Relieved(u, c).ready
    BY DEF FreeNow
  <2>2. Relieved(u, c) \in T
    BY <1>5
  <2>3. PICK x \in S : Relieved(u, c) = Freely(x, t, c) /\ u.quorum = x.quorum /\ u.client = x.client
                       /\ u.ready = x.ready
    <3>1. u = t2 \/ (u \in S /\ u # t)
      BY DEF Leaving
    <3>2. CASE u = t2
      <4>1. Freely(t, t, c) = Relieved(t2, c)
        BY DEF Freely
      <4>2. t2.quorum = t.quorum /\ t2.client = t.client /\ t2.ready = t.ready
        BY <1>2 DEF Ticket
      <4> HIDE DEF t2
      <4> QED BY <1>2, <3>2, <4>1, <4>2
    <3>3. CASE u \in S /\ u # t
      BY <3>3 DEF Freely
    <3> QED BY <3>1, <3>2, <3>3
  <2> DEFINE y == Freely(x, t, c)
  <2>4. Eases(x, y, {c})
    BY <1>1
  <2>5. x.quorum /\ ~x.ready /\ ~x.locked
    BY <2>1, <2>3 DEF Freed, Firm
  <2>6. y \in T /\ y.ready
    BY <2>1, <2>2, <2>3
  <2> HIDE DEF y, T
  <2>7. y.quorum /\ ~y.locked /\ y.client = x.client
    BY <2>4, <2>5 DEF Eases
  <2>8. m.type = "TICKET_READY" /\ m.key.client = u.client
    BY <2>1 DEF Msg, KeyOf
  <2> QED BY <2>3, <2>6, <2>7, <2>8 DEF Readied
<1> QED
  BY <1>4, <1>5, <1>6, <1>7


\* Leader l is rid of the entering ticket of c, from the context D to G and the world v to w.
Relieving(l, c, D, G, v, w, home, g) ==
  /\ LockExiting(D, c) = ActivateFirstLock(G) /\ Prompt(l, G)
  /\ Core(home, g, w)
  /\ \A e \in Client : Quits(e, home[e], g[e], v) => Quits(e, home[e], g[e], w)
  /\ \A y \in Entry(w.tickets[l], c) : ~y.entering
  /\ w.tickets[Other(l)] = v.tickets[Other(l)]
  /\ \A X : Lacks(w.net[l][Other(l)], X) => Lacks(v.net[l][Other(l)], X)

LEMMA Relieves ==
  ASSUME TwoLeaders, TypeInv, NEW s \in Node, NEW l \in Leader, net[s][l] # <<>>,
         NEW D, Prompt(l, D), NEW c \in Client, NEW t, Entry(D.tickets, c) = {t}, t.entering, t.listed,
         NEW home, NEW g, Core(home, g, After(s, l, D)), Leaves(l, {c}, home, g)
  PROVE  \E G : Relieving(l, c, D, G, After(s, l, D), After(s, l, G), home, g)
<1> DEFINE v == After(s, l, D)
           o == Other(l)
           S == D.tickets
           T == Freedom(S, t, c)
<1>0. now \in Nat /\ 1 <= now /\ now <= LastDate /\ S \subseteq Punctual /\ Sound(l, D)
  BY DEF Prompt
<1>1. t.client = c
  BY DEF Entry
<1>2. EnteringOf(D, c) = {t}
  BY <1>1, Lookup
<1>3. PICK G, r : /\ LockExiting(D, c) = ActivateFirstLock(G) /\ Prompt(l, G)
                  /\ G.tickets = {Relieved(u, c) : u \in Leaving(D.tickets, t)}
                  /\ G.mail = D.mail
                  /\ r \in Seq(FreeNow(Leaving(D.tickets, t), c)) /\ r \in Seq(Message)
                  /\ G.out[Other(l)] = D.out[Other(l)] \o r
  BY <1>2, PromptExiting
<1> DEFINE w == After(s, l, G)
<1>4. Sound(l, G)
  BY <1>3 DEF Prompt
<1>5. GoneOn(v, w, l, o, r, D, G)
  BY <1>0, <1>3, <1>4, GoOn
<1>6. v.tickets[l] = S /\ w.tickets[l] = G.tickets /\ World(v) /\ World(w)
  BY <1>5 DEF GoneOn
<1> HIDE DEF v, w, S, o
<1>7. Firm(S)
  BY <1>6, FirmTable DEF v
<1>8. /\ Softer(S, T, {c}) /\ T = {Relieved(u, c) : u \in Leaving(S, t)}
      /\ \A y \in Entry(T, c) : ~y.entering
      /\ \A m \in FreeNow(Leaving(S, t), c) : Readied(m, T)
  <2>1. Entry(S, c) = {t}
    BY DEF S
  <2> QED BY <1>0, <1>7, <2>1, FreedomSofter
<1> HIDE DEF T
<1>9. G.tickets = T /\ \A i \in DOMAIN r : Readied(r[i], T)
  <2>1. G.tickets = T
    BY <1>3, <1>8 DEF S
  <2> DEFINE M == FreeNow(Leaving(S, t), c)
  <2>2. r \in Seq(M)
    BY <1>3 DEF S
  <2> HIDE DEF M
  <2>3. \A i \in DOMAIN r : r[i] \in M
    BY <2>2
  <2> QED BY <1>8, <2>1, <2>3 DEF M
<1>10. Eased(l, {c}, r, v, w)
  BY <1>3, <1>5, <1>6, <1>8, <1>9 DEF Eased, GoneOn, o
<1>11. /\ Core(home, g, w)
       /\ \A e \in Client : Quits(e, home[e], g[e], v) => Quits(e, home[e], g[e], w)
  BY <1>10, EasedCore DEF v
<1>12. \A X : Lacks(w.net[l][Other(l)], X) => Lacks(v.net[l][Other(l)], X)
  <2>1. Spreads(v.net[l][Other(l)], w.net[l][Other(l)], r)
    BY <1>10, EasedWires
  <2> QED BY <2>1 DEF Spreads
<1>13. w.tickets[Other(l)] = v.tickets[Other(l)] /\ \A y \in Entry(w.tickets[l], c) : ~y.entering
  BY <1>6, <1>8, <1>9, <1>10 DEF Eased
<1>14. Relieving(l, c, D, G, v, w, home, g)
  BY <1>3, <1>11, <1>12, <1>13 DEF Relieving
<1> QED
  BY <1>14 DEF v, w

\* The other leader has read the LOCK_EXITING: the ticket of c has left f_entering_tickets of its
\* home, and is about to leave those of the other leader.
LEMMA NowWaiting ==
  ASSUME TwoLeaders, NEW l \in Leader, NEW c \in Client, NEW v, World(v), Quiet(c, v),
         NEW home, NEW g, Core(home, g, v), home[c] = Other(l), g[c] = "LOCK_EXITING",
         \A e \in Client \ {c} : Quits(e, home[e], g[e], v)
  PROVE  /\ Core(home, To(g, c, "WAITING"), v)
         /\ \A e \in Client \ {c} : Quits(e, home[e], To(g, c, "WAITING")[e], v)
<1> DEFINE o == Other(l)
           g2 == To(g, c, "WAITING")
           r == <<>>
<1>1. /\ o \in Leader /\ home \in [Client -> Leader] /\ g \in [Client -> Stage]
      /\ Own(c, o, "LOCK_EXITING", v) /\ Waits(c, home, g, v) /\ Sure(c, o, "LOCK_EXITING", v)
  BY OtherLeader DEF Core
<1>2. /\ "WAITING" \in Stage /\ "WAITING" \in Late /\ "LOCK_EXITING" \in Late
      /\ "WAITING" \notin Outside \cup Opening \cup Asks \cup Says \cup Down \cup Up \cup Choosing \cup Granted
      /\ "LOCK_EXITING" \notin Outside \cup Opening \cup Choosing \cup Granted
  BY DEF Stage, Late, Outside, Opening, Asks, Says, Down, Up, Choosing, Granted
<1>3. Moving(c, home, g, home, g2) /\ g2[c] = "WAITING"
  BY <1>1, <1>2 DEF Moving, To
<1> HIDE DEF g2, o
<1>4. Acts(l, c, r, v, v)
  <2>1. v.net[l][Other(l)] \in Seq(Message)
    BY OtherLeader DEF World, Node
  <2> QED BY <2>1 DEF Acts, Lacks
<1> HIDE DEF r
<1>5. Talks(c, o, "WAITING", v)
  BY <1>1, TalksSilent
<1>6. Moves(c, o, "WAITING", v)
  <2>1. Free(v.net[o][Other(o)], c) /\ Free(v.net[Other(o)][o], c)
    BY <1>1, OtherLeader DEF Quiet
  <2>2. \A k \in Leader : Once(v.net[k][Other(k)], Drops(c))
    BY <1>1 DEF Own, Moves
  <2>3. Down \cap {"WAITING"} \subseteq Steps /\ Up \cap {"WAITING"} \subseteq Steps
    BY DEF Steps
  <2> QED BY <2>1, <2>2, <2>3, FreeBears DEF Moves
<1>7. Keeps(c, o, "WAITING", v)
  <2>1. PICK t, y : Both(t, y, c, o, Other(o), "LOCK_EXITING", v)
    BY <1>1, <1>2, Inside DEF Own
  <2>2. Both(t, y, c, o, Other(o), "WAITING", v)
    <3>1. AtHome(t, o, "WAITING") /\ AtOther(y, o, "WAITING")
      BY <1>2, <2>1 DEF Both, AtHome, AtOther
    <3> QED BY <1>2, <2>1, <3>1 DEF Both
  <2> QED BY <1>2, <2>2, BothKeeps
<1>8. InOrder(c, o, "WAITING", v)
  <2>1. Lacks(v.net[Other(o)][o], Grants(c))
    BY <1>1 DEF Own, InOrder
  <2>2. Lacks(v.net[Other(o)][o], Of(c, {"TICKET_READY"}))
    BY <2>1 DEF Lacks, Grants, Of
  <2> QED BY <1>2, <2>2 DEF InOrder
<1>9. Own(c, home[c], g2[c], v)
  BY <1>3, <1>5, <1>6, <1>7, <1>8 DEF Own, o
<1>10. Sure(c, home[c], g2[c], v)
  BY <1>1, <1>3 DEF Sure, o
<1>11. /\ Beside(c, v, v) /\ \A k \in Leader : DropsLead(k, c, v, v)
  BY <1>4, ActsBeside
<1>12. Waits(c, home, g2, v)
  <2> SUFFICES ASSUME NEW k \in Leader, NEW x \in Entry(v.tickets[k], c), x.owner = k, x.quorum
               PROVE  Queued(x, k, home, g2, v)
    BY DEF Waits
  <2>1. x \in v.tickets[k] /\ x.client = c
    BY DEF Entry
  <2>2. Queued(x, k, home, g, v)
    BY <1>1 DEF Waits
  <2>3. c \in Held(x) => \E u \in Entry(v.tickets[k], c) : u.entering
    BY <2>2 DEF Queued
  <2> QED BY <1>3, <1>11, <2>1, <2>2, <2>3, QueuedOwn
<1>13. Courteous(c, home, g2, v, v)
  <2>1. g2[c] \notin {"GET_MAX_TICKET", "MAX_TICKET", "ADD_TICKET"}
    BY <1>3
  <2> QED BY <1>3, <1>4, <2>1, Polite
<1>14. /\ Core(home, g2, v)
       /\ \A e \in Client \ {c} : Quits(e, home[e], g[e], v) => Quits(e, home[e], g2[e], v)
  BY <1>3, <1>4, <1>9, <1>10, <1>12, <1>13, Onward
<1> QED
  BY <1>14 DEF g2


\* A step in the way of a ticket that its client does not see.
LEMMA AgreeTo ==
  ASSUME NEW g \in [Client -> Stage], NEW c \in Client, NEW st \in Stage, StateOf(st) = StateOf(g[c])
  PROVE  Agree(g, To(g, c, st))
BY DEF Agree, To

\* cluckd::msg_lock_exiting() keeps the invariant.
LEMMA PairsLockExiting ==
  ASSUME TwoLeaders, TypeInv, Timely, NEW home, NEW g, Pairing(home, g, Now),
         NEW s \in Node, NEW l \in Leader, MsgLockExiting(s, l)
  PROVE  Advances(s, l, home, g)
<1> DEFINE m == Head(net[s][l])
           c == m.key.client
           o == Other(l)
           D == Here(l)
           v == After(s, l, D)
           g2 == To(g, c, "WAITING")
<1>1. net[s][l] # <<>> /\ m.type = "LOCK_EXITING" /\ Done(s, l, LockExiting(D, c))
  BY DEF MsgLockExiting, Arrived, Received
<1>2. Begins("LOCK_EXITING", m, c, s, l, o, home, g, v) /\ o = s
  <2>1. "LOCK_EXITING" \in Down
    BY DEF Down
  <2> QED BY <1>1, <2>1, DownBegins
<1>3. o \in Leader /\ Other(l) = o /\ Other(o) = l /\ o # l
  BY OtherLeader
<1> HIDE DEF m, o
<1>4. /\ c \in Client /\ g[c] = "LOCK_EXITING" /\ home \in [Client -> Leader] /\ g \in [Client -> Stage]
      /\ Core(home, g, v) /\ Quiet(c, v) /\ Own(c, o, "LOCK_EXITING", v) /\ v.tickets[l] = tickets[l]
      /\ v.tickets[o] = tickets[o] /\ home[c] = o /\ World(v)
      /\ \A e \in Client \ {c} : Quits(e, home[e], g[e], v)
  BY <1>2, <1>3 DEF Begins
<1>5. Prompt(l, D) /\ D.tickets = tickets[l]
  BY HerePrompt
<1> HIDE DEF c, D, v
<1>6. /\ "WAITING" \in Stage /\ "WAITING" \in Late /\ "LOCK_EXITING" \in Late
      /\ "LOCK_EXITING" \notin Outside \cup Opening
  BY DEF Stage, Late, Outside, Opening
<1>7. PICK t, y : Both(t, y, c, o, l, "LOCK_EXITING", v)
  <2>1. Keeps(c, o, "LOCK_EXITING", v)
    BY <1>4 DEF Own
  <2>2. \E t, y : Both(t, y, c, o, Other(o), "LOCK_EXITING", v)
    BY <1>6, <2>1, Inside
  <2> QED BY <1>3, <2>2
<1>8. Entry(D.tickets, c) = {y} /\ y.entering /\ y.listed
  BY <1>4, <1>5, <1>6, <1>7 DEF Both, AtOther
<1>9. /\ Core(home, g2, v)
      /\ \A e \in Client \ {c} : Quits(e, home[e], g2[e], v)
  BY <1>3, <1>4, NowWaiting
<1>10. g2[c] = "WAITING" /\ g2 \in [Client -> Stage]
  BY <1>4, <1>6 DEF To
<1>11. Agree(g, g2)
  BY <1>4, <1>6, AgreeTo DEF StateOf
<1> HIDE DEF g2
<1>12. Leaves(l, {c}, home, g2)
  BY <1>4, <1>6, <1>10 DEF Leaves
<1>13. PICK G : Relieving(l, c, D, G, v, After(s, l, G), home, g2)
  BY <1>1, <1>4, <1>5, <1>8, <1>9, <1>12, Relieves DEF v
<1> DEFINE w == After(s, l, G)
<1>14. /\ LockExiting(D, c) = ActivateFirstLock(G) /\ Prompt(l, G) /\ Core(home, g2, w)
       /\ \A e \in Client : Quits(e, home[e], g2[e], v) => Quits(e, home[e], g2[e], w)
       /\ \A x \in Entry(w.tickets[l], c) : ~x.entering
       /\ w.tickets[o] = v.tickets[o]
  BY <1>3, <1>13 DEF Relieving
<1>15. Quits(c, home[c], g2[c], w)
  <2>1. Quits(c, o, "LOCK_EXITING", Now)
    BY <1>4 DEF Pairing
  <2>2. \A x \in Entry(tickets[o], c) : ~x.entering
    BY <1>6, <2>1 DEF Quits, Now
  <2> HIDE DEF w
  <2>3. Quits(c, o, "WAITING", w)
    BY <1>3, <1>4, <1>14, <2>2 DEF Quits
  <2> QED BY <1>4, <1>10, <2>3
<1>16. Pairing(home, g2, w)
  BY <1>9, <1>14, <1>15 DEF Pairing
<1> QED
  BY <1>1, <1>11, <1>14, <1>16, EndsFirst


-----------------------------------------------------------------------------
(* The number is known: TICKET_ADDED.                                      *)

\* The ticket t of a table S once enough leaders have its number: it waits for those that are
\* still entering.
Queueing(S, t) ==
  [t EXCEPT !.quorum = TRUE,
            !.still = {[client |-> u.client, until |-> CurrentDate(u)] : u \in {x \in S : x.entering}}]

LEMMA AddedQueues ==
  ASSUME NEW D, NEW t, ~t.quorum
  PROVE  TicketAdded(D, t) =
           LockExiting(SendToLeaders(Update(D, t, Queueing(D.tickets, t)),
                                     Msg("LOCK_EXITING", EnteringKey(t.client))), t.client)
BY Zenon DEF TicketAdded, Queueing

\* What the ticket keeps, and for whom it waits.
Queues(u, t, S) ==
  /\ u \in Ticket /\ u.client = t.client /\ u.owner = t.owner /\ u.number = t.number /\ u.rank = t.rank
  /\ u.entering = t.entering /\ u.listed = t.listed /\ u.maxAsked = t.maxAsked /\ u.added = t.added
  /\ u.ready = t.ready /\ u.locked = t.locked /\ u.quorum
  /\ \A d : d \in Held(u) <=> \E x \in Entry(S, d) : x.entering

LEMMA QueueingTicket ==
  ASSUME NEW S, S \subseteq Punctual, NEW t \in S, LastDate \in Nat
  PROVE  Queueing(S, t) \in Punctual /\ Queues(Queueing(S, t), t, S)
<1> DEFINE u == Queueing(S, t)
           still == {[client |-> x.client, until |-> CurrentDate(x)] : x \in {z \in S : z.entering}}
<1>1. \A x \in S : /\ x \in Ticket /\ x.client \in Client
                   /\ CurrentDate(x) \in Nat /\ CurrentDate(x) > LastDate
  <2> SUFFICES ASSUME NEW x \in S
               PROVE  /\ x \in Ticket /\ x.client \in Client
                      /\ CurrentDate(x) \in Nat /\ CurrentDate(x) > LastDate
    OBVIOUS
  <2>1. x \in Punctual
    OBVIOUS
  <2> QED BY <2>1 DEF Punctual, Ticket, CurrentDate
<1>2. still \subseteq Pending /\ \A p \in still : p.until > LastDate
  BY <1>1 DEF Pending
<1>3. \A d : (\E p \in still : p.client = d) <=> \E x \in Entry(S, d) : x.entering
  <2>1. \A p \in still : \E x \in S : x.entering /\ p = [client |-> x.client, until |-> CurrentDate(x)]
    OBVIOUS
  <2>2. \A x \in S : x.entering => [client |-> x.client, until |-> CurrentDate(x)] \in still
    OBVIOUS
  <2> HIDE DEF still
  <2>3. ASSUME NEW d, NEW p \in still, p.client = d
        PROVE  \E x \in Entry(S, d) : x.entering
    <3>1. PICK x \in S : x.entering /\ p = [client |-> x.client, until |-> CurrentDate(x)]
      BY <2>1
    <3>2. p.client = x.client
      BY <3>1
    <3> QED BY <2>3, <3>1, <3>2 DEF Entry
  <2>4. ASSUME NEW d, NEW x \in Entry(S, d), x.entering
        PROVE  \E p \in still : p.client = d
    <3> DEFINE p == [client |-> x.client, until |-> CurrentDate(x)]
    <3>1. x \in S /\ x.client = d
      BY DEF Entry
    <3>2. p \in still /\ p.client = d
      BY <2>2, <2>4, <3>1
    <3> QED BY <3>2
  <2> QED BY <2>3, <2>4
<1>4. t \in Ticket /\ t \in Punctual /\ u = [t EXCEPT !.quorum = TRUE, !.still = still]
  BY <1>1 DEF Queueing
<1> HIDE DEF u, still
<1>5. /\ u \in Ticket /\ u.still = still /\ u.quorum
      /\ u.client = t.client /\ u.owner = t.owner /\ u.number = t.number /\ u.rank = t.rank
      /\ u.entering = t.entering /\ u.listed = t.listed /\ u.maxAsked = t.maxAsked /\ u.added = t.added
      /\ u.ready = t.ready /\ u.locked = t.locked /\ u.failed = t.failed
      /\ u.obtention = t.obtention /\ u.alive = t.alive /\ u.lockDate = t.lockDate
  BY <1>2, <1>4 DEF Ticket
<1>6. u \in Punctual
  BY <1>2, <1>4, <1>5 DEF Punctual
<1>7. \A d : d \in Held(u) <=> \E x \in Entry(S, d) : x.entering
  BY <1>3, <1>5 DEF Held
<1>8. Queues(u, t, S)
  BY <1>5, <1>7 DEF Queues
<1> QED
  BY <1>6, <1>8 DEF u

\* The ticket of c has its quorum: it is about to leave f_entering_tickets everywhere.
LEMMA NumberKnown ==
  ASSUME TwoLeaders, NEW l \in Leader, NEW c \in Client, NEW v, NEW w,
         NEW m \in Of(c, {"LOCK_EXITING"}), Acts(l, c, <<m>>, v, w), Quiet(c, v), w.mail[c] = v.mail[c],
         NEW home, NEW g, Core(home, g, v), home[c] = l, g[c] = "TICKET_ADDED",
         NEW t, NEW y, Both(t, y, c, l, Other(l), "TICKET_ADDED", v),
         NEW u, Queues(u, t, v.tickets[l]), Entry(w.tickets[l], c) = {u}
  PROVE  /\ Core(home, To(g, c, "LOCK_EXITING"), w)
         /\ \A e \in Client \ {c} : Quits(e, home[e], g[e], v) =>
                                      Quits(e, home[e], To(g, c, "LOCK_EXITING")[e], w)
         /\ ~Lacks(w.net[l][Other(l)], Of(c, {"LOCK_EXITING"}))
<1> DEFINE o == Other(l)
           g2 == To(g, c, "LOCK_EXITING")
<1>0. /\ "LOCK_EXITING" \in Down /\ "LOCK_EXITING" \in Stage /\ "LOCK_EXITING" \in Late
      /\ "LOCK_EXITING" \notin Outside \cup Opening \cup Choosing \cup Granted
      /\ "TICKET_ADDED" \in Choosing
      /\ "TICKET_ADDED" \notin Outside \cup Opening \cup Late
  BY DEF Down, Stage, Late, Outside, Opening, Choosing, Granted
<1>2. /\ Own(c, l, "TICKET_ADDED", v) /\ Both(t, y, c, l, o, "TICKET_ADDED", v)
      /\ home \in [Client -> Leader] /\ g \in [Client -> Stage] /\ home[c] = l
  BY DEF Core
<1>1. Wired(l, o, c, m, "LOCK_EXITING", v, w) /\ Posts(l, o, l, c, m, "LOCK_EXITING", v, w)
  <2>1. \A k \in Leader : Once(v.net[k][Other(k)], Drops(c))
    BY <1>2 DEF Own, Moves
  <2> HIDE DEF o
  <2> QED BY <1>0, <2>1, PostsSome DEF o
<1>3. Sides(l, o, c, v, w) /\ Other(l) = o /\ Other(o) = l
  BY <1>1 DEF Posts, Sides
<1>4. Wires(l, o, <<m>>, v, w)
  BY OneWorld DEF Worlds
<1> HIDE DEF o
<1>5. /\ Talks(c, l, "LOCK_EXITING", w) /\ Moves(c, l, "LOCK_EXITING", w)
      /\ Left(c, l, w) <=> Left(c, l, v)
      /\ Left(c, o, w) <=> Left(c, o, v)
  BY <1>1 DEF Posts
<1>6. /\ t \in Ticket /\ y \in Ticket /\ t.client = c /\ y.client = c /\ Entry(v.tickets[l], c) = {t}
      /\ Entry(v.tickets[o], c) = {y} /\ AtHome(t, l, "TICKET_ADDED") /\ AtOther(y, l, "TICKET_ADDED")
      /\ t.number = y.number
  BY <1>2 DEF Both
<1>7. /\ t.owner = l /\ t.entering /\ t.listed /\ t.maxAsked /\ t.added /\ ~t.locked /\ ~t.ready
      /\ t.rank = t.number
  BY <1>0, <1>6 DEF AtHome, Late, Granted
<1>8. /\ u \in Ticket /\ u.client = c /\ u.owner = l /\ u.entering /\ u.listed /\ u.maxAsked /\ u.added
      /\ ~u.locked /\ ~u.ready /\ u.quorum /\ u.number = t.number /\ u.rank = t.number
      /\ KeyOf(u) = KeyOf(t)
      /\ \A d : d \in Held(u) <=> \E x \in Entry(v.tickets[l], d) : x.entering
  <2>1. Queues(u, t, v.tickets[l])
    OBVIOUS
  <2> QED BY <1>6, <1>7, <2>1 DEF Queues, KeyOf
<1>9. u.still # {}
  <2>1. c \in Held(u)
    BY <1>6, <1>7, <1>8
  <2> QED BY <2>1 DEF Held
<1>10. /\ y.owner = l /\ y.entering /\ y.listed /\ y.added /\ ~y.quorum /\ ~y.ready /\ ~y.locked
       /\ y.rank = y.number
  BY <1>0, <1>6 DEF AtOther, Late, Granted
<1>11. Both(u, y, c, l, o, "LOCK_EXITING", w)
  <2>1. AtHome(u, l, "LOCK_EXITING")
    BY <1>0, <1>8, <1>9 DEF AtHome
  <2>2. AtOther(y, l, "LOCK_EXITING")
    BY <1>0, <1>10 DEF AtOther
  <2>3. Lacks(w.net[l][o], {x \in Of(c, {"ADD_TICKET"}) : x.key # KeyOf(u)})
    <3> DEFINE Z == {x \in Of(c, {"ADD_TICKET"}) : x.key # KeyOf(t)}
    <3>1. Lacks(v.net[l][o], Z)
      BY <1>2 DEF Both
    <3>2. m \notin Z
      BY DEF Of
    <3> HIDE DEF Z
    <3>3. Lacks(w.net[l][o], Z)
      BY <1>1, <3>1, <3>2 DEF Wired
    <3> QED BY <1>8, <3>3 DEF Z
  <2>4. Entry(w.tickets[o], c) = {y} /\ Entry(w.tickets[l], c) = {u}
    BY <1>3, <1>6 DEF Sides
  <2>5. ~Left(c, o, w) /\ ~Left(c, l, w)
    BY <1>2, <1>5 DEF Both
  <2> QED BY <1>6, <1>8, <2>1, <2>2, <2>3, <2>4, <2>5 DEF Both
<1>12. Keeps(c, l, "LOCK_EXITING", w)
  BY <1>0, <1>3, <1>11, BothKeeps
<1>13. Lacks(w.net[l][o], Grants(c)) /\ Lacks(w.net[o][l], Grants(c))
  <2>1. Lacks(v.net[l][o], Grants(c)) /\ Lacks(v.net[o][l], Grants(c))
    BY <1>0, <1>2, <1>3 DEF Own, InOrder
  <2> QED BY <1>1, <2>1 DEF Wired
<1>14. InOrder(c, l, "LOCK_EXITING", w)
  <2>1. Ahead(w.net[l][o], Of(c, {"LOCK_EXITING"}), Grants(c))
    BY <1>13, LacksAhead
  <2> QED BY <1>0, <1>3, <1>13, <2>1 DEF InOrder
<1>15. Own(c, l, "LOCK_EXITING", w)
  BY <1>5, <1>12, <1>14 DEF Own
<1>16. /\ Moving(c, home, g, home, g2) /\ g2[c] = "LOCK_EXITING" /\ g2 \in [Client -> Stage]
       /\ \A e \in Client \ {c} : g2[e] = g[e]
  BY <1>0, <1>2 DEF Moving, To
<1> HIDE DEF g2
<1>17. \A e \in Client \ {c} : Entry(w.tickets[l], e) = Entry(v.tickets[l], e)
  BY DEF Acts
<1>18. Queued(u, l, home, g2, w)
  <2>1. ASSUME NEW d \in Client \ {u.client}, d \notin Held(u)
        PROVE  Later(u, l, d, home[d], g2[d], w)
    <3>1. /\ d \in Client /\ g2[d] = g[d] /\ home[d] \in Leader /\ g[d] \in Stage
          /\ Own(d, home[d], g[d], v)
      BY <1>2, <1>8, <1>16 DEF Core
    <3>2. g[d] \notin Choosing
      <4> SUFFICES ASSUME g[d] \in Choosing PROVE FALSE
        OBVIOUS
      <4>1. g[d] \notin Outside \cup Opening
        BY DEF Choosing, Outside, Opening
      <4>2. PICK a, b : Both(a, b, d, home[d], Other(home[d]), g[d], v)
        BY <3>1, <4>1, Inside DEF Own
      <4>3. a.entering /\ b.entering
        BY <4>2 DEF Both, AtHome, AtOther
      <4>4. Entry(v.tickets[home[d]], d) = {a} /\ Entry(v.tickets[Other(home[d])], d) = {b}
        BY <4>2 DEF Both
      <4>5. l = home[d] \/ l = Other(home[d])
        BY <3>1, OtherLeader
      <4>6. \E x \in Entry(v.tickets[l], d) : x.entering
        BY <4>3, <4>4, <4>5
      <4> QED BY <1>8, <2>1, <4>6
    <3> QED BY <3>1, <3>2 DEF Later, Choosing
  <2>2. ASSUME NEW d \in Held(u)
        PROVE  \E x \in Entry(w.tickets[l], d) : x.entering
    <3>1. CASE d = c
      BY <1>8, <3>1
    <3>2. CASE d # c
      <4>1. PICK x \in Entry(v.tickets[l], d) : x.entering
        BY <1>8
      <4>2. d \in Client
        BY <1>8, <2>2 DEF Held, Ticket, Pending
      <4> QED BY <1>17, <3>2, <4>1, <4>2
    <3> QED BY <3>1, <3>2
  <2> QED BY <1>8, <2>1, <2>2 DEF Queued
<1>19. Waits(c, home, g2, w)
  <2> SUFFICES ASSUME NEW k \in Leader, NEW x \in Entry(w.tickets[k], c), x.owner = k, x.quorum
               PROVE  Queued(x, k, home, g2, w)
    BY DEF Waits
  <2>1. k = l \/ k = o
    BY <1>3 DEF Sides
  <2>2. k # o
    BY <1>10, <1>11 DEF Both
  <2>3. x = u /\ k = l
    BY <2>1, <2>2
  <2> QED BY <1>18, <2>3
<1>20. Sure(c, l, "LOCK_EXITING", w)
  <2>1. /\ Of(c, {"ACTIVATE_LOCK"}) \subseteq Grants(c) /\ Dones(c) \subseteq Grants(c)
    BY DEF Grants, Of
  <2>2. /\ Lacks(w.net[l][o], Of(c, {"ACTIVATE_LOCK"})) /\ Lacks(w.net[o][l], Of(c, {"ACTIVATE_LOCK"}))
        /\ Lacks(w.net[l][o], Dones(c)) /\ Lacks(w.net[o][l], Dones(c))
    BY <1>13, <2>1 DEF Lacks
  <2>3. \A x \in Entry(w.tickets[o], c) : ~x.ready
    BY <1>10, <1>11 DEF Both
  <2> QED BY <1>3, <1>13, <2>2, <2>3 DEF Sure
<1>21. Courteous(c, home, g2, v, w)
  <2>1. g2[c] \notin {"GET_MAX_TICKET", "MAX_TICKET", "ADD_TICKET"}
    BY <1>16
  <2>2. (\E x \in Entry(v.tickets[l], c) : x.entering) => \E x \in Entry(w.tickets[l], c) : x.entering
    BY <1>8
  <2>3. \A z \in Entry(w.tickets[l], c) : z.listed =>
          \E x \in Entry(v.tickets[l], c) : x.listed /\ KeyOf(x) = KeyOf(z)
    BY <1>6, <1>7, <1>8
  <2> QED BY <1>16, <2>1, <2>2, <2>3, Polite
<1>22. /\ Core(home, g2, w)
       /\ \A e \in Client \ {c} : Quits(e, home[e], g[e], v) => Quits(e, home[e], g2[e], w)
  <2>1. Own(c, home[c], g2[c], w) /\ Sure(c, home[c], g2[c], w)
    BY <1>2, <1>15, <1>16, <1>20
  <2> QED BY <1>16, <1>19, <1>21, <2>1, Onward
<1>23. ~Lacks(w.net[l][o], Of(c, {"LOCK_EXITING"}))
  <2> DEFINE r == <<m>>
             X == Of(c, {"LOCK_EXITING"})
  <2>1. m \in Message /\ m \in X
    BY DEF Of
  <2>2. r \in Seq(Message) /\ ~Lacks(r, X)
    BY <2>1, OneMessage
  <2>3. w.net[l][o] = v.net[l][o] \o r /\ v.net[l][o] \in Seq(Message)
    BY <1>4 DEF Wires
  <2> HIDE DEF r, X
  <2>4. ~Lacks(w.net[l][o], X)
    BY <2>2, <2>3, LacksConcat
  <2> QED BY <2>4 DEF X
<1> QED
  BY <1>22, <1>23 DEF g2, o


\* cluckd::msg_ticket_added() keeps the invariant.
LEMMA PairsTicketAdded ==
  ASSUME TwoLeaders, TypeInv, Timely, NEW home, NEW g, Pairing(home, g, Now),
         NEW s \in Node, NEW l \in Leader, MsgTicketAdded(s, l)
  PROVE  Advances(s, l, home, g)
<1> DEFINE m == Head(net[s][l])
           c == m.key.client
           o == Other(l)
           D == Here(l)
           v == After(s, l, D)
           S == tickets[l]
           x == Msg("LOCK_EXITING", EnteringKey(c))
<1>1. net[s][l] # <<>> /\ m.type = "TICKET_ADDED"
  BY DEF MsgTicketAdded, Arrived
<1>2. Begins("TICKET_ADDED", m, c, s, l, l, home, g, v) /\ o = s
  <2>1. "TICKET_ADDED" \in Up
    BY DEF Up
  <2> QED BY <1>1, <2>1, UpBegins
<1>3. o \in Leader /\ Other(l) = o /\ Other(o) = l /\ o # l
  BY OtherLeader
<1> HIDE DEF m, o
<1>4. /\ c \in Client /\ g[c] = "TICKET_ADDED" /\ home \in [Client -> Leader] /\ g \in [Client -> Stage]
      /\ Core(home, g, v) /\ Quiet(c, v) /\ Own(c, l, "TICKET_ADDED", v) /\ v.tickets[l] = S
      /\ home[c] = l /\ m.key \in Key
      /\ \A e \in Client \ {c} : Quits(e, home[e], g[e], v)
  BY <1>2 DEF Begins
<1>5. Prompt(l, D) /\ D.tickets = S /\ S \subseteq Punctual
  <2>1. Prompt(l, D) /\ D.tickets = S
    BY HerePrompt
  <2> HIDE DEF D
  <2> QED BY <2>1 DEF Prompt
<1>6. Carries(l, D, S, <<>>, c, <<>>)
  BY <1>4, CarriesHere
<1>7. m.key.client = c
  OBVIOUS
<1> HIDE DEF c, D, v, S
<1>8. "TICKET_ADDED" \notin Outside \cup Opening \cup Late /\ "TICKET_ADDED" \in Choosing
  BY DEF Outside, Opening, Late, Granted, Choosing
<1>9. PICK t, y : Both(t, y, c, l, o, "TICKET_ADDED", v)
  <2>1. Keeps(c, l, "TICKET_ADDED", v)
    BY <1>4 DEF Own
  <2> QED BY <1>3, <1>8, <2>1, Inside
<1>10. /\ t \in Ticket /\ t.client = c /\ Entry(S, c) = {t} /\ t.entering /\ t.listed /\ ~t.quorum
  BY <1>4, <1>8, <1>9 DEF Both, AtHome
<1>11. /\ t \in D.tickets /\ t \in S /\ t \in Punctual /\ One({t}) = t
       /\ ListedAs(D, m.key) = {} \/ ListedAs(D, m.key) = {t}
  <2> DEFINE key == m.key
  <2>1. key.client = c
    BY <1>7
  <2> HIDE DEF key
  <2>2. /\ t \in D.tickets /\ One({t}) = t
        /\ ListedAs(D, key) = IF t.listed /\ KeyOf(t) = key THEN {t} ELSE {}
    BY <1>5, <1>10, <2>1, Lookup
  <2> QED BY <1>5, <2>2 DEF key
<1>12. CASE ListedAs(D, m.key) = {}
  <2>1. Done(s, l, D)
    BY <1>12 DEF MsgTicketAdded, Received, m, D
  <2>2. Quits(c, home[c], g[c], v)
    BY <1>4, <1>8 DEF Quits, Late
  <2>3. Pairing(home, g, v)
    BY <1>4, <2>2 DEF Pairing
  <2> QED BY <1>4, <1>5, <2>1, <2>3, Stays DEF v
<1>13. CASE ListedAs(D, m.key) = {t}
  <2> DEFINE u == Queueing(D.tickets, t)
             E == Update(D, t, u)
             F == SendToLeaders(E, x)
             T == Put(S, c, u)
             w == After(s, l, F)
             g2 == To(g, c, "LOCK_EXITING")
  <2>1. Done(s, l, TicketAdded(D, t))
    BY <1>10, <1>11, <1>13 DEF MsgTicketAdded, Received, m, D
  <2>2. TicketAdded(D, t) = LockExiting(F, c)
    BY <1>10, AddedQueues
  <2>3. LastDate \in Nat
    BY <1>5, Dates DEF Prompt
  <2>4. u \in Punctual /\ Queues(u, t, S)
    BY <1>5, <1>11, <2>3, QueueingTicket
  <2> HIDE DEF u
  <2>5. u \in Ticket /\ u.client = c /\ u.entering /\ u.listed /\ KeyOf(u) = KeyOf(t)
    BY <1>10, <2>4 DEF Queues, KeyOf
  <2>6. x \in InTime /\ x \in Of(c, {"LOCK_EXITING"}) /\ Lacks(<<x>>, Apart(c)) /\ <<x>> \in Seq(Message)
    <3> DEFINE key == EnteringKey(c)
    <3>1. key \in Key /\ key.client = c /\ c \in Client
      BY <1>4, KeyTypes DEF EnteringKey
    <3> HIDE DEF key
    <3> QED BY <3>1, Posting DEF key
  <2> HIDE DEF x
  <2>7. Carries(l, F, T, <<x>>, c, <<>>) /\ Prompt(l, F) /\ F.tickets = T
    <3>1. Carries(l, E, T, <<>>, c, <<>>)
      BY <1>6, <1>10, <2>4, <2>5, CarriesUpdate
    <3> HIDE DEF E, T
    <3> QED BY <2>6, <3>1, CarriesSend DEF Carries
  <2> DEFINE r == <<x>>
  <2>8. r \in Seq(Message) /\ Lacks(r, Apart(c)) /\ Carries(l, F, T, r, c, <<>>)
    BY <2>6, <2>7
  <2>9. /\ \A e \in Client \ {c} : Entry(T, e) = Entry(tickets[l], e)
        /\ Entry(T, c) = {u}
    <3>0. u.client = c
      BY <2>5
    <3>1. \A e : e # c => Entry(T, e) = Entry(S, e)
      BY <3>0 DEF Put, Entry
    <3>2. Entry(T, c) = IF u.entering \/ u.listed THEN {u} ELSE {}
      BY <3>0, PutEntry, Zenon
    <3> HIDE DEF T
    <3> QED BY <2>5, <3>1, <3>2 DEF S
  <2> HIDE DEF F, T, r
  <2>10. Handles(v, w, l, c, r, T, <<>>)
    BY <1>1, <1>4, <2>8, <2>9, Handled DEF v, D, m
  <2> HIDE DEF w
  <2>11. Acts(l, c, <<x>>, v, w) /\ w.tickets[l] = T /\ w.mail[c] = v.mail[c]
    BY <2>10 DEF Handles, r
  <2>12. /\ Core(home, g2, w)
         /\ \A e \in Client \ {c} : Quits(e, home[e], g[e], v) => Quits(e, home[e], g2[e], w)
         /\ ~Lacks(w.net[l][o], Of(c, {"LOCK_EXITING"}))
    <3>1. Both(t, y, c, l, Other(l), "TICKET_ADDED", v) /\ Queues(u, t, v.tickets[l])
      BY <1>3, <1>4, <1>9, <2>4
    <3>2. Entry(w.tickets[l], c) = {u}
      BY <2>9, <2>11
    <3>3. /\ Core(home, g2, w)
          /\ \A e \in Client \ {c} : Quits(e, home[e], g[e], v) => Quits(e, home[e], g2[e], w)
          /\ ~Lacks(w.net[l][Other(l)], Of(c, {"LOCK_EXITING"}))
      BY <1>4, <2>6, <2>11, <3>1, <3>2, NumberKnown
    <3> QED BY <1>3, <3>3
  <2>13. g2[c] = "LOCK_EXITING" /\ g2 \in [Client -> Stage] /\ "LOCK_EXITING" \in Late
    BY <1>4 DEF To, Stage, Late
  <2>14. Agree(g, g2)
    BY <1>4, <2>13, AgreeTo DEF StateOf, Stage, Late
  <2> HIDE DEF g2
  <2>15. Leaves(l, {c}, home, g2)
    BY <1>4, <2>13 DEF Leaves
  <2>16. Entry(F.tickets, c) = {u}
    BY <2>7, <2>9
  <2>17. PICK G : Relieving(l, c, F, G, w, After(s, l, G), home, g2)
    BY <1>1, <1>4, <2>5, <2>7, <2>12, <2>15, <2>16, Relieves DEF w, m
  <2> DEFINE z == After(s, l, G)
  <2>18. /\ LockExiting(F, c) = ActivateFirstLock(G) /\ Prompt(l, G) /\ Core(home, g2, z)
         /\ \A e \in Client : Quits(e, home[e], g2[e], w) => Quits(e, home[e], g2[e], z)
         /\ \A a \in Entry(z.tickets[l], c) : ~a.entering
         /\ \A X : Lacks(z.net[l][o], X) => Lacks(w.net[l][o], X)
    BY <1>3, <2>17 DEF Relieving
  <2>19. Quits(c, home[c], g2[c], z)
    <3> HIDE DEF z
    <3>1. ~Lacks(z.net[l][Other(l)], Of(c, {"LOCK_EXITING"}))
      BY <1>3, <2>12, <2>18
    <3> QED BY <1>4, <2>13, <2>18, <3>1 DEF Quits
  <2>20. \A e \in Client \ {c} : Quits(e, home[e], g2[e], z)
    <3> HIDE DEF z
    <3> QED BY <1>4, <2>12, <2>18
  <2>21. Pairing(home, g2, z)
    <3> HIDE DEF z
    <3> QED BY <2>18, <2>19, <2>20 DEF Pairing
  <2> QED BY <1>1, <2>1, <2>2, <2>14, <2>18, <2>21, EndsFirst DEF m
<1> QED
  BY <1>11, <1>12, <1>13


\* cluckd::msg_lock_failed() has nothing to do: no ADD_TICKET is ever refused.
LEMMA PairsLockFailed ==
  ASSUME TwoLeaders, TypeInv, Timely, NEW home, NEW g, Pairing(home, g, Now),
         NEW s \in Node, NEW l \in Leader, MsgLockFailed(s, l)
  PROVE  Advances(s, l, home, g)
<1> DEFINE m == Head(net[s][l])
           c == m.key.client
<1>1. net[s][l] # <<>> /\ m.type = "LOCK_FAILED"
  BY DEF MsgLockFailed, Arrived
<1>2. Opens(m, c, s, l, home, g, After(s, l, Here(l)))
  BY <1>1, Opened
<1> HIDE DEF m, c
<1>3. Sent(m, c, s, l, home, g)
  BY <1>2 DEF Opens
<1>4. FALSE
  BY <1>1, <1>3 DEF Sent, Asks, Steps, Down, Up
<1> QED
  BY <1>4

=============================================================================
