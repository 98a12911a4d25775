----------------------- MODULE CluckLoneLeaderProofs -----------------------
(***************************************************************************)
(* A cluster with a single leader never grants its lock twice: the safety  *)
(* of the ticket table alone, whatever the clients do and whenever tickets *)
(* time out.  With one leader a LOCK goes through the whole bakery within  *)
(* one handler.  From the table it then goes to what the processes         *)
(* believe, with the messages in between: the lock of CluckLock, as long   *)
(* as each process locks once and does not give up before it has the lock. *)
(* Without either of these it is not so.                                   *)
(***************************************************************************)
EXTENDS CluckBakeryProofs

\* A ticket of f_tickets has the number that its key shows.
NumberShown(S) == \A t \in S : t.listed => t.number = t.rank

\* Nobody gets before a ticket that is locked.
LockedFirst(S) ==
  \A t, u \in S : t.listed /\ t.locked /\ u.listed /\ u # t => Before(KeyOf(t), KeyOf(u))

\* A client enters once at a time.
EntersOnce(S) == \A t, u \in S : t.entering /\ u.entering /\ t.client = u.client => t = u

\* A ticket that is still entering did not get any further.
Untouched(t) == ~t.listed /\ ~t.locked /\ ~t.maxAsked /\ ~t.added /\ ~t.quorum
Fresh(S) == \A t \in S : t.entering => Untouched(t)

Orderly(S) == NumberShown(S) /\ LockedFirst(S) /\ EntersOnce(S)
Steady(S) == Orderly(S) /\ Fresh(S)

-----------------------------------------------------------------------------
(* The table of tickets.                                                   *)

\* What stays the same when a ticket fails, waits for less or leaves a map.
Alike(u, t) ==
  /\ u.client = t.client /\ u.number = t.number /\ u.rank = t.rank /\ u.locked = t.locked
  /\ u.listed => t.listed
  /\ u.entering => t.entering
Tamer(u, t) ==
  Alike(u, t) /\ u.maxAsked = t.maxAsked /\ u.added = t.added /\ u.quorum = t.quorum

LEMMA AliveOrderly ==
  ASSUME NEW S
  PROVE  /\ Orderly(S) => Orderly(Alive(S))
         /\ Fresh(S) => Fresh(Alive(S))
<1>1. Alive(S) \subseteq S
  BY DEF Alive
<1> QED
  BY <1>1 DEF Orderly, NumberShown, LockedFirst, EntersOnce, Fresh

LEMMA AlikeOrderly ==
  ASSUME NEW S, NEW T, NEW f \in [S -> T], \A t \in S : Alike(f[t], t), Orderly(S)
  PROVE  Orderly(Range(f)) /\ Orderly(Alive(Range(f)))
<1>1. \A x \in Range(f) : \E t \in S : x = f[t] /\ Alike(x, t)
  BY DEF Range
<1>2. NumberShown(Range(f))
  BY <1>1 DEF Orderly, NumberShown, Alike
<1>3. LockedFirst(Range(f))
  <2> SUFFICES ASSUME NEW x \in Range(f), NEW y \in Range(f),
                      x.listed, x.locked, y.listed, y # x
               PROVE  Before(KeyOf(x), KeyOf(y))
    BY DEF LockedFirst
  <2>1. PICK t \in S : x = f[t] /\ Alike(x, t)
    BY <1>1
  <2>2. PICK u \in S : y = f[u] /\ Alike(y, u)
    BY <1>1
  <2>3. t # u /\ Before(KeyOf(t), KeyOf(u))
    BY <2>1, <2>2 DEF Orderly, LockedFirst, Alike
  <2> QED BY <2>1, <2>2, <2>3 DEF Alike, KeyOf
<1>4. EntersOnce(Range(f))
  <2> SUFFICES ASSUME NEW x \in Range(f), NEW y \in Range(f),
                      x.entering, y.entering, x.client = y.client
               PROVE  x = y
    BY DEF EntersOnce
  <2>1. PICK t \in S : x = f[t] /\ Alike(x, t)
    BY <1>1
  <2>2. PICK u \in S : y = f[u] /\ Alike(y, u)
    BY <1>1
  <2>3. t = u
    BY <2>1, <2>2 DEF Orderly, EntersOnce, Alike
  <2> QED BY <2>1, <2>2, <2>3
<1>5. Orderly(Range(f))
  BY <1>2, <1>3, <1>4 DEF Orderly
<1> QED
  BY <1>5, AliveOrderly

LEMMA TamerSteady ==
  ASSUME NEW S, NEW T, NEW f \in [S -> T], \A t \in S : Tamer(f[t], t), Steady(S)
  PROVE  Steady(Range(f)) /\ Steady(Alive(Range(f)))
<1>1. \A t \in S : Alike(f[t], t)
  BY DEF Tamer
<1>2. Orderly(Range(f))
  BY <1>1, AlikeOrderly DEF Steady
<1>3. \A x \in Range(f) : \E t \in S : x = f[t] /\ Tamer(x, t)
  BY DEF Range
<1>4. Fresh(Range(f))
  BY <1>3 DEF Steady, Fresh, Untouched, Tamer, Alike
<1> QED
  BY <1>2, <1>4, AliveOrderly DEF Steady

LEMMA FailTamer ==
  ASSUME NEW t \in Ticket, NEW b \in BOOLEAN
  PROVE  /\ t.listed => Tamer([Fail(t) EXCEPT !.listed = b], t)
         /\ t.entering => Tamer([Fail(t) EXCEPT !.entering = b], t)
<1> DEFINE u == Fail(t)
<1>1. /\ u \in Ticket /\ u.client = t.client /\ u.number = t.number /\ u.rank = t.rank
      /\ u.locked = t.locked /\ u.maxAsked = t.maxAsked /\ u.added = t.added
      /\ u.quorum = t.quorum /\ u.listed = t.listed /\ u.entering = t.entering
  BY FailType DEF Fail, Ticket
<1> HIDE DEF u
<1> QED
  BY <1>1 DEF Tamer, Alike, Ticket, u

LEMMA ExpireListedSteady ==
  ASSUME NEW l, NEW D, Sound(l, D), Steady(D.tickets)
  PROVE  Steady(ExpireListed(D).tickets)
<1> DEFINE late == {t \in Listed(D) : TimedOut(t)}
           f == [t \in D.tickets |-> IF t \in late
                                     THEN [Fail(t) EXCEPT !.listed = ~TimedOut(Fail(t))] ELSE t]
<1>1. \A t \in D.tickets : Tamer(f[t], t)
  <2> SUFFICES ASSUME NEW t \in D.tickets PROVE Tamer(f[t], t)
    OBVIOUS
  <2>1. t \in Ticket /\ TimedOut(Fail(t)) \in BOOLEAN
    BY DEF Sound, Context, TimedOut
  <2>2. CASE t \in late
    BY <2>1, <2>2, FailTamer DEF Listed
  <2>3. CASE t \notin late
    BY <2>3 DEF Tamer, Alike
  <2> QED BY <2>2, <2>3
<1>2. ExpireListed(D).tickets = Alive(Range(f))
  <2>1. Range(f) = {IF t \in late THEN [Fail(t) EXCEPT !.listed = ~TimedOut(Fail(t))] ELSE t :
                      t \in D.tickets}
    BY DEF Range
  <2> HIDE DEF f
  <2> QED BY <2>1 DEF ExpireListed, Sound, Context
<1>3. f \in [D.tickets -> Range(f)]
  BY DEF Range
<1> HIDE DEF f
<1> QED
  BY <1>1, <1>2, <1>3, TamerSteady

LEMMA ExpireEnteringSteady ==
  ASSUME NEW l, NEW D, Sound(l, D), Steady(D.tickets)
  PROVE  Steady(ExpireEntering(D).tickets)
<1> DEFINE late == {t \in D.tickets : t.entering /\ TimedOut(t)}
           f == [t \in D.tickets |-> IF t \in late
                                     THEN [Fail(t) EXCEPT !.entering = ~TimedOut(Fail(t))] ELSE t]
<1>1. \A t \in D.tickets : Tamer(f[t], t)
  <2> SUFFICES ASSUME NEW t \in D.tickets PROVE Tamer(f[t], t)
    OBVIOUS
  <2>1. t \in Ticket /\ TimedOut(Fail(t)) \in BOOLEAN
    BY DEF Sound, Context, TimedOut
  <2>2. CASE t \in late
    BY <2>1, <2>2, FailTamer
  <2>3. CASE t \notin late
    BY <2>3 DEF Tamer, Alike
  <2> QED BY <2>2, <2>3
<1>2. ExpireEntering(D).tickets = Alive(Range(f))
  <2>1. Range(f) = {IF t \in late THEN [Fail(t) EXCEPT !.entering = ~TimedOut(Fail(t))] ELSE t :
                      t \in D.tickets}
    BY DEF Range
  <2> HIDE DEF f
  <2> QED BY <2>1 DEF ExpireEntering, Sound, Context
<1>3. f \in [D.tickets -> Range(f)]
  BY DEF Range
<1> HIDE DEF f
<1> QED
  BY <1>1, <1>2, <1>3, TamerSteady

\* One ticket that changes for the better or the worse, but tamely.
LEMMA UpdateOrderly ==
  ASSUME NEW l, NEW D, Sound(l, D), NEW t \in D.tickets, NEW u, Alike(u, t)
  PROVE  /\ Orderly(D.tickets) => Orderly(Update(D, t, u).tickets)
         /\ Steady(D.tickets) /\ Tamer(u, t) => Steady(Update(D, t, u).tickets)
<1> DEFINE f == [v \in D.tickets |-> IF v = t THEN u ELSE v]
<1>1. /\ \A v \in D.tickets : Alike(f[v], v)
      /\ Tamer(u, t) => \A v \in D.tickets : Tamer(f[v], v)
  BY DEF Tamer, Alike
<1>2. Update(D, t, u).tickets = Alive(Range(f))
  <2>1. Range(f) = (D.tickets \ {t}) \cup {u}
    BY DEF Range
  <2> HIDE DEF f
  <2> QED BY <2>1 DEF Update, Sound, Context
<1>3. f \in [D.tickets -> Range(f)]
  BY DEF Range
<1> HIDE DEF f
<1> QED
  BY <1>1, <1>2, <1>3, AlikeOrderly, TamerSteady

\* Only the first ticket is granted: whatever is locked already is that very ticket.
LEMMA GrantFirstSteady ==
  ASSUME now \in Nat, NEW l, NEW D, Sound(l, D), Steady(D.tickets),
         NEW t \in D.tickets, t.listed,
         \A u \in Listed(D) \ {t} : Before(KeyOf(t), KeyOf(u))
  PROVE  Steady(LockActivated(D, t).tickets)
<1> DEFINE date == now + Duration
           u == [t EXCEPT !.locked = TRUE, !.lockDate = date]
           S == (D.tickets \ {t}) \cup {u}
           n == [Note("LOCKED") EXCEPT !.date = u.lockDate]
<1>1. /\ t \in Ticket /\ D.tickets \subseteq Ticket
      /\ ~t.entering
  BY DEF Sound, Context, Steady, Fresh, Untouched
<1>2. /\ u \in Ticket /\ u.client = t.client /\ u.number = t.number /\ u.rank = t.rank
      /\ u.listed /\ ~u.entering /\ u.lockDate = date /\ KeyOf(u) = KeyOf(t)
  <2>1. date \in Nat
    BY NumberAssumption
  <2> HIDE DEF date
  <2> QED BY <1>1, <2>1 DEF Ticket, KeyOf
<1>3. Update(D, t, u).tickets = Alive(S) /\ Sound(l, Update(D, t, u))
  <2>1. Update(D, t, u).tickets = Alive(S)
    BY DEF Update, Sound, Context
  <2> HIDE DEF u, S
  <2>2. Sound(l, Update(D, t, u))
    BY <1>2, UpdateSound
  <2> QED BY <2>1, <2>2
<1>4. LockActivated(D, t).tickets \in {D.tickets, Alive(S)}
  <2>1. n \in Notice
    <3>1. date \in Nat
      BY NumberAssumption
    <3> QED BY <1>2, <3>1 DEF Note, Notice
  <2>2. LockActivated(D, t) \in {D, Update(D, t, u), TellClient(Update(D, t, u), t.client, n)}
    BY DEF LockActivated
  <2> HIDE DEF u, n, S
  <2> QED BY <1>3, <2>1, <2>2, TellClientSound
<1> HIDE DEF u
<1>5. Steady(S)
  <2>1. \A v \in S : v.listed => v = u \/ (v \in D.tickets /\ v # t /\ Before(KeyOf(u), KeyOf(v)))
    BY <1>2 DEF Listed
  <2>2. LockedFirst(S)
    <3> SUFFICES ASSUME NEW x \in S, NEW y \in S, x.listed, x.locked, y.listed, y # x
                 PROVE  Before(KeyOf(x), KeyOf(y))
      BY DEF LockedFirst
    <3>1. CASE x = u
      BY <2>1, <3>1
    <3>2. CASE x # u /\ y = u
      BY <1>2, <2>1, <3>2 DEF Steady, Orderly, LockedFirst
    <3>3. CASE x # u /\ y # u
      BY <2>1, <3>3 DEF Steady, Orderly, LockedFirst
    <3> QED BY <3>1, <3>2, <3>3
  <2> QED BY <1>2, <2>2 DEF Steady, Orderly, NumberShown, EntersOnce, Fresh
<1>6. Alive(S) \subseteq S
  BY DEF Alive
<1>7. Steady(Alive(S))
  <2> HIDE DEF S
  <2> QED BY <1>5, <1>6 DEF Steady, Orderly, NumberShown, LockedFirst, EntersOnce, Fresh
<1> QED
  BY <1>4, <1>7

LEMMA ActivateFirstLockSteady ==
  ASSUME Cardinality(Leader) = 1, now \in Nat, NEW l, NEW D, Sound(l, D), Steady(D.tickets)
  PROVE  Steady(ActivateFirstLock(D).tickets)
<1> DEFINE E == ExpireListed(D)
           t == First(Listed(E))
<1>1. Sound(l, E) /\ Steady(E.tickets)
  BY ExpireListedSound, ExpireListedSteady
<1>2. ActivateFirstLock(D) \in {E} \/ (Listed(E) # {} /\ ActivateFirstLock(D) = LockActivated(E, t))
  BY <1>1, SoundAlone DEF ActivateFirstLock, ActivateLock
<1> HIDE DEF E
<1>3. Listed(E) # {} => /\ t \in E.tickets /\ t.listed
                        /\ \A u \in Listed(E) \ {t} : Before(KeyOf(t), KeyOf(u))
  BY <1>1, FirstListed
<1> HIDE DEF t
<1> QED
  BY <1>1, <1>2, <1>3, GrantFirstSteady

LEMMA CleanupSteady ==
  ASSUME Cardinality(Leader) = 1, now \in Nat, NEW l, NEW D, Sound(l, D), Steady(D.tickets)
  PROVE  Steady(Cleanup(D).tickets)
<1> DEFINE E == ExpireListed(D)
           erased == \E t \in Listed(D) : TimedOut(t) /\ TimedOut(Fail(t))
           F == IF erased THEN ActivateFirstLock(E) ELSE E
<1>1. Sound(l, E) /\ Steady(E.tickets)
  BY ExpireListedSound, ExpireListedSteady
<1>2. Cleanup(D) = ExpireEntering(F)
  BY DEF Cleanup
<1> HIDE DEF E, erased
<1>3. Sound(l, F) /\ Steady(F.tickets)
  BY <1>1, ActivateFirstLockSound, ActivateFirstLockSteady
<1> HIDE DEF F
<1> QED
  BY <1>2, <1>3, ExpireEnteringSteady

-----------------------------------------------------------------------------
(* The way of a ticket through the bakery, in one handler.                 *)

\* Every ticket that enters is untouched but for those of client c.
FreshBut(S, c) == \A t \in S : t.entering /\ t.client # c => Untouched(t)

LEMMA RemoveEnteringTamer ==
  ASSUME NEW t \in Ticket, NEW c
  PROVE  Tamer(RemoveEntering(t, c), t)
BY DEF RemoveEntering, Tamer, Alike, Ticket

LEMMA LockExitingSteady ==
  ASSUME Cardinality(Leader) = 1, now \in Nat, NEW l, NEW D, Sound(l, D), NEW c,
         Orderly(D.tickets), FreshBut(D.tickets, c)
  PROVE  Steady(LockExiting(D, c).tickets)
<1>1. CASE EnteringOf(D, c) = {}
  <2>1. Steady(D.tickets)
    BY <1>1 DEF EnteringOf, FreshBut, Steady, Fresh
  <2> QED BY <1>1, <2>1, CleanupSteady DEF LockExiting
<1>2. CASE EnteringOf(D, c) # {}
  <2> DEFINE t == One(EnteringOf(D, c))
             u == [t EXCEPT !.entering = FALSE]
             E == Update(D, t, u)
             freed == {v \in Listed(E) : Freed(v, c) /\ RemoveEntering(v, c).ready}
             f == [v \in E.tickets |-> IF v.listed THEN RemoveEntering(v, c) ELSE v]
             F == [E EXCEPT !.tickets = Range(f)]
             s == SetToSeq({Msg("TICKET_READY", KeyOf(v)) : v \in freed})
             G == SendAllToLeaders(F, s)
  <2>1. t \in D.tickets /\ t \in Ticket /\ t.entering /\ t.client = c
    BY <1>2 DEF One, EnteringOf, Sound, Context
  <2>2. u \in Ticket /\ ~u.entering /\ Alike(u, t) /\ KeyOf(u) = KeyOf(t) /\ u.listed = t.listed
    BY <2>1 DEF Ticket, Alike, KeyOf
  <2>3. LockExiting(D, c) = Cleanup(IF Listed(G) = {} THEN G ELSE ActivateFirstLock(G))
    <3>1. Range(f) = {IF v.listed THEN RemoveEntering(v, c) ELSE v : v \in E.tickets}
      BY DEF Range
    <3> QED BY <1>2, <3>1, Zenon DEF LockExiting
  <2> HIDE DEF t, u
  <2>4. Sound(l, E) /\ Orderly(E.tickets)
    BY <2>1, <2>2, UpdateSound, UpdateOrderly
  <2>5. Fresh(E.tickets)
    <3>1. E.tickets \subseteq (D.tickets \ {t}) \cup {u}
      BY DEF Update, Alive, Sound, Context
    <3>2. \A v \in D.tickets \ {t} : v.entering => v.client # c
      BY <2>1 DEF Orderly, EntersOnce
    <3> QED BY <2>2, <3>1, <3>2 DEF Fresh, FreshBut
  <2>6. E.tickets \in SUBSET Ticket /\ IsFiniteSet(E.tickets) /\ KeysDiffer(E.tickets)
    BY <2>4 DEF Sound, Context
  <2> HIDE DEF E
  <2>7. s \in Seq(Message)
    <3> DEFINE g == [v \in freed |-> Msg("TICKET_READY", KeyOf(v))]
    <3>1. IsFiniteSet(freed) /\ freed \subseteq E.tickets
      BY <2>6, FS_Subset DEF Listed
    <3>2. g \in [freed -> Message]
      BY <2>6, <3>1, MsgType, KeyTypes
    <3>3. {Msg("TICKET_READY", KeyOf(v)) : v \in freed} = Range(g)
      BY DEF Range
    <3> HIDE DEF g, freed
    <3>4. IsFiniteSet(Range(g)) /\ Range(g) \subseteq Message
      BY <3>1, <3>2, FiniteImage
    <3> QED BY <3>3, <3>4, SetToSeqType
  <2> HIDE DEF s, freed
  <2>8. /\ f \in [E.tickets -> Ticket]
        /\ \A v \in E.tickets : KeyOf(f[v]) = KeyOf(v) /\ (f[v].listed => v.listed)
    BY <2>6, RemoveEnteringType
  <2>9. \A v \in E.tickets : Tamer(f[v], v)
    BY <2>6, RemoveEnteringTamer DEF Tamer, Alike
  <2> HIDE DEF f
  <2>10. Range(f) \subseteq Ticket /\ IsFiniteSet(Range(f)) /\ KeysDiffer(Range(f))
    BY <2>6, <2>8, ImageTable
  <2>11. Sound(l, F) /\ F.tickets = Range(f)
    BY <2>4, <2>10, TableSound
  <2>12. Steady(F.tickets)
    BY <2>4, <2>5, <2>8, <2>9, <2>11, TamerSteady DEF Steady
  <2> HIDE DEF F
  <2>13. Sound(l, G) /\ Steady(G.tickets)
    BY <2>7, <2>11, <2>12, SendAllSound
  <2> HIDE DEF G
  <2> DEFINE H == IF Listed(G) = {} THEN G ELSE ActivateFirstLock(G)
  <2>14. Sound(l, H) /\ Steady(H.tickets)
    BY <2>13, ActivateFirstLockSound, ActivateFirstLockSteady
  <2> HIDE DEF H
  <2> QED BY <2>3, <2>14, CleanupSteady DEF H
<1> QED
  BY <1>1, <1>2

LEMMA TicketAddedSteady ==
  ASSUME Cardinality(Leader) = 1, now \in Nat, NEW l, NEW D, Sound(l, D), NEW t \in D.tickets,
         ~t.quorum, Orderly(D.tickets), FreshBut(D.tickets, t.client)
  PROVE  Steady(TicketAdded(D, t).tickets)
<1> DEFINE still == {[client |-> u.client, until |-> CurrentDate(u)] :
                       u \in {v \in D.tickets : v.entering}}
           u == [t EXCEPT !.quorum = TRUE, !.still = still]
           E == Update(D, t, u)
           m == Msg("LOCK_EXITING", EnteringKey(t.client))
           F == SendToLeaders(E, m)
<1>1. D.tickets \subseteq Ticket /\ t \in Ticket
  BY DEF Sound, Context
<1>2. still \subseteq Pending
  <2>1. \A v \in Ticket : v.client \in Client /\ CurrentDate(v) \in Nat
    BY DEF CurrentDate, Ticket
  <2> QED BY <1>1, <2>1 DEF Pending
<1>3. TicketAdded(D, t) = LockExiting(F, t.client)
  BY DEF TicketAdded
<1> HIDE DEF still
<1>4. u \in Ticket /\ KeyOf(u) = KeyOf(t) /\ u.listed = t.listed /\ Alike(u, t)
  BY <1>1, <1>2 DEF Ticket, KeyOf, Alike
<1> HIDE DEF u
<1>5. Sound(l, E) /\ Orderly(E.tickets)
  BY <1>4, UpdateSound, UpdateOrderly
<1>6. FreshBut(E.tickets, t.client)
  <2>1. E.tickets \subseteq D.tickets \cup {u}
    BY DEF Update, Alive, Sound, Context
  <2> QED BY <1>4, <2>1 DEF FreshBut, Alike
<1>7. m \in Message
  BY <1>1, KeyTypes, MsgType
<1> HIDE DEF E, m
<1>8. Sound(l, F) /\ Orderly(F.tickets) /\ FreshBut(F.tickets, t.client)
  BY <1>5, <1>6, <1>7, SendSound
<1> HIDE DEF F
<1> QED
  BY <1>3, <1>8, LockExitingSteady

\* The number is above every number of f_tickets: nobody has the key yet, and the ticket
\* comes last.
LEMMA MaxTicketSteady ==
  ASSUME Cardinality(Leader) = 1, now \in Nat, NEW l, NEW D, Sound(l, D), NEW t \in D.tickets,
         t.entering, ~t.locked, ~t.added, ~t.quorum, t.number = LastTicket(D),
         ~Overflows(t, t.number), Orderly(D.tickets), FreshBut(D.tickets, t.client)
  PROVE  Steady(MaxTicket(D, t, t.number).tickets)
<1> DEFINE n == NextNumber(t, t.number)
           u == Numbered(t, n)
           others == {v \in D.tickets \ {t} : v.listed /\ KeyOf(v) = KeyOf(u)}
           F == SetTicket(D, t, u)
           m == [Msg("ADD_TICKET", KeyOf(u)) EXCEPT !.value = t.obtention]
           E == SendToLeaders(F, m)
           S == (D.tickets \ {t}) \cup {u}
<1>1. MaxTicket(D, t, t.number) = TicketAdded(E, u)
  BY SoundAlone DEF MaxTicket
<1>2. D.tickets \subseteq Ticket /\ t \in Ticket
  BY DEF Sound, Context
<1>3. n = t.number + 1
  BY DEF NextNumber
<1>4. n \in Number /\ n \in Nat /\ \A v \in Listed(D) : v.number < n
  <2>1. t.number \in Nat /\ t.number \in Number
    BY <1>2, NumberAssumption DEF Ticket, Number
  <2>2. n <= MaxNumber
    BY <1>3, <2>1, NumberAssumption DEF Overflows
  <2>3. \A v \in Listed(D) : v.number <= t.number /\ v.number \in Nat
    BY <1>2, LastTicketType, NumberAssumption DEF Listed, Ticket, Number
  <2> QED BY <1>3, <2>1, <2>2, <2>3, NumberAssumption DEF Number
<1> HIDE DEF n
<1>5. /\ u \in Ticket /\ u.listed /\ u.entering /\ ~u.locked /\ ~u.quorum /\ u.client = t.client
      /\ u.number = n /\ u.rank = n /\ u.obtention = t.obtention
  BY <1>2, <1>4 DEF Ticket, Numbered
<1>6. KeyOf(u).number = n /\ \A v : KeyOf(v).number = v.rank
  BY <1>5 DEF KeyOf
<1> HIDE DEF u
<1>7. others = {}
  BY <1>4, <1>5, <1>6 DEF Orderly, NumberShown, Listed
<1>8. F.tickets \subseteq S
  <2>1. F.tickets = Alive((D.tickets \ (others \cup {t}))
                            \cup {[v EXCEPT !.listed = FALSE] : v \in others} \cup {u})
    BY DEF SetTicket, Sound, Context
  <2> QED BY <1>7, <2>1 DEF Alive
<1>9. Orderly(S)
  <2>1. NumberShown(S)
    BY <1>5 DEF Orderly, NumberShown
  <2>2. LockedFirst(S)
    <3> SUFFICES ASSUME NEW x \in S, NEW y \in S, x.listed, x.locked, y.listed, y # x
                 PROVE  Before(KeyOf(x), KeyOf(y))
      BY DEF LockedFirst
    <3>1. x \in D.tickets
      BY <1>5
    <3>2. CASE y = u
      <4>1. KeyOf(x).number < n /\ KeyOf(y).number = n
        BY <1>4, <1>6, <3>1, <3>2 DEF Orderly, NumberShown, Listed
      <4> QED BY <4>1 DEF Before
    <3>3. CASE y # u
      BY <3>1, <3>3 DEF Orderly, LockedFirst
    <3> QED BY <3>2, <3>3
  <2>3. EntersOnce(S)
    <3>1. \A v \in D.tickets \ {t} : v.entering => v.client # t.client
      BY DEF Orderly, EntersOnce
    <3> QED BY <1>5, <3>1 DEF Orderly, EntersOnce
  <2> QED BY <2>1, <2>2, <2>3 DEF Orderly
<1>10. FreshBut(S, u.client)
  BY <1>5 DEF FreshBut
<1>11. m \in Message
  <2>1. t.obtention \in Nat
    BY <1>2 DEF Ticket
  <2>2. KeyOf(u) \in Key
    BY <1>5, KeyTypes
  <2> QED BY <2>1, <2>2, MsgType
<1>12. Sound(l, F) /\ u \in F.tickets
  BY <1>5, SetTicketSound
<1> HIDE DEF F, m, S
<1>13. Sound(l, E) /\ u \in E.tickets /\ E.tickets \subseteq S
  BY <1>8, <1>11, <1>12, SendSound
<1> HIDE DEF E
<1>14. Orderly(E.tickets) /\ FreshBut(E.tickets, u.client)
  BY <1>9, <1>10, <1>13 DEF Orderly, NumberShown, LockedFirst, EntersOnce, FreshBut
<1> QED
  BY <1>1, <1>5, <1>13, <1>14, TicketAddedSteady

LEMMA EnteredSteady ==
  ASSUME Cardinality(Leader) = 1, now \in Nat, NEW l, NEW D, Sound(l, D), Steady(D.tickets),
         NEW t \in D.tickets, t.entering, ~EnterOverflows(D, t)
  PROVE  Steady(Entered(D, t).tickets)
<1> DEFINE u == [t EXCEPT !.maxAsked = TRUE, !.number = LastTicket(D)]
           F == Update(D, t, u)
           m == Msg("GET_MAX_TICKET", EnteringKey(t.client))
           E == SendToLeaders(F, m)
<1>1. Untouched(t)
  BY DEF Steady, Fresh
<1>2. Entered(D, t) = MaxTicket(E, u, u.number)
  BY <1>1, SoundAlone DEF Entered, Untouched
<1>3. t \in Ticket /\ D.tickets \subseteq Ticket
  BY DEF Sound, Context
<1>4. LastTicket(D) \in Number
  BY <1>3, LastTicketType
<1>5. /\ u \in Ticket /\ ~u.listed /\ u.entering /\ ~u.locked /\ ~u.added /\ ~u.quorum
      /\ u.number = LastTicket(D) /\ u.client = t.client
  BY <1>1, <1>3, <1>4 DEF Ticket, Untouched
<1>6. m \in Message
  BY <1>3, KeyTypes, MsgType
<1>7. F.tickets = Alive((D.tickets \ {t}) \cup {u})
  BY DEF Update, Sound, Context
<1> HIDE DEF u, m
<1>8. Sound(l, F) /\ u \in F.tickets
  BY <1>5, UpdateSound
<1> HIDE DEF F
<1>9. Sound(l, E) /\ u \in E.tickets /\ E.tickets = F.tickets
  BY <1>6, <1>8, SendSound
<1> HIDE DEF E
<1>10. Listed(E) = Listed(D)
  BY <1>1, <1>5, <1>7, <1>9 DEF Listed, Alive, Untouched
<1>11. u.number = LastTicket(E)
  BY <1>5, <1>10 DEF LastTicket
<1>12. Orderly(E.tickets) /\ FreshBut(E.tickets, u.client)
  <2>1. \A x \in E.tickets : x = u \/ (x \in D.tickets /\ x # t)
    BY <1>7, <1>9 DEF Alive
  <2>2. NumberShown(E.tickets) /\ LockedFirst(E.tickets)
    BY <1>5, <2>1 DEF Steady, Orderly, NumberShown, LockedFirst
  <2>3. \A v \in D.tickets \ {t} : v.entering => v.client # t.client
    BY DEF Steady, Orderly, EntersOnce
  <2>4. EntersOnce(E.tickets)
    BY <1>5, <2>1, <2>3 DEF Steady, Orderly, EntersOnce
  <2>5. FreshBut(E.tickets, u.client)
    BY <1>5, <2>1 DEF Steady, Fresh, FreshBut
  <2> QED BY <2>2, <2>4, <2>5 DEF Orderly
<1>13. ~Overflows(u, u.number)
  <2>1. NextNumber(u, u.number) = LastTicket(D) + 1
    BY <1>5 DEF NextNumber
  <2> QED BY <1>1, <2>1, SoundAlone DEF Overflows, EnterOverflows, Untouched
<1> QED
  BY <1>2, <1>5, <1>9, <1>11, <1>12, <1>13, MaxTicketSteady

LEMMA EnterSteady ==
  ASSUME Cardinality(Leader) = 1, now \in Nat, NEW l, NEW D, Sound(l, D), Steady(D.tickets),
         NEW t \in D.tickets, t.entering, ~EnterOverflows(D, t)
  PROVE  Steady(Enter(D, t).tickets)
<1> DEFINE m == [Msg("LOCK_ENTERING", EnteringKey(t.client)) EXCEPT !.value = t.obtention]
           E == SendToLeaders(D, m)
<1>1. Enter(D, t) = Entered(E, t)
  BY SoundAlone DEF Enter
<1>2. t \in Ticket /\ t.obtention \in Nat
  BY DEF Sound, Context, Ticket
<1>3. m \in Message
  <2>1. EnteringKey(t.client) \in Key
    BY <1>2, KeyTypes
  <2> QED BY <1>2, <2>1, MsgType
<1> HIDE DEF m
<1>4. Sound(l, E) /\ E.tickets = D.tickets
  BY <1>3, SendSound
<1>5. ~EnterOverflows(E, t)
  BY <1>4, SoundAlone DEF EnterOverflows, LastTicket, Listed
<1> HIDE DEF E
<1> QED
  BY <1>1, <1>4, <1>5, EnteredSteady

\* A client that enters has no ticket yet.
LEMMA AddSteady ==
  ASSUME NEW D, Steady(D.tickets), NEW c, EnteringOf(D, c) = {},
         NEW t, t.client = c, t.entering, Untouched(t)
  PROVE  Steady(D.tickets \cup {t})
<1>1. \A v \in D.tickets : v.entering => v.client # c
  BY DEF EnteringOf
<1> QED
  BY <1>1 DEF Steady, Orderly, Fresh, NumberShown, LockedFirst, EntersOnce, Untouched

-----------------------------------------------------------------------------
(* The handlers.  LOCK, ABSOLUTELY, UNLOCK and the timer are all that is   *)
(* left: whatever else arrives comes from another leader.                  *)

SteadyTables == \A l \in Leader : Steady(tickets[l])

LEMMA DoneSteady ==
  ASSUME TypeInv, SteadyTables, NEW s \in Node, NEW l \in Leader,
         NEW D, Steady(D.tickets), Done(s, l, D)
  PROVE  SteadyTables'
BY DEF Done, Return, Leave, Stop, SteadyTables, TypeInv, TypeOK

LEMMA MsgLockSteady ==
  ASSUME Cardinality(Leader) = 1, TypeInv, SteadyTables, NEW s \in Node, NEW l \in Leader, MsgLock(s, l)
  PROVE  SteadyTables'
<1> DEFINE m == Received(s, l)
           c == m.key.client
           D == Cleanup(Here(l))
           t == NewTicket(c, l, m.value)
           limit == IF now + AliveTimeout < m.value THEN now + AliveTimeout ELSE m.value
           waiting == [t EXCEPT !.alive = limit]
           E == [D EXCEPT !.tickets = @ \cup {waiting}]
           F == [D EXCEPT !.tickets = @ \cup {t}]
<1>1. c \in Client /\ m.value \in Nat
  <2>1. Arrived(s, l, "LOCK")
    BY DEF MsgLock
  <2> QED BY <2>1, ReceivedType
<1>2. Sound(l, D) /\ Steady(D.tickets) /\ now \in Nat
  BY HereSound, CleanupSound, CleanupSteady DEF SteadyTables
<1>3. limit \in Nat
  BY <1>1, <1>2, NumberAssumption
<1>4. \/ Done(s, l, TellClient(D, c, Note("LOCK_FAILED")))
      \/ Done(s, l, D)
      \/ ~Refused(D, m) /\ Done(s, l, Cleanup(TellClient(E, c, Note("ALIVE"))))
      \/ ~Refused(D, m) /\ ~EnterOverflows(D, t) /\ Done(s, l, Cleanup(Enter(F, t)))
      \/ Stop(s, l)
  <2>1. PICK X \in Locking(D, m, CheckAlive) : Done(s, l, X)
    BY DEF MsgLock
  <2>2. D.me = l
    BY <1>2 DEF Sound
  <2>3. \/ X = TellClient(D, c, Note("LOCK_FAILED"))
        \/ X = D
        \/ ~Refused(D, m) /\ X = Cleanup(TellClient(E, c, Note("ALIVE")))
        \/ ~Refused(D, m) /\ ~EnterOverflows(D, t) /\ X = Cleanup(Enter(F, t))
        \/ X = Halt(D)
    BY <2>1, <2>2, Zenon DEF Locking
  <2>4. Halt(D).stopped
    BY <1>2 DEF Halt, Sound, Context
  <2>5. X = Halt(D) => Stop(s, l)
    BY <2>1, <2>4 DEF Done
  <2> HIDE DEF m, c, D, t, limit, waiting, E, F
  <2> QED BY <2>1, <2>3, <2>5
<1>5. ~Refused(D, m) => EnteringOf(D, c) = {}
  BY DEF Refused, Known
<1> HIDE DEF m, c, limit
<1>6. t \in Ticket /\ ~t.listed /\ t.entering /\ t.client = c /\ Untouched(t)
  BY <1>1, NewTicketType DEF NewTicket, Untouched
<1> HIDE DEF D, t
<1>7. waiting \in Ticket /\ ~waiting.listed /\ waiting.entering /\ waiting.client = c
      /\ Untouched(waiting)
  BY <1>3, <1>6 DEF Ticket, Untouched
<1> HIDE DEF waiting
<1>8. Steady(TellClient(D, c, Note("LOCK_FAILED")).tickets)
  BY <1>2, NoteType, TellClientSound
<1>9. ~Refused(D, m) => Steady(Cleanup(TellClient(E, c, Note("ALIVE"))).tickets)
  <2>1. ASSUME ~Refused(D, m) PROVE Sound(l, E) /\ Steady(E.tickets)
    <3>1. Sound(l, E) /\ E.tickets = D.tickets \cup {waiting}
      BY <1>2, <1>7, AddSound DEF Sound, Context
    <3> HIDE DEF E
    <3> QED BY <1>2, <1>5, <1>7, <2>1, <3>1, AddSteady
  <2> HIDE DEF E
  <2> QED BY <1>2, <2>1, NoteType, TellClientSound, CleanupSteady
<1>10. ~Refused(D, m) /\ ~EnterOverflows(D, t) => Steady(Cleanup(Enter(F, t)).tickets)
  <2>1. /\ Sound(l, F) /\ t \in F.tickets /\ (EnterOverflows(F, t) <=> EnterOverflows(D, t))
        /\ F.tickets = D.tickets \cup {t}
    BY <1>2, <1>6, AddSound DEF Sound, Context
  <2> HIDE DEF F
  <2>2. ~Refused(D, m) => Steady(F.tickets)
    BY <1>2, <1>5, <1>6, <2>1, AddSteady
  <2> QED BY <1>2, <1>6, <2>1, <2>2, EnterSound, EnterSteady, CleanupSteady
<1> HIDE DEF E, F
<1> QED
  <2>1. Stop(s, l) => SteadyTables'
    BY DEF Stop, SteadyTables
  <2> QED BY <1>2, <1>4, <1>8, <1>9, <1>10, <2>1, DoneSteady

LEMMA MsgAbsolutelySteady ==
  ASSUME Cardinality(Leader) = 1, TypeInv, SteadyTables, NEW s \in Node, NEW l \in Leader, MsgAbsolutely(s, l)
  PROVE  SteadyTables'
<1> DEFINE c == Received(s, l).key.client
           D == Here(l)
           t == One(EnteringOf(D, c))
           u == [t EXCEPT !.alive = 0]
           old == [client |-> c, until |-> CurrentDate(t)]
           seen(v) == [v EXCEPT !.still =
                         {IF p = old THEN [p EXCEPT !.until = CurrentDate(u)] ELSE p : p \in @}]
           S == (D.tickets \ {t}) \cup {u}
           f == [v \in S |-> seen(v)]
           E == [D EXCEPT !.tickets = Range(f)]
<1>1. /\ Sound(l, D) /\ now \in Nat /\ D.tickets \subseteq Ticket
      /\ Steady(D.tickets) /\ D.tickets = tickets[l]
  BY HereSound DEF Sound, Context, SteadyTables
<1>2. \/ Done(s, l, D)
      \/ /\ EnteringOf(D, c) # {} /\ ~EnterOverflows(E, u)
         /\ Done(s, l, Enter(E, seen(u)))
      \/ Stop(s, l)
  <2>1. Range(f) = {seen(v) : v \in (D.tickets \ {t}) \cup {u}}
    BY DEF Range
  <2> QED BY <2>1, Zenon DEF MsgAbsolutely
<1>3. ASSUME EnteringOf(D, c) # {}, ~EnterOverflows(E, u)
      PROVE  Steady(Enter(E, seen(u)).tickets)
  <2>1. t \in D.tickets /\ t.entering /\ t \in Ticket
    BY <1>1, <1>3 DEF One, EnteringOf
  <2> HIDE DEF t, D
  <2>2. /\ u \in Ticket /\ KeyOf(u) = KeyOf(t) /\ u.listed = t.listed /\ u.entering
        /\ Tamer(u, t)
    BY <2>1 DEF Ticket, KeyOf, Tamer, Alike
  <2>3. CurrentDate(u) \in Nat
    BY <2>2 DEF CurrentDate, Ticket
  <2> HIDE DEF u, old
  <2>4. S \subseteq Ticket /\ IsFiniteSet(S) /\ KeysDiffer(S) /\ u \in S
    BY <1>1, <2>1, <2>2, FS_AddElement, FS_RemoveElement DEF Sound, KeysDiffer
  <2>5. Steady(S)
    <3> DEFINE g == [v \in D.tickets |-> IF v = t THEN u ELSE v]
    <3>1. \A v \in D.tickets : Tamer(g[v], v)
      BY <2>2 DEF Tamer, Alike
    <3>2. Range(g) = S /\ g \in [D.tickets -> Range(g)]
      BY <2>1 DEF Range
    <3> HIDE DEF g
    <3> QED BY <1>1, <3>1, <3>2, TamerSteady
  <2> HIDE DEF S
  <2>6. \A v \in Ticket : /\ seen(v) \in Ticket /\ KeyOf(seen(v)) = KeyOf(v)
                          /\ seen(v).listed = v.listed /\ seen(v).entering = v.entering
                          /\ Tamer(seen(v), v)
    <3> SUFFICES ASSUME NEW v \in Ticket
                 PROVE  /\ seen(v) \in Ticket /\ KeyOf(seen(v)) = KeyOf(v)
                        /\ seen(v).listed = v.listed /\ seen(v).entering = v.entering
                        /\ Tamer(seen(v), v)
      OBVIOUS
    <3> DEFINE still == {IF p = old THEN [p EXCEPT !.until = CurrentDate(u)] ELSE p : p \in v.still}
    <3>1. still \subseteq Pending
      BY <2>3 DEF Ticket, Pending
    <3>2. seen(v) = [v EXCEPT !.still = still]
      BY Zenon
    <3> HIDE DEF still
    <3> QED BY <3>1, <3>2 DEF Ticket, KeyOf, Tamer, Alike
  <2> HIDE DEF seen
  <2>7. /\ f \in [S -> Ticket]
        /\ \A v \in S : KeyOf(f[v]) = KeyOf(v) /\ (f[v].listed => v.listed) /\ Tamer(f[v], v)
    BY <2>4, <2>6
  <2>8. seen(u) \in Range(f) /\ seen(u).entering
    BY <2>2, <2>4, <2>6 DEF Range
  <2> HIDE DEF f
  <2>9. Range(f) \subseteq Ticket /\ IsFiniteSet(Range(f)) /\ KeysDiffer(Range(f))
    BY <2>4, <2>7, ImageTable
  <2>10. Sound(l, E) /\ E.tickets = Range(f)
    BY <1>1, <2>9, TableSound
  <2>11. Steady(E.tickets)
    BY <2>5, <2>7, <2>10, TamerSteady
  <2>12. ~EnterOverflows(E, seen(u))
    BY <1>3, <2>2, <2>6 DEF EnterOverflows, Tamer
  <2> HIDE DEF E
  <2> QED BY <1>1, <2>8, <2>10, <2>11, <2>12, EnterSteady
<1> HIDE DEF E, u, t, seen
<1> QED
  <2>1. Stop(s, l) => SteadyTables'
    BY DEF Stop, SteadyTables
  <2> QED BY <1>1, <1>2, <1>3, <2>1, DoneSteady

LEMMA MsgUnlockSteady ==
  ASSUME Cardinality(Leader) = 1, TypeInv, SteadyTables, NEW s \in Node, NEW l \in Leader, MsgUnlock(s, l)
  PROVE  SteadyTables'
<1> DEFINE c == Received(s, l).key.client
           D == Here(l)
           t == First(ListedOf(D, c))
           gone == [t EXCEPT !.listed = FALSE, !.failed = IF @ = "NONE" THEN "UNLOCKING" ELSE @]
           G == DropTicket(D, t)
           E == Update(G, t, gone)
           F == IF ListedOf(D, c) = {} THEN D ELSE ActivateFirstLock(E)
<1>1. Sound(l, D) /\ now \in Nat /\ Steady(D.tickets)
  BY HereSound DEF SteadyTables
<1>2. Done(s, l, Cleanup(F))
  BY DEF MsgUnlock
<1>3. ASSUME ListedOf(D, c) # {} PROVE Sound(l, E) /\ Steady(E.tickets)
  <2>1. /\ ListedOf(D, c) \in SUBSET Ticket /\ ListedOf(D, c) \subseteq D.tickets
        /\ \A v, w \in ListedOf(D, c) : KeyOf(v) = KeyOf(w) => v = w
        /\ \A v \in ListedOf(D, c) : v.listed
    BY <1>1 DEF ListedOf, Sound, Context, KeysDiffer
  <2>2. t \in D.tickets /\ t \in Ticket /\ t.listed
    BY <1>3, <2>1, FirstExists
  <2> HIDE DEF t
  <2>3. gone \in Ticket /\ ~gone.listed /\ Tamer(gone, t)
    BY <2>2 DEF Ticket, Tamer, Alike
  <2>4. Sound(l, G) /\ G.tickets = D.tickets
    BY <1>1, <2>2, DropTicketSound
  <2> HIDE DEF gone, G
  <2> QED BY <1>1, <2>2, <2>3, <2>4, UpdateSound, UpdateOrderly DEF Tamer
<1> HIDE DEF E, D
<1>4. Sound(l, F) /\ Steady(F.tickets)
  BY <1>1, <1>3, ActivateFirstLockSound, ActivateFirstLockSteady
<1> HIDE DEF F
<1>5. Steady(Cleanup(F).tickets)
  BY <1>1, <1>4, CleanupSteady
<1> QED
  BY <1>2, <1>5, DoneSteady

LEMMA HandleSteady ==
  ASSUME Cardinality(Leader) = 1, TypeInv, SteadyTables, NEW s \in Node, NEW l \in Leader, Handle(s, l)
  PROVE  SteadyTables'
<1>1. ASSUME NEW type, type \notin {"LOCK", "ABSOLUTELY", "UNLOCK"}, Arrived(s, l, type)
      PROVE  FALSE
  BY <1>1, ReceivedType, OthersExist
<1>2. MsgLock(s, l) \/ MsgAbsolutely(s, l) \/ MsgUnlock(s, l)
  BY <1>1 DEF Handle, MsgLockEntering, MsgLockEntered, MsgGetMaxTicket, MsgMaxTicket,
              MsgAddTicket, MsgTicketAdded, MsgLockExiting, MsgTicketReady, MsgActivateLock,
              MsgLockActivated, MsgDropTicket, MsgLockFailed
<1> QED
  BY <1>2, MsgLockSteady, MsgAbsolutelySteady, MsgUnlockSteady

LEMMA TimerSteady ==
  ASSUME Cardinality(Leader) = 1, TypeInv, SteadyTables, NEW l \in Leader, Timer(l)
  PROVE  SteadyTables'
<1> DEFINE D == Cleanup(Here(l))
<1>1. Steady(D.tickets) /\ Sound(l, D)
  BY HereSound, CleanupSound, CleanupSteady DEF SteadyTables
<1>2. tickets' = [tickets EXCEPT ![l] = D.tickets]
  BY <1>1 DEF Timer, Sound
<1> HIDE DEF D
<1> QED
  BY <1>1, <1>2 DEF SteadyTables, TypeInv, TypeOK

LEMMA NextSteady ==
  ASSUME Cardinality(Leader) = 1, TypeInv, SteadyTables, [Next]_vars
  PROVE  SteadyTables'
<1>1. ASSUME NEW c \in Client, NEW l \in Leader, Lock(c, l) \/ Unlock(c, l) \/ Hear(c, l)
      PROVE  UNCHANGED tickets
  BY <1>1 DEF Lock, Unlock, Hear, Deaf, HearAlive, HearLocked, HearLockFailed, HearUnlocked,
              HearUnlocking, Hears
<1>2. ASSUME NEW c \in Client, ClientTimeout(c)
      PROVE  UNCHANGED tickets
  BY <1>2 DEF ClientTimeout
<1>3. Tick \/ UNCHANGED vars => UNCHANGED tickets
  BY DEF Tick, vars
<1>4. UNCHANGED tickets => SteadyTables'
  BY DEF SteadyTables
<1> QED
  BY <1>1, <1>2, <1>3, <1>4, HandleSteady, TimerSteady DEF Next

\* Two locked tickets would each come before the other one.
LEMMA SteadyGrant == TypeInv /\ SteadyTables => OneGrant
<1> SUFFICES ASSUME TypeInv, SteadyTables, NEW l \in Leader,
                    NEW t \in tickets[l], NEW u \in tickets[l],
                    t.listed, t.locked, u.listed, u.locked, t # u
             PROVE  FALSE
  BY DEF OneGrant
<1>1. Before(KeyOf(t), KeyOf(u)) /\ Before(KeyOf(u), KeyOf(t))
  BY DEF SteadyTables, Steady, Orderly, LockedFirst
<1>2. t \in Ticket /\ u \in Ticket
  BY DEF TypeInv, TypeOK
<1>3. /\ KeyOf(t).number \in Nat /\ KeyOf(u).number \in Nat
      /\ KeyOf(t).client \in Nat /\ KeyOf(u).client \in Nat
  <2>1. /\ t.rank \in Number /\ u.rank \in Number /\ Number \subseteq Nat
        /\ t.client \in Client /\ u.client \in Client /\ Client \subseteq Nat
    BY <1>2, NumberAssumption, ClientAssumption DEF Ticket, Number
  <2> QED BY <2>1 DEF KeyOf
<1> QED
  BY <1>1, <1>3 DEF Before

\* With a single leader the lock is never granted to two tickets, for every number of clients
\* and of tries and for every timeout: activate_first_lock() only grants the first ticket of
\* f_tickets, and max_ticket() gives every ticket a number above those of the table.
THEOREM LoneLeaderGrantsOnce ==
  ASSUME Cardinality(Leader) = 1
  PROVE  Spec => []OneGrant
<1>1. Init => TypeInv /\ SteadyTables
  <2>1. Init => SteadyTables
    BY DEF Init, SteadyTables, Steady, Orderly, Fresh, NumberShown, LockedFirst, EntersOnce
  <2> QED BY <2>1, InitTypes
<1>2. (TypeInv /\ SteadyTables) /\ [Next]_vars => (TypeInv /\ SteadyTables)'
  BY NextTypes, NextSteady
<1>3. TypeInv /\ SteadyTables => OneGrant
  BY SteadyGrant
<1> QED
  BY <1>1, <1>2, <1>3, PTL DEF Spec
\* A single leader always lets the first ticket go first, in the order of the ticket keys that
\* activate_first_lock() follows: no ticket of f_tickets comes before one that was granted.
THEOREM LoneLeaderInTurn ==
  ASSUME Cardinality(Leader) = 1
  PROVE  Spec => []InTurn
<1>1. Init => TypeInv /\ SteadyTables
  <2>1. Init => SteadyTables
    BY DEF Init, SteadyTables, Steady, Orderly, Fresh, NumberShown, LockedFirst, EntersOnce
  <2> QED BY <2>1, InitTypes
<1>2. (TypeInv /\ SteadyTables) /\ [Next]_vars => (TypeInv /\ SteadyTables)'
  BY NextTypes, NextSteady
<1>3. TypeInv /\ SteadyTables => InTurn
  <2>1. \A l, d \in Leader : l = d
    BY LeaderAssumption, FS_Singleton
  <2> QED BY <2>1 DEF SteadyTables, Steady, Orderly, LockedFirst, InTurn
<1> QED
  BY <1>1, <1>2, <1>3, PTL DEF Spec

-----------------------------------------------------------------------------
(* What the clients believe.                                               *)

\* The LOCKED messages of a queue.
Grants(q) == {i \in DOMAIN q : q[i].type = "LOCKED"}

\* The client heard that it was given the lock, be it that it has unlocked since.
Had(c) == client[c].overDate # 0

Sent(c, type) == \E l \in Leader : \E m \in Range(net[c][l]) : m.type = type

\* No leader has heard of the client.
NotYet == {c \in Client : client[c].tries = 0 \/ Sent(c, "LOCK")}

\* Whoever may have the lock until that date is the ticket's client.
Holds(t, date) == t.listed /\ t.locked /\ date <= t.lockDate

\* A ticket with a number does not wait for its client to say that it lives.
Calm(S) == \A t \in S : t.listed => t.alive = 0

\* What client c believes, or will from the messages in q, the table S agrees to.
Honest(c, S, q) ==
  /\ \A t, u \in S : t.client = c /\ u.client = c => t = u
  /\ \A i, j \in Grants(q) : i = j
  /\ Had(c) => Grants(q) = {}
  /\ Had(c) \/ Grants(q) # {} => \A t \in S : t.client = c => t.locked
  /\ \A i \in Grants(q) : q[i].date > now => \E t \in S : t.client = c /\ Holds(t, q[i].date)
  /\ IsLocked(c) => \E t \in S : t.client = c /\ Holds(t, client[c].lockDate)

Unheard(c, S, q) == Grants(q) = {} /\ \A t \in S : t.client # c

OneLock(q) == \A i, j \in DOMAIN q : q[i].type = "LOCK" /\ q[j].type = "LOCK" => i = j

\* A client gets one LOCKED at most, and its UNLOCK means that it does not have the lock.
Sane(c) ==
  /\ \A l \in Leader : OneLock(net[c][l]) /\ \A m \in Range(net[c][l]) : m.key.client = c
  /\ client[c].tries = 0 => client[c].state = "IDLE" /\ ~Sent(c, "LOCK")
  /\ c \in NotYet => ~Had(c)
  /\ client[c].state \in {"LOCKED", "UNLOCKING"} \/ Sent(c, "UNLOCK") => Had(c)
  /\ client[c].state = "LOCKED" => ~Sent(c, "UNLOCK")

HonestTables ==
  \A l \in Leader :
    /\ Calm(tickets[l])
    /\ \A c \in Client : /\ Honest(c, tickets[l], mail[c][l])
                         /\ c \in NotYet => Unheard(c, tickets[l], mail[c][l])

LoneInv == TypeInv /\ SteadyTables /\ HonestTables /\ \A c \in Client : Sane(c)

-----------------------------------------------------------------------------
(* The messages to a client, with the ones a handler has not sent yet.     *)

Post(l, D, c) == mail[c][l] \o D.mail[c]

\* Other messages may have been added, no LOCKED.
SameGrants(r, q) == Grants(r) = Grants(q) /\ \A i \in Grants(q) : r[i] = q[i]

Quiet == {n \in Notice : n.type # "LOCKED"}

LEMMA PostType ==
  ASSUME TypeInv, NEW l \in Leader, NEW D, Sound(l, D), NEW c \in Client
  PROVE  /\ Post(l, D, c) \in Seq(Notice) /\ mail[c][l] \in Seq(Notice) /\ D.mail[c] \in Seq(Notice)
         /\ \A i \in Grants(Post(l, D, c)) : Post(l, D, c)[i].date \in Nat
<1>1. mail[c][l] \in Seq(Notice) /\ D.mail[c] \in Seq(Notice)
  BY DEF TypeInv, TypeOK, Sound, Context
<1>2. Post(l, D, c) \in Seq(Notice)
  BY <1>1, ConcatProperties DEF Post
<1>3. \A i \in DOMAIN Post(l, D, c) : Post(l, D, c)[i] \in Notice
  BY <1>2, ElementOfSeq, LenProperties
<1> QED
  BY <1>1, <1>2, <1>3 DEF Grants, Notice

LEMMA QuietAdds ==
  ASSUME NEW p \in Seq(Notice), NEW q \in Seq(Notice), NEW s \in Seq(Quiet)
  PROVE  SameGrants(p \o (q \o s), p \o q)
<1> DEFINE r == p \o q
<1>1. r \in Seq(Notice) /\ s \in Seq(Notice) /\ p \o (q \o s) = r \o s
  <2>1. Quiet \subseteq Notice
    BY DEF Quiet
  <2>2. s \in Seq(Notice)
    BY <2>1
  <2> QED BY <2>2, ConcatProperties
<1>2. \A i \in DOMAIN s : s[i].type # "LOCKED"
  BY ElementOfSeq, LenProperties DEF Quiet
<1> HIDE DEF r
<1>3. /\ r \o s \in Seq(Notice) /\ Len(r \o s) = Len(r) + Len(s)
      /\ \A i \in 1..(Len(r) + Len(s)) :
           (r \o s)[i] = IF i <= Len(r) THEN r[i] ELSE s[i - Len(r)]
  BY <1>1, ConcatProperties
<1>4. DOMAIN r = 1..Len(r) /\ DOMAIN s = 1..Len(s) /\ DOMAIN (r \o s) = 1..(Len(r) + Len(s))
      /\ Len(r) \in Nat /\ Len(s) \in Nat
  BY <1>1, <1>3, LenProperties
<1>5. \A i \in DOMAIN r : i \in DOMAIN (r \o s) /\ (r \o s)[i] = r[i]
  BY <1>3, <1>4
<1>6. \A i \in DOMAIN (r \o s) : i \in DOMAIN r \/ (r \o s)[i].type # "LOCKED"
  <2> SUFFICES ASSUME NEW i \in DOMAIN (r \o s), i \notin DOMAIN r
               PROVE  (r \o s)[i].type # "LOCKED"
    OBVIOUS
  <2>1. i - Len(r) \in DOMAIN s /\ (r \o s)[i] = s[i - Len(r)]
    BY <1>3, <1>4
  <2> QED BY <1>2, <2>1
<1> QED
  BY <1>1, <1>5, <1>6 DEF SameGrants, Grants, r

LEMMA MailAdds ==
  ASSUME TypeInv, NEW l \in Leader, NEW D, Sound(l, D), NEW E, NEW c \in Client, NEW s \in Seq(Quiet),
         E.mail[c] = D.mail[c] \o s
  PROVE  SameGrants(Post(l, E, c), Post(l, D, c))
BY PostType, QuietAdds DEF Post

LEMMA SameMail ==
  ASSUME NEW l, NEW D, NEW E, NEW c, E.mail[c] = D.mail[c]
  PROVE  SameGrants(Post(l, E, c), Post(l, D, c))
BY DEF Post, SameGrants

-----------------------------------------------------------------------------
(* What a handler does to a table and to the messages for the clients.     *)

Fair(l, D, N) ==
  /\ Calm(D.tickets)
  /\ \A c \in Client : /\ Honest(c, D.tickets, Post(l, D, c))
                       /\ c \in N => Unheard(c, D.tickets, Post(l, D, c))

\* The client may have gone on without the lock.
Over(l, D, c) == ~IsLocked(c) /\ Grants(Post(l, D, c)) = {}

Same(u, t) == u.client = t.client /\ u.locked = t.locked /\ (u.listed => u.alive = 0)
Lasting(u, t) ==
  t.listed /\ t.locked /\ now < t.lockDate => u.listed /\ t.lockDate <= u.lockDate

\* A table of the same tickets, where the locks that count last.
LEMMA KeepFair ==
  ASSUME TypeInv, NEW l \in Leader, NEW N, NEW D, Sound(l, D), Fair(l, D, N),
         NEW f \in [D.tickets -> Ticket], NEW E,
         E.tickets \in {Range(f), Alive(Range(f))},
         \A t \in D.tickets : /\ Same(f[t], t)
                              /\ Lasting(f[t], t) \/ Over(l, D, t.client),
         \A c \in Client : SameGrants(Post(l, E, c), Post(l, D, c))
  PROVE  Fair(l, E, N)
<1>1. \A u \in E.tickets : \E t \in D.tickets : u = f[t] /\ Same(u, t)
  <2>1. E.tickets \subseteq Range(f)
    BY DEF Alive
  <2> QED BY <2>1 DEF Range
<1>2. \A t \in D.tickets : f[t].listed => f[t] \in E.tickets
  BY DEF Alive, Range
<1>3. Calm(E.tickets)
  BY <1>1 DEF Calm, Same
<1>4. \A t \in D.tickets : /\ t.lockDate \in Nat /\ f[t].lockDate \in Nat
  BY DEF Sound, Context, Ticket
<1>5. now \in Nat /\ \A c \in Client : client[c].lockDate \in Nat
  BY DEF TypeInv, TypeOK, ClientState
<1>6. ASSUME NEW c \in Client, NEW date \in Nat, now < date, ~Over(l, D, c),
             \E t \in D.tickets : t.client = c /\ Holds(t, date)
      PROVE  \E u \in E.tickets : u.client = c /\ Holds(u, date)
  <2>1. PICK t \in D.tickets : t.client = c /\ Holds(t, date)
    BY <1>6
  <2>2. f[t].listed /\ t.lockDate <= f[t].lockDate
    BY <1>4, <1>5, <1>6, <2>1 DEF Lasting, Holds
  <2>3. Holds(f[t], date) /\ f[t].client = c
    BY <1>4, <1>6, <2>1, <2>2 DEF Holds, Same
  <2> QED BY <1>2, <2>2, <2>3
<1>7. ASSUME NEW c \in Client
      PROVE  /\ Honest(c, E.tickets, Post(l, E, c))
             /\ c \in N => Unheard(c, E.tickets, Post(l, E, c))
  <2> DEFINE q == Post(l, D, c)
             r == Post(l, E, c)
  <2>1. Grants(r) = Grants(q) /\ \A i \in Grants(q) : r[i] = q[i]
    BY DEF SameGrants
  <2>2. \A i \in Grants(q) : q[i].date \in Nat
    BY PostType
  <2>3. Honest(c, D.tickets, q) /\ (c \in N => Unheard(c, D.tickets, q))
    BY DEF Fair
  <2>4. Over(l, D, c) <=> ~IsLocked(c) /\ Grants(q) = {}
    BY DEF Over
  <2> HIDE DEF q, r
  <2>5. \A i \in Grants(r) : r[i].date > now => \E t \in E.tickets : t.client = c /\ Holds(t, r[i].date)
    <3> SUFFICES ASSUME NEW i \in Grants(r), r[i].date > now
                 PROVE  \E t \in E.tickets : t.client = c /\ Holds(t, r[i].date)
      OBVIOUS
    <3>1. i \in Grants(q) /\ r[i] = q[i] /\ q[i].date \in Nat /\ now < q[i].date
      BY <1>5, <2>1, <2>2
    <3>2. \E t \in D.tickets : t.client = c /\ Holds(t, q[i].date)
      BY <1>5, <2>3, <3>1 DEF Honest
    <3> QED BY <1>6, <2>4, <3>1, <3>2
  <2>6. IsLocked(c) => \E t \in E.tickets : t.client = c /\ Holds(t, client[c].lockDate)
    <3>1. IsLocked(c) => now < client[c].lockDate
      BY <1>5 DEF IsLocked
    <3> QED BY <1>5, <1>6, <2>3, <2>4, <3>1 DEF Honest
  <2>7. \A t, u \in E.tickets : t.client = c /\ u.client = c => t = u
    BY <1>1, <2>3 DEF Honest, Same
  <2>8. Had(c) \/ Grants(r) # {} => \A t \in E.tickets : t.client = c => t.locked
    BY <1>1, <2>1, <2>3 DEF Honest, Same
  <2>9. Honest(c, E.tickets, r)
    BY <2>1, <2>3, <2>5, <2>6, <2>7, <2>8 DEF Honest
  <2>10. c \in N => Unheard(c, E.tickets, r)
    BY <1>1, <2>1, <2>3 DEF Unheard, Same
  <2> QED BY <2>9, <2>10 DEF r
<1> QED
  BY <1>3, <1>7 DEF Fair

\* The same, of one ticket.
LEMMA UpdateFair ==
  ASSUME TypeInv, NEW l \in Leader, NEW N, NEW D, Sound(l, D), Fair(l, D, N),
         NEW t \in D.tickets, NEW u \in Ticket, Same(u, t),
         Lasting(u, t) \/ Over(l, D, t.client)
  PROVE  Fair(l, Update(D, t, u), N)
<1> DEFINE f == [v \in D.tickets |-> IF v = t THEN u ELSE v]
           E == Update(D, t, u)
<1>1. D.tickets \subseteq Ticket /\ \A v \in D.tickets : v.listed => v.alive = 0
  BY DEF Sound, Context, Fair, Calm
<1>2. f \in [D.tickets -> Ticket]
  BY <1>1
<1>3. \A v \in D.tickets : /\ Same(f[v], v)
                           /\ Lasting(f[v], v) \/ Over(l, D, v.client)
  <2>1. \A v \in D.tickets : v.lockDate \in Nat
    BY <1>1 DEF Ticket
  <2> QED BY <1>1, <2>1 DEF Same, Lasting
<1>4. E.tickets = Alive(Range(f)) /\ E.mail = D.mail
  <2>1. Range(f) = (D.tickets \ {t}) \cup {u}
    BY DEF Range
  <2> HIDE DEF f
  <2> QED BY <2>1 DEF Update, Sound, Context
<1>5. \A c \in Client : SameGrants(Post(l, E, c), Post(l, D, c))
  BY <1>4, SameMail
<1> HIDE DEF f, E
<1>6. Fair(l, E, N)
  BY <1>2, <1>3, <1>4, <1>5, KeepFair
<1> QED
  BY <1>6 DEF E

\* A message that is no LOCKED.
LEMMA TellFair ==
  ASSUME TypeInv, NEW l \in Leader, NEW N, NEW D, Sound(l, D), Fair(l, D, N),
         NEW c \in Client, NEW n \in Quiet
  PROVE  Fair(l, TellClient(D, c, n), N)
<1> DEFINE E == TellClient(D, c, n)
           f == [t \in D.tickets |-> t]
<1>1. /\ D.mail \in [Client -> Seq(Notice)] /\ D.tickets \subseteq Ticket
      /\ E.tickets = D.tickets /\ E.mail = [D.mail EXCEPT ![c] = Append(@, n)]
  BY DEF TellClient, Sound, Context
<1>2. \A d \in Client : \E s \in Seq(Quiet) : E.mail[d] = D.mail[d] \o s
  <2>1. <<n>> \in Seq(Quiet) /\ <<>> \in Seq(Quiet)
    OBVIOUS
  <2>2. \A d \in Client : D.mail[d] \in Seq(Notice) /\ n \in Notice
    BY <1>1 DEF Quiet
  <2>3. E.mail[c] = D.mail[c] \o <<n>>
    BY <1>1, <2>2, AppendProperties, AppendIsConcat
  <2>4. \A d \in Client \ {c} : E.mail[d] = D.mail[d] \o <<>>
    BY <1>1, <2>2, ConcatEmptySeq
  <2> QED BY <2>1, <2>3, <2>4
<1> HIDE DEF E
<1>3. \A d \in Client : SameGrants(Post(l, E, d), Post(l, D, d))
  BY <1>2, MailAdds
<1>4. f \in [D.tickets -> Ticket] /\ E.tickets = Range(f)
  BY <1>1 DEF Range
<1>5. \A t \in D.tickets : Same(f[t], t) /\ Lasting(f[t], t)
  <2>1. \A v \in D.tickets : v.lockDate \in Nat /\ (v.listed => v.alive = 0)
    BY <1>1 DEF Ticket, Fair, Calm
  <2> QED BY <2>1 DEF Same, Lasting
<1> HIDE DEF f
<1> QED
  BY <1>3, <1>4, <1>5, KeepFair DEF E

\* The same table and mail.
LEMMA StillFair ==
  ASSUME NEW l, NEW N, NEW D, NEW E, Fair(l, D, N), E.tickets = D.tickets, E.mail = D.mail
  PROVE  Fair(l, E, N)
BY DEF Fair, Post

LEMMA SendFair ==
  ASSUME NEW l, NEW N, NEW D, Sound(l, D), Fair(l, D, N), NEW s
  PROVE  Fair(l, SendAllToLeaders(D, s), N)
BY StillFair DEF SendAllToLeaders, Sound, Context

-----------------------------------------------------------------------------
(* Timeouts and activation.                                                *)

LEMMA ComplaintsQuiet ==
  ASSUME NEW l, NEW D, Sound(l, D), NEW late \in SUBSET D.tickets, NEW c \in Client
  PROVE  \E s \in Seq(Quiet) : Complaints(D, late)[c] = D.mail[c] \o s
<1> DEFINE T == {u \in late : u.client = c}
           W == UNION {FailNotice(D.me, t) : t \in T}
           f == [t \in T |-> FailNotice(D.me, t)]
<1>1. IsFiniteSet(T)
  BY FS_Subset DEF Sound
<1>2. IsFiniteSet(Range(f))
  <2> f \in [T -> SUBSET Notice]
    BY FailNoticeType
  <2> HIDE DEF T, f
  <2> QED BY <1>1, FiniteImage
<1>3. W = UNION Range(f)
  BY DEF Range
<1>4. IsFiniteSet(W)
  <2>1. \A X \in Range(f) : IsFiniteSet(X)
    BY FailNoticeType DEF Range
  <2> HIDE DEF T, f
  <2> QED BY <1>2, <1>3, <2>1, FS_UNION
<1>5. W \subseteq Quiet
  <2>1. \A type \in {"LOCK_FAILED", "UNLOCKING", "UNLOCKED"} : Note(type) \in Quiet
    BY DEF Note, Quiet, Notice
  <2>2. \A t : FailNotice(D.me, t) \subseteq Quiet
    BY <2>1 DEF FailNotice
  <2> QED BY <2>2
<1>6. SetToSeq(W) \in Seq(Quiet)
  BY <1>4, <1>5, SetToSeqType
<1>7. Complaints(D, late)[c] = D.mail[c] \o SetToSeq(W)
  BY DEF Complaints
<1> QED
  BY <1>6, <1>7

LEMMA FailSame ==
  ASSUME NEW t \in Ticket, t.listed => t.alive = 0, NEW b \in BOOLEAN
  PROVE  /\ t.listed => Same([Fail(t) EXCEPT !.listed = b], t) /\ [Fail(t) EXCEPT !.listed = b] \in Ticket
         /\ Same([Fail(t) EXCEPT !.entering = b], t) /\ [Fail(t) EXCEPT !.entering = b] \in Ticket
<1> DEFINE u == Fail(t)
<1>1. /\ u \in Ticket /\ u.client = t.client /\ u.alive = t.alive
      /\ u.locked = t.locked /\ u.listed = t.listed
  BY FailType DEF Fail, Ticket
<1> HIDE DEF u
<1> QED
  BY <1>1 DEF Same, Ticket, u

LEMMA ExpireListedFair ==
  ASSUME TypeInv, NEW l \in Leader, NEW N, NEW D, Sound(l, D), Fair(l, D, N)
  PROVE  Fair(l, ExpireListed(D), N)
<1> DEFINE late == {t \in Listed(D) : TimedOut(t)}
           f == [t \in D.tickets |-> IF t \in late
                                     THEN [Fail(t) EXCEPT !.listed = ~TimedOut(Fail(t))] ELSE t]
           E == ExpireListed(D)
<1>1. \A t \in D.tickets : f[t] \in Ticket /\ Same(f[t], t) /\ Lasting(f[t], t)
  <2> SUFFICES ASSUME NEW t \in D.tickets PROVE f[t] \in Ticket /\ Same(f[t], t) /\ Lasting(f[t], t)
    OBVIOUS
  <2>1. t \in Ticket /\ TimedOut(Fail(t)) \in BOOLEAN /\ (t.listed => t.alive = 0)
    BY DEF Sound, Context, TimedOut, Fair, Calm
  <2>2. t.lockDate \in Nat /\ now \in Nat
    BY <2>1 DEF Ticket, TypeInv, TypeOK
  <2>3. CASE t \in late
    <3>1. f[t] = [Fail(t) EXCEPT !.listed = ~TimedOut(Fail(t))] /\ t.listed /\ TimedOut(t)
      BY <2>3 DEF Listed
    <3>2. f[t] \in Ticket /\ Same(f[t], t)
      BY <2>1, <3>1, FailSame
    <3>3. t.locked => t.lockDate <= now
      BY <2>1, <3>1 DEF TimedOut, CurrentDate
    <3> QED BY <2>2, <3>2, <3>3 DEF Lasting
  <2>4. CASE t \notin late
    BY <2>1, <2>2, <2>4 DEF Same, Lasting
  <2> QED BY <2>3, <2>4
<1>2. E.tickets = Alive(Range(f)) /\ E.mail = Complaints(D, late)
  <2>1. Range(f) = {IF t \in late THEN [Fail(t) EXCEPT !.listed = ~TimedOut(Fail(t))] ELSE t :
                      t \in D.tickets}
    BY DEF Range
  <2> HIDE DEF f
  <2> QED BY <2>1 DEF ExpireListed, Sound, Context
<1>3. late \in SUBSET D.tickets
  BY DEF Listed
<1>4. f \in [D.tickets -> Ticket]
  BY <1>1
<1> HIDE DEF f, late, E
<1>5. \A c \in Client : SameGrants(Post(l, E, c), Post(l, D, c))
  BY <1>2, <1>3, ComplaintsQuiet, MailAdds
<1> QED
  BY <1>1, <1>2, <1>4, <1>5, KeepFair DEF E

LEMMA ExpireEnteringFair ==
  ASSUME TypeInv, NEW l \in Leader, NEW N, NEW D, Sound(l, D), Fair(l, D, N)
  PROVE  Fair(l, ExpireEntering(D), N)
<1> DEFINE late == {t \in D.tickets : t.entering /\ TimedOut(t)}
           f == [t \in D.tickets |-> IF t \in late
                                     THEN [Fail(t) EXCEPT !.entering = ~TimedOut(Fail(t))] ELSE t]
           E == ExpireEntering(D)
<1>1. \A t \in D.tickets : f[t] \in Ticket /\ Same(f[t], t) /\ Lasting(f[t], t)
  <2> SUFFICES ASSUME NEW t \in D.tickets PROVE f[t] \in Ticket /\ Same(f[t], t) /\ Lasting(f[t], t)
    OBVIOUS
  <2>1. t \in Ticket /\ TimedOut(Fail(t)) \in BOOLEAN /\ (t.listed => t.alive = 0)
    BY DEF Sound, Context, TimedOut, Fair, Calm
  <2>2. t.lockDate \in Nat /\ now \in Nat
    BY <2>1 DEF Ticket, TypeInv, TypeOK
  <2>3. CASE t \in late
    <3>1. f[t] = [Fail(t) EXCEPT !.entering = ~TimedOut(Fail(t))] /\ TimedOut(t)
      BY <2>3
    <3>2. f[t] \in Ticket /\ Same(f[t], t)
      BY <2>1, <3>1, FailSame
    <3>3. t.listed /\ t.locked => t.lockDate <= now
      BY <2>1, <3>1 DEF TimedOut, CurrentDate
    <3> QED BY <2>2, <3>2, <3>3 DEF Lasting
  <2>4. CASE t \notin late
    BY <2>1, <2>2, <2>4 DEF Same, Lasting
  <2> QED BY <2>3, <2>4
<1>2. E.tickets = Alive(Range(f)) /\ E.mail = Complaints(D, late)
  <2>1. Range(f) = {IF t \in late THEN [Fail(t) EXCEPT !.entering = ~TimedOut(Fail(t))] ELSE t :
                      t \in D.tickets}
    BY DEF Range
  <2> HIDE DEF f
  <2> QED BY <2>1 DEF ExpireEntering, Sound, Context
<1>3. late \in SUBSET D.tickets
  OBVIOUS
<1>4. f \in [D.tickets -> Ticket]
  BY <1>1
<1> HIDE DEF f, late, E
<1>5. \A c \in Client : SameGrants(Post(l, E, c), Post(l, D, c))
  BY <1>2, <1>3, ComplaintsQuiet, MailAdds
<1> QED
  BY <1>1, <1>2, <1>4, <1>5, KeepFair DEF E

\* A ticket is granted once, and its client gets the LOCKED with its date.
LEMMA GrantFair ==
  ASSUME TypeInv, NEW l \in Leader, NEW N, NEW D, Sound(l, D), Fair(l, D, N),
         NEW t \in D.tickets, t.listed, ~t.locked, NEW u \in Ticket,
         u.client = t.client, u.listed, u.locked, u.alive = t.alive,
         NEW n \in Notice, n.type = "LOCKED", n.date = u.lockDate
  PROVE  LET E == Update(D, t, u)
         IN  Fair(l, E, N) /\ Fair(l, TellClient(E, t.client, n), N)
<1> DEFINE E == Update(D, t, u)
           F == TellClient(E, t.client, n)
           S == Alive((D.tickets \ {t}) \cup {u})
           a == t.client
           q == Post(l, D, a)
           r == Post(l, F, a)
<1>1. t \in Ticket /\ D.tickets \subseteq Ticket /\ a \in Client
  BY DEF Sound, Context, Ticket
<1>2. /\ D.mail \in [Client -> Seq(Notice)] /\ E.tickets = S /\ F.tickets = S
      /\ E.mail = D.mail /\ F.mail = [D.mail EXCEPT ![a] = Append(@, n)]
  BY DEF Update, TellClient, Sound, Context
<1>3. /\ \A v \in S : v = u \/ (v \in D.tickets /\ v # t)
      /\ u \in S
      /\ \A v \in D.tickets : v # t /\ v.listed => v \in S
  BY DEF Alive
<1>4. Calm(D.tickets) /\ Honest(a, D.tickets, q) /\ (a \in N => Unheard(a, D.tickets, q))
  BY <1>1 DEF Fair
<1>5. Grants(q) = {} /\ ~Had(a) /\ a \notin N /\ ~IsLocked(a)
  <2>1. \A v \in D.tickets : v.client = a => v = t
    BY <1>4 DEF Honest
  <2> QED BY <1>4, <2>1 DEF Honest, Unheard, Holds
<1>6. \A v \in S : v.client = a => v = u
  BY <1>3, <1>4 DEF Honest
<1>7. Calm(S)
  BY <1>3, <1>4 DEF Calm
<1> HIDE DEF S, q
<1>8. Honest(a, S, q)
  BY <1>5, <1>6 DEF Honest
<1>9. Honest(a, S, r)
  <2>1. r = q \o <<n>> /\ q \in Seq(Notice) /\ <<n>> \in Seq(Notice)
    <3>1. D.mail[a] \in Seq(Notice) /\ mail[a][l] \in Seq(Notice)
      BY <1>1, PostType
    <3>2. F.mail[a] = D.mail[a] \o <<n>>
      BY <1>1, <1>2, <3>1, AppendIsConcat
    <3>3. <<n>> \in Seq(Notice)
      OBVIOUS
    <3>4. mail[a][l] \o (D.mail[a] \o <<n>>) = (mail[a][l] \o D.mail[a]) \o <<n>>
      <4>1. \A x, y, z \in Seq(Notice) : x \o (y \o z) = (x \o y) \o z
        BY ConcatProperties
      <4> QED BY <3>1, <3>3, <4>1
    <3>5. q \in Seq(Notice)
      BY <1>1, PostType DEF q
    <3> QED BY <3>2, <3>3, <3>4, <3>5 DEF Post, q
  <2> HIDE DEF r
  <2>2. \A i \in Grants(r) : i = Len(q) + 1 /\ r[i] = n
    <3>1. /\ Len(r) = Len(q) + 1 /\ Len(q) \in Nat /\ DOMAIN r = 1..(Len(q) + 1) /\ DOMAIN q = 1..Len(q)
          /\ \A i \in 1..Len(q) : r[i] = q[i]
          /\ r[Len(q) + 1] = n
      BY <2>1
    <3> QED BY <1>5, <3>1 DEF Grants
  <2>3. \A i \in Grants(r) : r[i].date > now => \E v \in S : v.client = a /\ Holds(v, r[i].date)
    <3>1. u.lockDate \in Nat
      BY DEF Ticket
    <3> QED BY <1>3, <2>2, <3>1 DEF Holds
  <2> QED BY <1>5, <1>6, <2>2, <2>3 DEF Honest
<1>10. ASSUME NEW c \in Client, c # a
       PROVE  /\ Honest(c, S, Post(l, D, c)) /\ (c \in N => Unheard(c, S, Post(l, D, c)))
              /\ Post(l, E, c) = Post(l, D, c) /\ Post(l, F, c) = Post(l, D, c)
  <2>1. \A v : v \in S /\ v.client = c => v \in D.tickets /\ v.client = c
    BY <1>3, <1>10
  <2>2. \A v \in D.tickets : v.client = c /\ v.listed => v \in S
    BY <1>3, <1>10
  <2>3. Honest(c, D.tickets, Post(l, D, c)) /\ (c \in N => Unheard(c, D.tickets, Post(l, D, c)))
    BY DEF Fair
  <2>4. \A date : (\E v \in D.tickets : v.client = c /\ Holds(v, date))
                    => \E v \in S : v.client = c /\ Holds(v, date)
    BY <2>2 DEF Holds
  <2>5. Honest(c, S, Post(l, D, c)) /\ (c \in N => Unheard(c, S, Post(l, D, c)))
    BY <2>1, <2>3, <2>4 DEF Honest, Unheard
  <2>6. E.mail[c] = D.mail[c] /\ F.mail[c] = D.mail[c]
    BY <1>2, <1>10
  <2> QED BY <2>5, <2>6 DEF Post
<1>11. Post(l, E, a) = q
  BY <1>2 DEF Post, q
<1> HIDE DEF E, F, r
<1>12. Fair(l, E, N)
  BY <1>2, <1>5, <1>7, <1>8, <1>10, <1>11 DEF Fair
<1>13. Fair(l, F, N)
  BY <1>2, <1>5, <1>7, <1>9, <1>10 DEF Fair, r
<1> QED
  BY <1>12, <1>13 DEF E, F

LEMMA LockActivatedFair ==
  ASSUME TypeInv, NEW l \in Leader, NEW N, NEW D, Sound(l, D), Fair(l, D, N),
         NEW t \in D.tickets, t.listed
  PROVE  Fair(l, LockActivated(D, t), N)
<1> DEFINE date == now + Duration
           u == [t EXCEPT !.locked = TRUE, !.lockDate = date]
           n == [Note("LOCKED") EXCEPT !.date = u.lockDate]
<1>1. t \in Ticket /\ now \in Nat
  BY DEF Sound, Context, TypeInv, TypeOK
<1>2. date \in Nat
  BY <1>1, NumberAssumption
<1>3. \/ LockActivated(D, t) = D
      \/ ~t.locked /\ LockActivated(D, t) \in {Update(D, t, u), TellClient(Update(D, t, u), t.client, n)}
  BY DEF LockActivated
<1> HIDE DEF date
<1>4. /\ u \in Ticket /\ u.client = t.client /\ u.listed /\ u.locked /\ u.alive = t.alive
      /\ u.lockDate = date
  BY <1>1, <1>2 DEF Ticket
<1>5. n \in Notice /\ n.type = "LOCKED" /\ n.date = u.lockDate
  BY <1>2, <1>4 DEF Note, Notice
<1> HIDE DEF u, n
<1>6. ~t.locked => Fair(l, Update(D, t, u), N) /\ Fair(l, TellClient(Update(D, t, u), t.client, n), N)
  BY <1>4, <1>5, GrantFair
<1> QED
  BY <1>3, <1>6

LEMMA ActivateFirstLockFair ==
  ASSUME Cardinality(Leader) = 1, TypeInv, NEW l \in Leader, NEW N, NEW D, Sound(l, D), Fair(l, D, N)
  PROVE  Fair(l, ActivateFirstLock(D), N)
<1> DEFINE E == ExpireListed(D)
           t == First(Listed(E))
<1>1. Sound(l, E) /\ Fair(l, E, N)
  BY ExpireListedSound, ExpireListedFair
<1>2. ActivateFirstLock(D) \in {E} \/ (Listed(E) # {} /\ ActivateFirstLock(D) = LockActivated(E, t))
  BY <1>1, SoundAlone DEF ActivateFirstLock, ActivateLock
<1> HIDE DEF E
<1>3. Listed(E) # {} => t \in E.tickets /\ t.listed
  BY <1>1, FirstListed
<1> HIDE DEF t
<1> QED
  BY <1>1, <1>2, <1>3, LockActivatedFair

LEMMA CleanupFair ==
  ASSUME Cardinality(Leader) = 1, TypeInv, NEW l \in Leader, NEW N, NEW D, Sound(l, D), Fair(l, D, N)
  PROVE  Fair(l, Cleanup(D), N)
<1> DEFINE E == ExpireListed(D)
           erased == \E t \in Listed(D) : TimedOut(t) /\ TimedOut(Fail(t))
           F == IF erased THEN ActivateFirstLock(E) ELSE E
<1>1. Sound(l, E) /\ Fair(l, E, N) /\ now \in Nat
  BY ExpireListedSound, ExpireListedFair DEF TypeInv, TypeOK
<1>2. Cleanup(D) = ExpireEntering(F)
  BY DEF Cleanup
<1> HIDE DEF E, erased
<1>3. Sound(l, F) /\ Fair(l, F, N)
  BY <1>1, ActivateFirstLockSound, ActivateFirstLockFair
<1> HIDE DEF F
<1> QED
  BY <1>2, <1>3, ExpireEnteringFair

-----------------------------------------------------------------------------
(* The way through the bakery, in one handler.                             *)

\* Two tickets that differ in nothing that a client hears of.
Twin(u, t) ==
  u.client = t.client /\ u.locked = t.locked /\ u.listed = t.listed /\ u.alive = t.alive
    /\ u.lockDate = t.lockDate

LEMMA TwinSame ==
  ASSUME NEW t \in Ticket, NEW u, Twin(u, t), t.listed => t.alive = 0
  PROVE  Same(u, t) /\ Lasting(u, t)
<1>1. t.lockDate \in Nat
  BY DEF Ticket
<1> QED
  BY <1>1 DEF Twin, Same, Lasting

LEMMA TwinFair ==
  ASSUME TypeInv, NEW l \in Leader, NEW N, NEW D, Sound(l, D), Fair(l, D, N),
         NEW t \in D.tickets, NEW u \in Ticket, Twin(u, t)
  PROVE  Fair(l, Update(D, t, u), N)
<1>1. t \in Ticket /\ (t.listed => t.alive = 0)
  BY DEF Sound, Context, Fair, Calm
<1> QED
  BY <1>1, TwinSame, UpdateFair

LEMMA RemoveEnteringTwin ==
  ASSUME NEW t \in Ticket, NEW c
  PROVE  Twin(RemoveEntering(t, c), t)
BY DEF RemoveEntering, Twin, Ticket

LEMMA LockExitingFair ==
  ASSUME Cardinality(Leader) = 1, TypeInv, NEW l \in Leader, NEW N, NEW D, Sound(l, D), Fair(l, D, N),
         NEW c
  PROVE  Fair(l, LockExiting(D, c), N)
<1>0. now \in Nat
  BY DEF TypeInv, TypeOK
<1>1. CASE EnteringOf(D, c) = {}
  BY <1>1, CleanupFair DEF LockExiting
<1>2. CASE EnteringOf(D, c) # {}
  <2> DEFINE t == One(EnteringOf(D, c))
             u == [t EXCEPT !.entering = FALSE]
             E == Update(D, t, u)
             freed == {v \in Listed(E) : Freed(v, c) /\ RemoveEntering(v, c).ready}
             f == [v \in E.tickets |-> IF v.listed THEN RemoveEntering(v, c) ELSE v]
             F == [E EXCEPT !.tickets = Range(f)]
             s == SetToSeq({Msg("TICKET_READY", KeyOf(v)) : v \in freed})
             G == SendAllToLeaders(F, s)
  <2>1. t \in D.tickets /\ t \in Ticket
    BY <1>2 DEF One, EnteringOf, Sound, Context
  <2>2. u \in Ticket /\ Twin(u, t) /\ KeyOf(u) = KeyOf(t)
    BY <2>1 DEF Ticket, Twin, KeyOf
  <2>3. LockExiting(D, c) = Cleanup(IF Listed(G) = {} THEN G ELSE ActivateFirstLock(G))
    <3>1. Range(f) = {IF v.listed THEN RemoveEntering(v, c) ELSE v : v \in E.tickets}
      BY DEF Range
    <3> QED BY <1>2, <3>1, Zenon DEF LockExiting
  <2> HIDE DEF t, u
  <2>4. Sound(l, E) /\ Fair(l, E, N)
    BY <2>1, <2>2, UpdateSound, TwinFair DEF Twin
  <2>5. E.tickets \in SUBSET Ticket /\ IsFiniteSet(E.tickets) /\ KeysDiffer(E.tickets)
    BY <2>4 DEF Sound, Context
  <2> HIDE DEF E
  <2>6. s \in Seq(Message)
    <3> DEFINE g == [v \in freed |-> Msg("TICKET_READY", KeyOf(v))]
    <3>1. IsFiniteSet(freed) /\ freed \subseteq E.tickets
      BY <2>5, FS_Subset DEF Listed
    <3>2. g \in [freed -> Message]
      BY <2>5, <3>1, MsgType, KeyTypes
    <3>3. {Msg("TICKET_READY", KeyOf(v)) : v \in freed} = Range(g)
      BY DEF Range
    <3> HIDE DEF g, freed
    <3>4. IsFiniteSet(Range(g)) /\ Range(g) \subseteq Message
      BY <3>1, <3>2, FiniteImage
    <3> QED BY <3>3, <3>4, SetToSeqType
  <2> HIDE DEF s, freed
  <2>7. /\ f \in [E.tickets -> Ticket]
        /\ \A v \in E.tickets : KeyOf(f[v]) = KeyOf(v) /\ (f[v].listed => v.listed)
    BY <2>5, RemoveEnteringType
  <2>8. \A v \in E.tickets : Same(f[v], v) /\ Lasting(f[v], v)
    <3>1. \A v \in E.tickets : Twin(f[v], v)
      BY <2>5, RemoveEnteringTwin DEF Twin
    <3>2. \A v \in E.tickets : v \in Ticket /\ (v.listed => v.alive = 0)
      BY <2>4, <2>5 DEF Fair, Calm
    <3> HIDE DEF f
    <3> QED BY <3>1, <3>2, TwinSame
  <2> HIDE DEF f
  <2>9. Range(f) \subseteq Ticket /\ IsFiniteSet(Range(f)) /\ KeysDiffer(Range(f))
    BY <2>5, <2>7, ImageTable
  <2>10. Sound(l, F) /\ F.tickets = Range(f) /\ F.mail = E.mail
    BY <2>4, <2>9, TableSound DEF Sound, Context
  <2>11. \A d \in Client : SameGrants(Post(l, F, d), Post(l, E, d))
    BY <2>10, SameMail
  <2> HIDE DEF F
  <2>12. Fair(l, F, N)
    BY <2>4, <2>7, <2>8, <2>10, <2>11, KeepFair
  <2>13. Sound(l, G) /\ Fair(l, G, N)
    BY <2>6, <2>10, <2>12, SendAllSound, SendFair
  <2> HIDE DEF G
  <2> DEFINE H == IF Listed(G) = {} THEN G ELSE ActivateFirstLock(G)
  <2>14. Sound(l, H) /\ Fair(l, H, N)
    BY <1>0, <2>13, ActivateFirstLockSound, ActivateFirstLockFair
  <2> HIDE DEF H
  <2> QED BY <2>3, <2>14, CleanupFair DEF H
<1> QED
  BY <1>1, <1>2

LEMMA TicketAddedFair ==
  ASSUME Cardinality(Leader) = 1, TypeInv, NEW l \in Leader, NEW N, NEW D, Sound(l, D), Fair(l, D, N),
         NEW t \in D.tickets, ~t.quorum
  PROVE  Fair(l, TicketAdded(D, t), N)
<1> DEFINE still == {[client |-> u.client, until |-> CurrentDate(u)] :
                       u \in {v \in D.tickets : v.entering}}
           u == [t EXCEPT !.quorum = TRUE, !.still = still]
           E == Update(D, t, u)
           m == Msg("LOCK_EXITING", EnteringKey(t.client))
           F == SendToLeaders(E, m)
<1>1. D.tickets \subseteq Ticket /\ t \in Ticket
  BY DEF Sound, Context
<1>2. still \subseteq Pending
  <2>1. \A v \in Ticket : v.client \in Client /\ CurrentDate(v) \in Nat
    BY DEF CurrentDate, Ticket
  <2> QED BY <1>1, <2>1 DEF Pending
<1>3. TicketAdded(D, t) = LockExiting(F, t.client)
  BY DEF TicketAdded
<1> HIDE DEF still
<1>4. u \in Ticket /\ KeyOf(u) = KeyOf(t) /\ Twin(u, t)
  BY <1>1, <1>2 DEF Ticket, KeyOf, Twin
<1> HIDE DEF u
<1>5. Sound(l, E) /\ Fair(l, E, N)
  BY <1>4, UpdateSound, TwinFair DEF Twin
<1>6. m \in Message
  BY <1>1, KeyTypes, MsgType
<1> HIDE DEF E, m
<1>7. Sound(l, F) /\ Fair(l, F, N)
  BY <1>5, <1>6, SendSound, SendFair DEF SendToLeaders
<1> HIDE DEF F
<1> QED
  BY <1>3, <1>7, LockExitingFair

\* The ticket has a key that no other ticket of the client can have: there is none.
LEMMA MaxTicketFair ==
  ASSUME Cardinality(Leader) = 1, TypeInv, NEW l \in Leader, NEW N, NEW D, Sound(l, D), Fair(l, D, N),
         NEW t \in D.tickets, ~t.locked, ~t.added, ~t.quorum, t.alive = 0, ~Overflows(t, t.number)
  PROVE  Fair(l, MaxTicket(D, t, t.number), N)
<1> DEFINE n == NextNumber(t, t.number)
           u == Numbered(t, n)
           others == {v \in D.tickets \ {t} : v.listed /\ KeyOf(v) = KeyOf(u)}
           F == SetTicket(D, t, u)
           m == [Msg("ADD_TICKET", KeyOf(u)) EXCEPT !.value = t.obtention]
           E == SendToLeaders(F, m)
           f == [v \in D.tickets |-> IF v = t THEN u ELSE v]
<1>1. MaxTicket(D, t, t.number) = TicketAdded(E, u)
  BY SoundAlone DEF MaxTicket
<1>2. D.tickets \subseteq Ticket /\ t \in Ticket
  BY DEF Sound, Context
<1>3. n \in Number
  <2>1. t.number \in Nat /\ n = t.number + 1
    BY <1>2, NumberAssumption DEF Ticket, Number, NextNumber
  <2> QED BY <2>1, NumberAssumption DEF Overflows, Number
<1> HIDE DEF n
<1>4. /\ u \in Ticket /\ u.listed /\ u.locked = t.locked /\ ~u.quorum /\ u.client = t.client
      /\ u.alive = 0 /\ u.obtention = t.obtention /\ KeyOf(u).client = t.client
  BY <1>2, <1>3 DEF Ticket, Numbered, KeyOf
<1> HIDE DEF u
<1>5. others = {}
  <2>1. t.client \in Client
    BY <1>2 DEF Ticket
  <2>2. \A v \in D.tickets : v.client = t.client => v = t
    BY <2>1 DEF Fair, Honest
  <2>3. \A v : KeyOf(v).client = v.client
    BY DEF KeyOf
  <2> QED BY <1>4, <2>2, <2>3
<1>6. F.tickets = Alive(Range(f)) /\ F.mail = D.mail
  <2>1. F.tickets = Alive((D.tickets \ (others \cup {t}))
                            \cup {[v EXCEPT !.listed = FALSE] : v \in others} \cup {u})
        /\ F.mail = D.mail
    BY DEF SetTicket, Sound, Context
  <2>2. Range(f) = (D.tickets \ {t}) \cup {u}
    BY DEF Range
  <2> HIDE DEF others, f
  <2>3. (D.tickets \ (others \cup {t})) \cup {[v EXCEPT !.listed = FALSE] : v \in others} \cup {u}
          = (D.tickets \ {t}) \cup {u}
    BY <1>5
  <2> QED BY <2>1, <2>2, <2>3
<1>7. f \in [D.tickets -> Ticket] /\ \A v \in D.tickets : Same(f[v], v) /\ Lasting(f[v], v)
  <2>1. \A v \in D.tickets : v.lockDate \in Nat /\ (v.listed => v.alive = 0)
    BY <1>2 DEF Ticket, Fair, Calm
  <2> QED BY <1>2, <1>4, <2>1 DEF Same, Lasting
<1>8. m \in Message
  <2>1. t.obtention \in Nat
    BY <1>2 DEF Ticket
  <2>2. KeyOf(u) \in Key
    BY <1>4, KeyTypes
  <2> QED BY <2>1, <2>2, MsgType
<1>9. Sound(l, F) /\ u \in F.tickets
  BY <1>4, SetTicketSound
<1>10. \A c \in Client : SameGrants(Post(l, F, c), Post(l, D, c))
  BY <1>6, SameMail
<1> HIDE DEF F, m, f
<1>11. Fair(l, F, N)
  BY <1>6, <1>7, <1>10, KeepFair
<1>12. Sound(l, E) /\ u \in E.tickets /\ Fair(l, E, N)
  BY <1>8, <1>9, <1>11, SendSound, SendFair DEF SendToLeaders
<1> HIDE DEF E
<1> QED
  BY <1>1, <1>4, <1>12, TicketAddedFair

LEMMA EnterFair ==
  ASSUME Cardinality(Leader) = 1, TypeInv, NEW l \in Leader, NEW N, NEW D, Sound(l, D), Fair(l, D, N),
         NEW t \in D.tickets, t.entering, Untouched(t), t.alive = 0, ~EnterOverflows(D, t)
  PROVE  Fair(l, Enter(D, t), N)
<1> DEFINE m == [Msg("LOCK_ENTERING", EnteringKey(t.client)) EXCEPT !.value = t.obtention]
           E == SendToLeaders(D, m)
           u == [t EXCEPT !.maxAsked = TRUE, !.number = LastTicket(E)]
           F == Update(E, t, u)
           k == Msg("GET_MAX_TICKET", EnteringKey(t.client))
           G == SendToLeaders(F, k)
<1>1. Enter(D, t) = MaxTicket(G, u, u.number)
  <2>1. Sound(l, E)
    <3>1. m \in Message
      <4>1. t \in Ticket /\ t.obtention \in Nat
        BY DEF Sound, Context, Ticket
      <4> QED BY <4>1, KeyTypes, MsgType
    <3> HIDE DEF m
    <3> QED BY <3>1, SendSound
  <2>2. Enter(D, t) = Entered(E, t)
    BY SoundAlone DEF Enter
  <2> HIDE DEF E
  <2> QED BY <2>1, <2>2, SoundAlone DEF Entered, Untouched
<1>2. t \in Ticket /\ EnteringKey(t.client) \in Key /\ t.obtention \in Nat
  <2>1. t \in Ticket
    BY DEF Sound, Context
  <2> QED BY <2>1, KeyTypes DEF Ticket
<1>3. m \in Message /\ k \in Message
  BY <1>2, MsgType
<1> HIDE DEF m, k
<1>4. Sound(l, E) /\ E.tickets = D.tickets /\ Fair(l, E, N)
  BY <1>3, SendSound, SendFair DEF SendToLeaders
<1>5. LastTicket(E) = LastTicket(D) /\ LastTicket(D) \in Number
  <2>1. LastTicket(E) = LastTicket(D)
    BY <1>4 DEF LastTicket, Listed
  <2>2. D.tickets \subseteq Ticket
    BY DEF Sound, Context
  <2> QED BY <2>1, <2>2, LastTicketType
<1> HIDE DEF E
<1>6. /\ u \in Ticket /\ Twin(u, t) /\ ~u.listed /\ u.entering /\ ~u.locked /\ ~u.added /\ ~u.quorum
      /\ u.alive = 0 /\ u.number = LastTicket(D)
  BY <1>2, <1>5 DEF Ticket, Twin, Untouched
<1> HIDE DEF u
<1>7. Sound(l, F) /\ u \in F.tickets /\ Fair(l, F, N)
  BY <1>4, <1>6, UpdateSound, TwinFair
<1> HIDE DEF F
<1>8. Sound(l, G) /\ u \in G.tickets /\ Fair(l, G, N)
  BY <1>3, <1>7, SendSound, SendFair DEF SendToLeaders
<1> HIDE DEF G
<1>9. ~Overflows(u, u.number)
  <2>1. NextNumber(u, u.number) = LastTicket(D) + 1
    BY <1>6 DEF NextNumber
  <2> QED BY <2>1, SoundAlone DEF Overflows, EnterOverflows, Untouched
<1> QED
  BY <1>1, <1>6, <1>8, <1>9, MaxTicketFair

-----------------------------------------------------------------------------
(* The handlers.                                                           *)

LEMMA OnlyLeader ==
  ASSUME Cardinality(Leader) = 1, NEW l \in Leader
  PROVE  \A d \in Leader : d = l
BY LeaderAssumption, FS_Singleton

\* All that is read comes from a client, and tells about itself.
LEMMA ReceivedFromClient ==
  ASSUME Cardinality(Leader) = 1, LoneInv, NEW s \in Node, NEW l \in Leader, NEW type,
         Arrived(s, l, type)
  PROVE  /\ s \in Client /\ Received(s, l).key.client = s /\ Sent(s, type) /\ net[s][l] # <<>>
         /\ Head(net[s][l]).type = type
<1>1. s # l
  BY ReceivedType DEF LoneInv
<1>2. s \in Client
  BY <1>1, OnlyLeader DEF Node
<1>3. net[s][l] \in Seq(Message) /\ net[s][l] # <<>>
  BY DEF Arrived, LoneInv, TypeInv, TypeOK
<1>4. Head(net[s][l]) \in Range(net[s][l])
  BY <1>3, HeadTailProperties, EmptySeq, LenProperties DEF Range
<1> QED
  BY <1>2, <1>3, <1>4 DEF LoneInv, Sane, Received, Arrived, Sent

\* A message of a client that is read is one less to say; with its LOCK the client has begun.
LEMMA ReadSane ==
  ASSUME Cardinality(Leader) = 1, LoneInv, NEW s \in Client, NEW l \in Leader, net[s][l] # <<>>,
         net'[s][l] = Tail(net[s][l]),
         \A c \in Client \ {s} : net'[c][l] = net[c][l],
         UNCHANGED client
  PROVE  /\ \A c \in Client : Sane(c)'
         /\ NotYet' \subseteq NotYet
         /\ Head(net[s][l]).type = "LOCK" => s \notin NotYet'
<1> DEFINE q == net[s][l]
<1>1. q \in Seq(Message)
  BY DEF LoneInv, TypeInv, TypeOK, Node
<1>2. /\ 1 \in DOMAIN q /\ Head(q) = q[1]
      /\ \A i \in DOMAIN Tail(q) : i \in Nat \ {0} /\ i + 1 \in DOMAIN q /\ Tail(q)[i] = q[i + 1]
      /\ Range(Tail(q)) \subseteq Range(q)
  BY <1>1, TailElements
<1>3. Leader = {l}
  BY OnlyLeader
<1>4. \A c \in Client : Range(net'[c][l]) \subseteq Range(net[c][l])
  BY <1>2
<1>5. \A c \in Client : \A type : Sent(c, type)' => Sent(c, type)
  BY <1>3, <1>4 DEF Sent
<1>6. NotYet' \subseteq NotYet
  BY <1>5 DEF NotYet
<1>7. \A c \in Client : Sane(c)
  BY DEF LoneInv
<1>8. \A c \in Client : OneLock(net'[c][l])
  <2>1. OneLock(q) /\ \A c \in Client \ {s} : OneLock(net[c][l])
    BY <1>7 DEF Sane
  <2>2. OneLock(Tail(q))
    <3>1. \A i, j \in DOMAIN Tail(q) : i + 1 = j + 1 => i = j
      BY <1>2
    <3> HIDE DEF q
    <3> QED BY <1>2, <2>1, <3>1 DEF OneLock
  <2> QED BY <2>1, <2>2
<1>9. ASSUME NEW c \in Client PROVE Sane(c)'
  <2>1. Sane(c)
    BY <1>7
  <2>2. \A x \in Leader : OneLock(net'[c][x]) /\ \A m \in Range(net'[c][x]) : m.key.client = c
    BY <1>3, <1>4, <1>8, <2>1 DEF Sane
  <2>3. c \in NotYet' => ~Had(c)'
    BY <1>6, <2>1 DEF Sane, Had
  <2>4. /\ client'[c].tries = 0 => client'[c].state = "IDLE" /\ ~Sent(c, "LOCK")'
        /\ client'[c].state \in {"LOCKED", "UNLOCKING"} \/ Sent(c, "UNLOCK")' => Had(c)'
        /\ client'[c].state = "LOCKED" => ~Sent(c, "UNLOCK")'
    BY <1>5, <2>1 DEF Sane, Had
  <2> QED BY <2>2, <2>3, <2>4 DEF Sane
<1>10. ASSUME Head(q).type = "LOCK" PROVE s \notin NotYet'
  <2>1. Head(q) \in Range(q)
    BY <1>2 DEF Range
  <2>2. Sent(s, "LOCK") /\ client[s].tries # 0
    BY <1>7, <1>10, <2>1 DEF Sent, Sane
  <2>3. OneLock(q)
    BY <1>7 DEF Sane
  <2>4. \A i \in DOMAIN Tail(q) : Tail(q)[i].type # "LOCK"
    <3> SUFFICES ASSUME NEW i \in DOMAIN Tail(q), Tail(q)[i].type = "LOCK" PROVE FALSE
      OBVIOUS
    <3>1. i + 1 \in DOMAIN q /\ q[i + 1].type = "LOCK" /\ i + 1 # 1
      BY <1>2
    <3> HIDE DEF q
    <3> QED BY <1>2, <1>10, <2>3, <3>1 DEF OneLock
  <2>5. ~Sent(s, "LOCK")'
    BY <1>3, <2>4 DEF Sent, Range
  <2> QED BY <2>2, <2>5 DEF NotYet
<1> QED
  BY <1>6, <1>9, <1>10

LEMMA DoneHonest ==
  ASSUME Cardinality(Leader) = 1, LoneInv, NEW s \in Client, NEW l \in Leader, net[s][l] # <<>>,
         NEW N, NotYet \subseteq N \/ (NotYet \ {s} \subseteq N /\ Head(net[s][l]).type = "LOCK"),
         NEW D, Sound(l, D), Fair(l, D, N), Done(s, l, D)
  PROVE  HonestTables' /\ \A c \in Client : Sane(c)'
<1>1. Leave(s, l, D)
  BY DEF Done, Return, Sound
<1>2. /\ net'[s][l] = Tail(net[s][l])
      /\ \A c \in Client \ {s} : net'[c][l] = net[c][l]
      /\ UNCHANGED <<client, now>>
  BY <1>1, DisjointAssumption DEF Leave, Node
<1>3. (\A c \in Client : Sane(c)') /\ NotYet' \subseteq N
  BY <1>2, ReadSane
<1>4. tickets'[l] = D.tickets /\ \A c \in Client : mail'[c][l] = Post(l, D, c)
  BY <1>1 DEF Leave, Delivered, Post, LoneInv, TypeInv, TypeOK
<1>5. ASSUME NEW c \in Client
      PROVE  Honest(c, tickets[l], mail[c][l])' /\ (c \in NotYet' => Unheard(c, tickets[l], mail[c][l])')
  BY <1>2, <1>3, <1>4 DEF Fair, Honest, Unheard, Had, IsLocked, Grants, Holds
<1>6. Calm(tickets[l])'
  BY <1>4 DEF Fair, Calm
<1> QED
  BY <1>3, <1>5, <1>6, OnlyLeader DEF HonestTables

LEMMA StopHonest ==
  ASSUME Cardinality(Leader) = 1, LoneInv, NEW s \in Client, NEW l \in Leader, net[s][l] # <<>>,
         Stop(s, l)
  PROVE  HonestTables' /\ \A c \in Client : Sane(c)'
<1>1. /\ net'[s][l] = Tail(net[s][l])
      /\ \A c \in Client \ {s} : net'[c][l] = net[c][l]
      /\ UNCHANGED <<now, tickets, mail, client>>
  BY DEF Stop, Node, LoneInv, TypeInv, TypeOK
<1>2. (\A c \in Client : Sane(c)') /\ NotYet' \subseteq NotYet
  BY <1>1, ReadSane
<1>3. HonestTables'
  BY <1>1, <1>2 DEF LoneInv, HonestTables, Calm, Honest, Unheard, Had, IsLocked, Grants, Holds
<1> QED
  BY <1>2, <1>3

\* What a handler starts from.
LEMMA HereFair ==
  ASSUME LoneInv, NEW l \in Leader
  PROVE  Fair(l, Here(l), NotYet) /\ Steady(Here(l).tickets)
<1>1. \A c \in Client : Post(l, Here(l), c) = mail[c][l]
  <2>1. \A c \in Client : mail[c][l] \in Seq(Notice)
    BY DEF LoneInv, TypeInv, TypeOK
  <2>2. \A c \in Client : Here(l).mail[c] = <<>>
    BY DEF Here, Start
  <2> QED BY <2>1, <2>2, ConcatEmptySeq DEF Post
<1>2. Here(l).tickets = tickets[l]
  BY HereSound DEF LoneInv
<1> QED
  BY <1>1, <1>2 DEF LoneInv, HonestTables, SteadyTables, Fair

LEMMA QuietNotes ==
  /\ Note("LOCK_FAILED") \in Quiet /\ Note("ALIVE") \in Quiet /\ Note("UNLOCKED") \in Quiet
  /\ Quiet \subseteq Notice
BY DEF Note, Quiet, Notice

\* The first and only ticket of a client.
LEMMA AddFair ==
  ASSUME LoneInv, NEW l \in Leader, NEW D, Sound(l, D), Fair(l, D, NotYet), NEW c \in NotYet,
         NEW t \in Ticket, t.client = c, ~t.listed
  PROVE  Fair(l, [D EXCEPT !.tickets = @ \cup {t}], NotYet \ {c})
<1> DEFINE E == [D EXCEPT !.tickets = @ \cup {t}]
<1>1. E.tickets = D.tickets \cup {t} /\ E.mail = D.mail /\ c \in Client
  BY DEF Sound, Context, NotYet
<1>2. \A d : Post(l, E, d) = Post(l, D, d)
  BY <1>1 DEF Post
<1>3. Calm(E.tickets)
  BY <1>1 DEF Fair, Calm
<1> HIDE DEF E
<1>4. ~Had(c)
  BY <1>1 DEF LoneInv, Sane
<1>5. Honest(c, E.tickets, Post(l, E, c))
  <2>1. Honest(c, D.tickets, Post(l, D, c)) /\ Unheard(c, D.tickets, Post(l, D, c))
    BY <1>1 DEF Fair
  <2> QED BY <1>1, <1>2, <1>4, <2>1 DEF Honest, Unheard
<1>6. ASSUME NEW d \in Client, d # c
      PROVE  /\ Honest(d, E.tickets, Post(l, E, d))
             /\ d \in NotYet => Unheard(d, E.tickets, Post(l, E, d))
  <2>1. /\ Honest(d, D.tickets, Post(l, D, d))
        /\ d \in NotYet => Unheard(d, D.tickets, Post(l, D, d))
    BY DEF Fair
  <2> QED BY <1>1, <1>2, <1>6, <2>1 DEF Honest, Unheard
<1>7. Fair(l, E, NotYet \ {c})
  BY <1>3, <1>5, <1>6 DEF Fair
<1> QED
  BY <1>7 DEF E

LEMMA MsgLockHonest ==
  ASSUME Cardinality(Leader) = 1, LoneInv, NEW s \in Node, NEW l \in Leader, MsgLock(s, l)
  PROVE  HonestTables' /\ \A c \in Client : Sane(c)'
<1> DEFINE m == Received(s, l)
           c == m.key.client
           D == Cleanup(Here(l))
           t == NewTicket(c, l, m.value)
           limit == IF now + AliveTimeout < m.value THEN now + AliveTimeout ELSE m.value
           waiting == [t EXCEPT !.alive = limit]
           E == [D EXCEPT !.tickets = @ \cup {waiting}]
           F == [D EXCEPT !.tickets = @ \cup {t}]
           N == NotYet \ {c}
<1>0. TypeInv
  BY DEF LoneInv
<1>1. /\ c \in Client /\ m.value \in Nat /\ c = s /\ c \in NotYet /\ net[s][l] # <<>>
      /\ Head(net[s][l]).type = "LOCK"
  <2>1. Arrived(s, l, "LOCK")
    BY DEF MsgLock
  <2> QED BY <1>0, <2>1, ReceivedType, ReceivedFromClient DEF NotYet
<1>2. Sound(l, D) /\ Fair(l, D, NotYet) /\ now \in Nat
  BY <1>0, HereSound, HereFair, CleanupSound, CleanupFair
<1>3. limit \in Nat
  BY <1>1, <1>2, NumberAssumption
<1>4. \/ Done(s, l, TellClient(D, c, Note("LOCK_FAILED")))
      \/ Done(s, l, D)
      \/ Done(s, l, Cleanup(TellClient(E, c, Note("ALIVE"))))
      \/ ~EnterOverflows(D, t) /\ Done(s, l, Cleanup(Enter(F, t)))
      \/ Stop(s, l)
  <2>1. PICK X \in Locking(D, m, CheckAlive) : Done(s, l, X)
    BY DEF MsgLock
  <2>2. D.me = l
    BY <1>2 DEF Sound
  <2>3. \/ X = TellClient(D, c, Note("LOCK_FAILED"))
        \/ X = D
        \/ X = Cleanup(TellClient(E, c, Note("ALIVE")))
        \/ ~EnterOverflows(D, t) /\ X = Cleanup(Enter(F, t))
        \/ X = Halt(D)
    BY <2>1, <2>2, Zenon DEF Locking
  <2>4. Halt(D).stopped
    BY <1>2 DEF Halt, Sound, Context
  <2>5. X = Halt(D) => Stop(s, l)
    BY <2>1, <2>4 DEF Done
  <2> HIDE DEF m, c, D, t, limit, waiting, E, F
  <2> QED BY <2>1, <2>3, <2>5
<1> HIDE DEF m, c, limit
<1>5. /\ t \in Ticket /\ ~t.listed /\ t.entering /\ t.client = c /\ Untouched(t) /\ t.alive = 0
  BY <1>1, NewTicketType DEF NewTicket, Untouched
<1> HIDE DEF D, t
<1>6. waiting \in Ticket /\ ~waiting.listed /\ waiting.entering /\ waiting.client = c
  BY <1>3, <1>5 DEF Ticket
<1> HIDE DEF waiting
<1>7. LET X == TellClient(D, c, Note("LOCK_FAILED")) IN Sound(l, X) /\ Fair(l, X, NotYet)
  BY <1>0, <1>1, <1>2, QuietNotes, TellFair, TellClientSound
<1>8. LET X == Cleanup(TellClient(E, c, Note("ALIVE"))) IN Sound(l, X) /\ Fair(l, X, N)
  <2>1. Sound(l, E) /\ Fair(l, E, N)
    BY <1>1, <1>2, <1>6, AddSound, AddFair
  <2> HIDE DEF E
  <2> DEFINE G == TellClient(E, c, Note("ALIVE"))
  <2>2. Sound(l, G) /\ Fair(l, G, N)
    BY <1>0, <1>1, <2>1, QuietNotes, TellFair, TellClientSound
  <2> HIDE DEF G
  <2>3. Sound(l, Cleanup(G)) /\ Fair(l, Cleanup(G), N)
    BY <1>0, <1>2, <2>2, CleanupSound, CleanupFair
  <2> QED BY <2>3 DEF G
<1>9. ASSUME ~EnterOverflows(D, t)
      PROVE  Sound(l, Cleanup(Enter(F, t))) /\ Fair(l, Cleanup(Enter(F, t)), N)
  <2>1. /\ Sound(l, F) /\ t \in F.tickets /\ ~EnterOverflows(F, t) /\ Fair(l, F, N)
    BY <1>1, <1>2, <1>5, <1>9, AddSound, AddFair
  <2> HIDE DEF F
  <2>2. Sound(l, Enter(F, t)) /\ Fair(l, Enter(F, t), N)
    BY <1>0, <1>2, <1>5, <2>1, EnterSound, EnterFair
  <2> QED BY <1>0, <1>2, <2>2, CleanupSound, CleanupFair
<1> HIDE DEF E, F
<1>10. NotYet \ {s} \subseteq N
  BY <1>1
<1> HIDE DEF N
<1> QED
  BY <1>1, <1>2, <1>4, <1>7, <1>8, <1>9, <1>10, DoneHonest, StopHonest

LEMMA MsgAbsolutelyHonest ==
  ASSUME Cardinality(Leader) = 1, LoneInv, NEW s \in Node, NEW l \in Leader, MsgAbsolutely(s, l)
  PROVE  HonestTables' /\ \A c \in Client : Sane(c)'
<1> DEFINE c == Received(s, l).key.client
           D == Here(l)
           t == One(EnteringOf(D, c))
           u == [t EXCEPT !.alive = 0]
           old == [client |-> c, until |-> CurrentDate(t)]
           seen(v) == [v EXCEPT !.still =
                         {IF p = old THEN [p EXCEPT !.until = CurrentDate(u)] ELSE p : p \in @}]
           S == (D.tickets \ {t}) \cup {u}
           f == [v \in S |-> seen(v)]
           g == [v \in D.tickets |-> IF v = t THEN seen(u) ELSE seen(v)]
           E == [D EXCEPT !.tickets = Range(f)]
<1>0. TypeInv
  BY DEF LoneInv
<1>1. /\ Sound(l, D) /\ now \in Nat /\ D.tickets \subseteq Ticket
      /\ Steady(D.tickets) /\ Fair(l, D, NotYet)
  BY <1>0, HereSound, HereFair DEF Sound, Context
<1>2. s \in Client /\ net[s][l] # <<>>
  BY ReceivedFromClient DEF MsgAbsolutely
<1>3. \/ Done(s, l, D)
      \/ /\ EnteringOf(D, c) # {} /\ ~EnterOverflows(E, u)
         /\ Done(s, l, Enter(E, seen(u)))
      \/ Stop(s, l)
  <2>1. Range(f) = {seen(v) : v \in (D.tickets \ {t}) \cup {u}}
    BY DEF Range
  <2> QED BY <2>1, Zenon DEF MsgAbsolutely
<1>4. ASSUME EnteringOf(D, c) # {}, ~EnterOverflows(E, u)
      PROVE  Sound(l, Enter(E, seen(u))) /\ Fair(l, Enter(E, seen(u)), NotYet)
  <2>1. t \in D.tickets /\ t.entering /\ t \in Ticket /\ Untouched(t)
    BY <1>1, <1>4 DEF One, EnteringOf, Steady, Fresh
  <2> HIDE DEF t, D
  <2>2. /\ u \in Ticket /\ KeyOf(u) = KeyOf(t) /\ u.listed = t.listed /\ u.entering /\ Untouched(u)
        /\ u.alive = 0 /\ ~t.listed /\ u.client = t.client /\ u.locked = t.locked
    BY <2>1 DEF Ticket, KeyOf, Untouched
  <2>3. CurrentDate(u) \in Nat
    BY <2>2 DEF CurrentDate, Ticket
  <2> HIDE DEF u, old
  <2>4. S \subseteq Ticket /\ IsFiniteSet(S) /\ KeysDiffer(S) /\ u \in S
    BY <1>1, <2>1, <2>2, FS_AddElement, FS_RemoveElement DEF Sound, KeysDiffer
  <2>5. \A v \in Ticket : /\ seen(v) \in Ticket /\ KeyOf(seen(v)) = KeyOf(v)
                          /\ seen(v).entering = v.entering /\ Twin(seen(v), v)
                          /\ (Untouched(v) => Untouched(seen(v)))
                          /\ seen(v).maxAsked = v.maxAsked /\ seen(v).added = v.added
    <3> SUFFICES ASSUME NEW v \in Ticket
                 PROVE  /\ seen(v) \in Ticket /\ KeyOf(seen(v)) = KeyOf(v)
                        /\ seen(v).entering = v.entering /\ Twin(seen(v), v)
                        /\ (Untouched(v) => Untouched(seen(v)))
                        /\ seen(v).maxAsked = v.maxAsked /\ seen(v).added = v.added
      OBVIOUS
    <3> DEFINE still == {IF p = old THEN [p EXCEPT !.until = CurrentDate(u)] ELSE p : p \in v.still}
    <3>1. still \subseteq Pending
      BY <2>3 DEF Ticket, Pending
    <3>2. seen(v) = [v EXCEPT !.still = still]
      BY Zenon
    <3> HIDE DEF still
    <3> QED BY <3>1, <3>2 DEF Ticket, KeyOf, Twin, Untouched
  <2> HIDE DEF seen
  <2>6. /\ f \in [S -> Ticket]
        /\ \A v \in S : KeyOf(f[v]) = KeyOf(v) /\ (f[v].listed => v.listed)
    <3> HIDE DEF S
    <3> QED BY <2>4, <2>5 DEF Twin
  <2>7. seen(u) \in Range(f)
    BY <2>4 DEF Range
  <2>8. Range(f) = Range(g)
    BY <2>1 DEF Range
  <2>9. g \in [D.tickets -> Ticket]
    BY <1>1, <2>2, <2>5
  <2>10. \A v \in D.tickets : Same(g[v], v) /\ Lasting(g[v], v)
    <3> SUFFICES ASSUME NEW v \in D.tickets PROVE Same(g[v], v) /\ Lasting(g[v], v)
      OBVIOUS
    <3>1. v \in Ticket /\ (v.listed => v.alive = 0)
      BY <1>1 DEF Fair, Calm
    <3>2. CASE v = t
      <4>1. g[v] = seen(u) /\ Twin(seen(u), u)
        BY <2>2, <2>5, <3>2
      <4> HIDE DEF g
      <4> QED BY <2>2, <3>2, <4>1 DEF Twin, Same, Lasting
    <3>3. CASE v # t
      <4>1. g[v] = seen(v) /\ Twin(seen(v), v)
        BY <2>5, <3>1, <3>3
      <4> QED BY <3>1, <4>1, TwinSame
    <3> QED BY <3>2, <3>3
  <2> HIDE DEF f, g, S
  <2>11. Range(f) \subseteq Ticket /\ IsFiniteSet(Range(f)) /\ KeysDiffer(Range(f))
    BY <2>4, <2>6, ImageTable
  <2>12. Sound(l, E) /\ E.tickets = Range(f) /\ E.mail = D.mail
    BY <1>1, <2>11, TableSound DEF Sound, Context
  <2>13. \A d \in Client : SameGrants(Post(l, E, d), Post(l, D, d))
    BY <2>12, SameMail
  <2>14. ~EnterOverflows(E, seen(u))
    BY <1>4, <2>2, <2>5 DEF EnterOverflows
  <2> HIDE DEF E
  <2>15. Fair(l, E, NotYet)
    BY <1>0, <1>1, <2>8, <2>9, <2>10, <2>12, <2>13, KeepFair
  <2>16. seen(u) \in E.tickets /\ seen(u).entering /\ Untouched(seen(u)) /\ seen(u).alive = 0
    BY <2>2, <2>5, <2>7, <2>12 DEF Twin
  <2> QED BY <1>0, <1>1, <2>12, <2>14, <2>15, <2>16, EnterSound, EnterFair
<1> HIDE DEF E, u, t, seen
<1> QED
  BY <1>1, <1>2, <1>3, <1>4, DoneHonest, StopHonest

\* Whoever unlocks has heard its LOCKED, and does not believe in it any more.
LEMMA MsgUnlockHonest ==
  ASSUME Cardinality(Leader) = 1, LoneInv, NEW s \in Node, NEW l \in Leader, MsgUnlock(s, l)
  PROVE  HonestTables' /\ \A c \in Client : Sane(c)'
<1> DEFINE c == Received(s, l).key.client
           D == Here(l)
           t == First(ListedOf(D, c))
           gone == [t EXCEPT !.listed = FALSE, !.failed = IF @ = "NONE" THEN "UNLOCKING" ELSE @]
           G == DropTicket(D, t)
           E == Update(G, t, gone)
           F == IF ListedOf(D, c) = {} THEN D ELSE ActivateFirstLock(E)
<1>0. TypeInv
  BY DEF LoneInv
<1>1. Sound(l, D) /\ now \in Nat /\ Fair(l, D, NotYet)
  BY <1>0, HereSound, HereFair
<1>2. s \in Client /\ c = s /\ Sent(s, "UNLOCK") /\ net[s][l] # <<>>
  BY ReceivedFromClient DEF MsgUnlock
<1>3. Had(c) /\ ~IsLocked(c)
  BY <1>2 DEF LoneInv, Sane, IsLocked
<1>4. Done(s, l, Cleanup(F))
  BY DEF MsgUnlock
<1>5. ASSUME ListedOf(D, c) # {} PROVE Sound(l, E) /\ Fair(l, E, NotYet)
  <2>1. /\ ListedOf(D, c) \in SUBSET Ticket /\ ListedOf(D, c) \subseteq D.tickets
        /\ \A v, w \in ListedOf(D, c) : KeyOf(v) = KeyOf(w) => v = w
        /\ \A v \in ListedOf(D, c) : v.listed /\ v.client = c
    BY <1>1 DEF ListedOf, Sound, Context, KeysDiffer
  <2>2. t \in D.tickets /\ t \in Ticket /\ t.listed /\ t.client = c
    BY <1>5, <2>1, FirstExists
  <2> HIDE DEF t
  <2>3. gone \in Ticket /\ ~gone.listed /\ Same(gone, t)
    BY <2>2 DEF Ticket, Same
  <2>4. Sound(l, G) /\ G.tickets = D.tickets
    BY <1>1, <2>2, DropTicketSound
  <2>5. Fair(l, G, NotYet)
    <3> DEFINE m == Msg("DROP_TICKET", KeyOf(t))
               H == SendToLeaders(D, m)
    <3>1. m \in Message
      BY <2>2, KeyTypes, MsgType
    <3>2. G \in {H, TellClient(H, t.client, Note("UNLOCKED"))}
      BY DEF DropTicket
    <3> HIDE DEF m, G
    <3>3. Sound(l, H) /\ Fair(l, H, NotYet)
      BY <1>1, <3>1, SendSound, SendFair DEF SendToLeaders
    <3> HIDE DEF H
    <3> QED BY <1>0, <1>2, <2>2, <3>2, <3>3, QuietNotes, TellFair
  <2> HIDE DEF gone, G
  <2>6. Over(l, G, t.client)
    BY <1>2, <1>3, <2>2, <2>5 DEF Over, Fair, Honest
  <2> QED BY <1>0, <2>2, <2>3, <2>4, <2>5, <2>6, UpdateSound, UpdateFair
<1> HIDE DEF E, D
<1>6. Sound(l, F) /\ Fair(l, F, NotYet)
  BY <1>0, <1>1, <1>5, ActivateFirstLockSound, ActivateFirstLockFair
<1> HIDE DEF F
<1>7. Sound(l, Cleanup(F)) /\ Fair(l, Cleanup(F), NotYet)
  BY <1>0, <1>1, <1>6, CleanupSound, CleanupFair
<1> QED
  BY <1>2, <1>4, <1>7, DoneHonest

LEMMA HandleHonest ==
  ASSUME Cardinality(Leader) = 1, LoneInv, NEW s \in Node, NEW l \in Leader, Handle(s, l)
  PROVE  HonestTables' /\ \A c \in Client : Sane(c)'
<1>1. ASSUME NEW type, type \notin {"LOCK", "ABSOLUTELY", "UNLOCK"}, Arrived(s, l, type)
      PROVE  FALSE
  BY <1>1, ReceivedType, OthersExist DEF LoneInv
<1>2. MsgLock(s, l) \/ MsgAbsolutely(s, l) \/ MsgUnlock(s, l)
  BY <1>1 DEF Handle, MsgLockEntering, MsgLockEntered, MsgGetMaxTicket, MsgMaxTicket,
              MsgAddTicket, MsgTicketAdded, MsgLockExiting, MsgTicketReady, MsgActivateLock,
              MsgLockActivated, MsgDropTicket, MsgLockFailed
<1> QED
  BY <1>2, MsgLockHonest, MsgAbsolutelyHonest, MsgUnlockHonest

LEMMA TimerHonest ==
  ASSUME Cardinality(Leader) = 1, LoneInv, NEW l \in Leader, Timer(l)
  PROVE  HonestTables' /\ \A c \in Client : Sane(c)'
<1> DEFINE D == Cleanup(Here(l))
<1>0. TypeInv
  BY DEF LoneInv
<1>1. Sound(l, D) /\ Fair(l, D, NotYet)
  BY <1>0, HereSound, HereFair, CleanupSound, CleanupFair
<1>2. /\ tickets' = [tickets EXCEPT ![l] = D.tickets]
      /\ net' = [net EXCEPT ![l] = [d \in Leader |-> @[d] \o D.out[d]]]
      /\ mail' = Delivered(l, D)
      /\ UNCHANGED <<now, running, client, view>>
  BY <1>1 DEF Timer, Sound
<1> HIDE DEF D
<1>3. tickets'[l] = D.tickets /\ \A c \in Client : mail'[c][l] = Post(l, D, c)
  BY <1>0, <1>2 DEF Delivered, Post, TypeInv, TypeOK
<1>4. \A c \in Client : net'[c] = net[c]
  BY <1>0, <1>2, DisjointAssumption DEF TypeInv, TypeOK, Node
<1>5. (\A c \in Client : Sane(c)') /\ NotYet' = NotYet
  <2>1. \A c \in Client : \A type : Sent(c, type)' <=> Sent(c, type)
    BY <1>4 DEF Sent
  <2>2. NotYet' = NotYet
    BY <1>2, <2>1 DEF NotYet
  <2>3. ASSUME NEW c \in Client PROVE Sane(c)'
    <3>1. Sane(c) /\ (Sent(c, "LOCK")' <=> Sent(c, "LOCK")) /\ (Sent(c, "UNLOCK")' <=> Sent(c, "UNLOCK"))
      BY <2>1 DEF LoneInv
    <3>2. client'[c] = client[c] /\ net'[c] = net[c]
      BY <1>2, <1>4
    <3> QED BY <2>2, <3>1, <3>2 DEF Sane, Had
  <2> QED BY <2>2, <2>3
<1>6. ASSUME NEW c \in Client
      PROVE  Honest(c, tickets[l], mail[c][l])' /\ (c \in NotYet' => Unheard(c, tickets[l], mail[c][l])')
  BY <1>1, <1>2, <1>3, <1>5 DEF Fair, Honest, Unheard, Had, IsLocked, Grants, Holds
<1>7. Calm(tickets[l])'
  BY <1>1, <1>3 DEF Fair, Calm
<1> QED
  BY <1>5, <1>6, <1>7, OnlyLeader DEF HonestTables

-----------------------------------------------------------------------------
(* The clients.                                                            *)

\* A client changes nothing but what is its own.
LEMMA OthersHonest ==
  ASSUME Cardinality(Leader) = 1, LoneInv, NEW c \in Client, NEW l \in Leader,
         UNCHANGED <<now, tickets>>,
         \A d \in Client \ {c} : /\ client'[d] = client[d]
                                 /\ mail'[d] = mail[d] /\ net'[d] = net[d],
         Sane(c)', Honest(c, tickets[l], mail[c][l])',
         c \in NotYet' => Unheard(c, tickets[l], mail[c][l])'
  PROVE  HonestTables' /\ \A d \in Client : Sane(d)'
<1>1. \A d \in Client \ {c} : \A type : Sent(d, type)' <=> Sent(d, type)
  BY DEF Sent
<1>2. \A d \in Client \ {c} : d \in NotYet' <=> d \in NotYet
  BY <1>1 DEF NotYet
<1>3. ASSUME NEW d \in Client, d # c PROVE Sane(d)'
  <2>1. /\ Sane(d) /\ (Sent(d, "LOCK")' <=> Sent(d, "LOCK"))
        /\ (Sent(d, "UNLOCK")' <=> Sent(d, "UNLOCK"))
    BY <1>1, <1>3 DEF LoneInv
  <2> QED BY <1>2, <1>3, <2>1 DEF Sane, Had
<1>4. ASSUME NEW d \in Client
      PROVE  Honest(d, tickets[l], mail[d][l])' /\ (d \in NotYet' => Unheard(d, tickets[l], mail[d][l])')
  <2>1. CASE d = c
    BY <2>1
  <2>2. CASE d # c
    <3>1. /\ Honest(d, tickets[l], mail[d][l])
          /\ d \in NotYet => Unheard(d, tickets[l], mail[d][l])
      BY DEF LoneInv, HonestTables
    <3> QED BY <1>2, <2>2, <3>1 DEF Honest, Unheard, Had, IsLocked, Grants, Holds
  <2> QED BY <2>1, <2>2
<1>5. Calm(tickets[l])'
  BY DEF LoneInv, HonestTables, Calm
<1> QED
  BY <1>3, <1>4, <1>5, OnlyLeader DEF HonestTables

\* What a client may hear, short of the LOCKED of a lock it takes.
LEMMA ListenHonest ==
  ASSUME LoneInv, NEW c \in Client, NEW l \in Leader, UNCHANGED <<now, tickets>>,
         \/ mail'[c][l] = mail[c][l]
         \/ mail[c][l] # <<>> /\ mail'[c][l] = Tail(mail[c][l]),
         client'[c].overDate = client[c].overDate,
         client'[c].state = "LOCKED" => /\ client[c].state = "LOCKED"
                                        /\ client'[c].lockDate = client[c].lockDate
  PROVE  /\ Honest(c, tickets[l], mail[c][l])'
         /\ c \in NotYet => Unheard(c, tickets[l], mail[c][l])'
<1> DEFINE q == mail[c][l]
           r == mail'[c][l]
           S == tickets[l]
<1>1. Honest(c, S, q) /\ (c \in NotYet => Unheard(c, S, q)) /\ q \in Seq(Notice)
  BY DEF LoneInv, HonestTables, TypeInv, TypeOK
<1>2. \E k \in {0, 1} : \A i \in Grants(r) : i \in Nat /\ i + k \in Grants(q) /\ r[i] = q[i + k]
  <2>1. CASE r = q
    <3>1. \A i \in Grants(r) : i \in Nat /\ i + 0 \in Grants(q) /\ r[i] = q[i + 0]
      BY <1>1, <2>1, LenProperties DEF Grants
    <3> QED BY <3>1
  <2>2. CASE q # <<>> /\ r = Tail(q)
    <3>1. \A i \in DOMAIN r : i \in Nat /\ i + 1 \in DOMAIN q /\ r[i] = q[i + 1]
      BY <1>1, <2>2, TailElements
    <3>2. \A i \in Grants(r) : i \in Nat /\ i + 1 \in Grants(q) /\ r[i] = q[i + 1]
      BY <3>1 DEF Grants
    <3> QED BY <3>2
  <2> QED BY <2>1, <2>2
<1>3. PICK k \in {0, 1} :
        \A i \in Grants(r) : i \in Nat /\ i + k \in Grants(q) /\ r[i] = q[i + k]
  BY <1>2
<1>4. tickets'[l] = S /\ (IsLocked(c)' => IsLocked(c) /\ client'[c].lockDate = client[c].lockDate)
      /\ (Had(c)' <=> Had(c))
  BY DEF IsLocked, Had
<1> HIDE DEF q, r, S
<1>5. \A i, j \in Grants(r) : i = j
  BY <1>1, <1>3 DEF Honest
<1>6. Grants(q) = {} => Grants(r) = {}
  BY <1>3
<1>7. \A i \in Grants(r) : r[i].date > now => \E t \in S : t.client = c /\ Holds(t, r[i].date)
  BY <1>1, <1>3 DEF Honest
<1>8. IsLocked(c)' => \E t \in S : t.client = c /\ Holds(t, client'[c].lockDate)
  BY <1>1, <1>4 DEF Honest
<1>9. Had(c)' \/ Grants(r) # {} => \A t \in S : t.client = c => t.locked
  BY <1>1, <1>4, <1>6 DEF Honest
<1>10. (\A t, u \in S : t.client = c /\ u.client = c => t = u) /\ (Had(c)' => Grants(r) = {})
  BY <1>1, <1>4, <1>6 DEF Honest
<1>11. c \in NotYet => Unheard(c, tickets[l], mail[c][l])'
  BY <1>1, <1>4, <1>6 DEF Unheard, r, S, Grants
<1>12. Honest(c, tickets[l], mail[c][l])'
  BY <1>4, <1>5, <1>7, <1>8, <1>9, <1>10 DEF Honest, r, S, Grants, Holds
<1> QED
  BY <1>11, <1>12

LEMMA SendFacts ==
  ASSUME LoneInv, NEW c \in Client, NEW x \in Leader, NEW m \in Request, m.key.client = c,
         Send(c, x, m), m.type = "LOCK" => ~Sent(c, "LOCK")
  PROVE  /\ \A d \in Client \ {c} : net'[d] = net[d]
         /\ \A type : Sent(c, type)' <=> Sent(c, type) \/ m.type = type
         /\ \A l \in Leader : OneLock(net'[c][l]) /\ \A n \in Range(net'[c][l]) : n.key.client = c
<1>1. net \in [Node -> [Leader -> Seq(Message)]] /\ Client \subseteq Node /\ m \in Message
  BY DEF LoneInv, TypeInv, TypeOK, Node, Request
<1>2. /\ \A d \in Client \ {c} : net'[d] = net[d]
      /\ \A l \in Leader \ {x} : net'[c][l] = net[c][l]
      /\ net'[c][x] = Append(net[c][x], m)
  BY <1>1 DEF Send
<1> DEFINE q == net[c][x]
           r == net'[c][x]
<1>3. q \in Seq(Message) /\ r = Append(q, m)
  BY <1>1, <1>2
<1>4. /\ DOMAIN q = 1..Len(q) /\ DOMAIN r = 1..(Len(q) + 1) /\ Len(q) \in Nat
      /\ r[Len(q) + 1] = m /\ \A i \in 1..Len(q) : r[i] = q[i]
  BY <1>1, <1>3, AppendProperties, LenProperties
<1>5. Sane(c)
  BY DEF LoneInv
<1> HIDE DEF q, r
<1>6. \A n : n \in Range(r) <=> n \in Range(q) \/ n = m
  <2>1. \A n \in Range(r) : n \in Range(q) \/ n = m
    BY <1>4 DEF Range
  <2>2. \A n \in Range(q) : n \in Range(r)
    BY <1>4 DEF Range
  <2>3. m \in Range(r)
    BY <1>4 DEF Range
  <2> QED BY <2>1, <2>2, <2>3
<1>7. \A type : Sent(c, type)' <=> Sent(c, type) \/ m.type = type
  BY <1>2, <1>6 DEF Sent, q, r
<1>8. OneLock(r)
  <2>1. OneLock(q) /\ (m.type = "LOCK" => \A i \in DOMAIN q : q[i].type # "LOCK")
    BY <1>5 DEF Sane, Sent, Range, q
  <2> QED BY <1>4, <2>1 DEF OneLock
<1>9. \A l \in Leader : OneLock(net'[c][l]) /\ \A n \in Range(net'[c][l]) : n.key.client = c
  BY <1>2, <1>5, <1>6, <1>8 DEF Sane, q, r
<1> QED
  BY <1>2, <1>7, <1>9

\* The client sends nothing.
LEMMA SilentFacts ==
  ASSUME LoneInv, NEW c \in Client, UNCHANGED net
  PROVE  /\ \A type : Sent(c, type)' <=> Sent(c, type)
         /\ \A l \in Leader : OneLock(net'[c][l]) /\ \A n \in Range(net'[c][l]) : n.key.client = c
BY DEF LoneInv, Sane, Sent

\* lock(), the only one of the client.
LEMMA LockHonest ==
  ASSUME Cardinality(Leader) = 1, MaxTries <= 1, LoneInv, NEW c \in Client, NEW l \in Leader, Lock(c, l)
  PROVE  HonestTables' /\ \A d \in Client : Sane(d)'
<1> DEFINE m == [Msg("LOCK", EnteringKey(c)) EXCEPT !.value = now + Obtention]
<1>1. client[c] \in ClientState /\ client \in [Client -> ClientState] /\ now \in Nat
  BY DEF LoneInv, TypeInv, TypeOK
<1>2. m \in Request /\ m.key.client = c /\ m.type = "LOCK"
  <2>1. now + Obtention \in Nat
    BY <1>1, BakeryAssumption
  <2> QED BY <2>1, RequestType DEF Msg, EnteringKey
<1>3. /\ Send(c, l, m) /\ client[c].tries = 0
      /\ UNCHANGED <<now, tickets, mail>>
  BY <1>1, BakeryAssumption DEF Lock, ClientState
<1> HIDE DEF m
<1>4. Sane(c) /\ ~Sent(c, "LOCK") /\ c \in NotYet /\ ~Had(c)
  BY <1>3 DEF LoneInv, Sane, NotYet
<1>5. /\ \A d \in Client \ {c} : net'[d] = net[d]
      /\ \A type : Sent(c, type)' <=> Sent(c, type) \/ m.type = type
      /\ \A y \in Leader : OneLock(net'[c][y]) /\ \A n \in Range(net'[c][y]) : n.key.client = c
  BY <1>2, <1>3, <1>4, SendFacts
<1>6. /\ \A d \in Client \ {c} : client'[d] = client[d]
      /\ client'[c].state = "LOCKING" /\ client'[c].tries = 1
      /\ client'[c].overDate = client[c].overDate
  BY <1>1, <1>3 DEF Lock, ClientState
<1>7. Sane(c)'
  <2>1. ~Sent(c, "UNLOCK") /\ ~Sent(c, "UNLOCK")'
    BY <1>2, <1>4, <1>5 DEF Sane
  <2>2. ~Had(c)'
    BY <1>4, <1>6 DEF Had
  <2> QED BY <1>5, <1>6, <2>1, <2>2 DEF Sane
<1>8. /\ Honest(c, tickets[l], mail[c][l])'
      /\ Unheard(c, tickets[l], mail[c][l])'
  BY <1>3, <1>4, <1>6, ListenHonest
<1> QED
  BY <1>3, <1>5, <1>6, <1>7, <1>8, OthersHonest

\* unlock() of a lock the client had.
LEMMA SendUnlockHonest ==
  ASSUME Cardinality(Leader) = 1, LoneInv, NEW c \in Client, NEW l \in Leader, NEW x \in Leader,
         SendUnlock(c, x), Had(c), UNCHANGED <<now, tickets>>,
         \A d \in Client \ {c} : mail'[d] = mail[d],
         \/ mail'[c][l] = mail[c][l]
         \/ mail[c][l] # <<>> /\ mail'[c][l] = Tail(mail[c][l])
  PROVE  HonestTables' /\ \A d \in Client : Sane(d)'
<1> DEFINE m == Msg("UNLOCK", EnteringKey(c))
<1>1. client[c] \in ClientState /\ client \in [Client -> ClientState]
  BY DEF LoneInv, TypeInv, TypeOK
<1>2. m \in Request /\ m.key.client = c /\ m.type = "UNLOCK"
  BY RequestType DEF Msg, EnteringKey
<1>3. Send(c, x, m)
  BY DEF SendUnlock
<1> HIDE DEF m
<1>4. /\ \A d \in Client \ {c} : net'[d] = net[d]
      /\ \A type : Sent(c, type)' <=> Sent(c, type) \/ m.type = type
      /\ \A y \in Leader : OneLock(net'[c][y]) /\ \A n \in Range(net'[c][y]) : n.key.client = c
  BY <1>2, <1>3, SendFacts
<1>5. /\ \A d \in Client \ {c} : client'[d] = client[d]
      /\ client'[c].state = "UNLOCKING" /\ client'[c].tries = client[c].tries
      /\ client'[c].overDate = client[c].overDate /\ client[c].state # "IDLE"
  BY <1>1 DEF SendUnlock, ClientState
<1>6. c \notin NotYet /\ client[c].tries # 0
  BY <1>5 DEF LoneInv, Sane
<1>7. c \notin NotYet'
  BY <1>2, <1>4, <1>5, <1>6 DEF NotYet
<1>8. Sane(c)'
  BY <1>4, <1>5, <1>6, <1>7 DEF Sane, Had
<1>9. Honest(c, tickets[l], mail[c][l])'
  BY <1>5, ListenHonest
<1> QED
  BY <1>4, <1>5, <1>7, <1>8, <1>9, OthersHonest

\* The client has its lock no more, or goes on as before.
LEMMA RestHonest ==
  ASSUME Cardinality(Leader) = 1, LoneInv, NEW c \in Client, NEW l \in Leader,
         Become(c, "IDLE", 0) \/ UNCHANGED client,
         UNCHANGED <<now, tickets, net>>,
         \A d \in Client \ {c} : mail'[d] = mail[d],
         \/ mail'[c][l] = mail[c][l]
         \/ mail[c][l] # <<>> /\ mail'[c][l] = Tail(mail[c][l])
  PROVE  HonestTables' /\ \A d \in Client : Sane(d)'
<1>1. client[c] \in ClientState /\ client \in [Client -> ClientState]
  BY DEF LoneInv, TypeInv, TypeOK
<1>2. /\ \A d \in Client \ {c} : client'[d] = client[d]
      /\ client'[c].state \in {"IDLE", client[c].state}
      /\ client'[c].tries = client[c].tries
      /\ client'[c].lockDate = client[c].lockDate
      /\ client'[c].overDate = client[c].overDate
  BY <1>1 DEF Become, ClientState
<1>3. /\ \A type : Sent(c, type)' <=> Sent(c, type)
      /\ \A y \in Leader : OneLock(net'[c][y]) /\ \A n \in Range(net'[c][y]) : n.key.client = c
  BY SilentFacts
<1>4. c \in NotYet' <=> c \in NotYet
  BY <1>2, <1>3 DEF NotYet
<1>5. Sane(c)'
  BY <1>2, <1>3, <1>4 DEF LoneInv, Sane, Had
<1>6. /\ Honest(c, tickets[l], mail[c][l])'
      /\ c \in NotYet => Unheard(c, tickets[l], mail[c][l])'
  BY <1>2, ListenHonest
<1> QED
  BY <1>2, <1>4, <1>5, <1>6, OthersHonest

LEMMA HearMail ==
  ASSUME TypeInv, NEW c \in Client, NEW l \in Leader, NEW type, Hears(c, l, type)
  PROVE  /\ \A d \in Client \ {c} : mail'[d] = mail[d]
         /\ mail[c][l] # <<>> /\ mail'[c][l] = Tail(mail[c][l])
         /\ UNCHANGED <<now, tickets>>
         /\ 1 \in DOMAIN mail[c][l] /\ mail[c][l][1].type = type
         /\ Head(mail[c][l]) = mail[c][l][1]
<1>1. mail \in [Client -> [Leader -> Seq(Notice)]]
  BY DEF TypeInv, TypeOK
<1>2. mail[c][l] # <<>> /\ Head(mail[c][l]).type = type
  BY DEF Hears
<1>3. 1 \in DOMAIN mail[c][l] /\ Head(mail[c][l]) = mail[c][l][1]
  BY <1>1, <1>2, TailElements
<1> QED
  BY <1>1, <1>2, <1>3 DEF Hears

\* The answer to an ALIVE.
LEMMA HearAliveHonest ==
  ASSUME Cardinality(Leader) = 1, LoneInv, NEW c \in Client, NEW l \in Leader, HearAlive(c, l)
  PROVE  HonestTables' /\ \A d \in Client : Sane(d)'
<1> DEFINE m == Msg("ABSOLUTELY", EnteringKey(c))
<1>1. m \in Request /\ m.key.client = c /\ m.type = "ABSOLUTELY"
  BY RequestType DEF Msg, EnteringKey
<1>2. Send(c, l, m) /\ UNCHANGED client /\ Hears(c, l, "ALIVE")
  BY DEF HearAlive
<1> HIDE DEF m
<1>3. /\ \A d \in Client \ {c} : mail'[d] = mail[d]
      /\ mail[c][l] # <<>> /\ mail'[c][l] = Tail(mail[c][l])
      /\ UNCHANGED <<now, tickets>>
  BY <1>2, HearMail DEF LoneInv
<1>4. /\ \A d \in Client \ {c} : net'[d] = net[d]
      /\ \A type : Sent(c, type)' <=> Sent(c, type) \/ m.type = type
      /\ \A y \in Leader : OneLock(net'[c][y]) /\ \A n \in Range(net'[c][y]) : n.key.client = c
  BY <1>1, <1>2, SendFacts
<1>5. c \in NotYet' <=> c \in NotYet
  BY <1>1, <1>2, <1>4 DEF NotYet
<1>6. Sane(c)'
  BY <1>1, <1>2, <1>4, <1>5 DEF LoneInv, Sane, Had
<1>7. /\ Honest(c, tickets[l], mail[c][l])'
      /\ c \in NotYet => Unheard(c, tickets[l], mail[c][l])'
  BY <1>2, <1>3, ListenHonest
<1> QED
  BY <1>2, <1>3, <1>4, <1>5, <1>6, <1>7, OthersHonest

\* The one LOCKED of a client.
LEMMA HearLockedHonest ==
  ASSUME Cardinality(Leader) = 1, LoneInv, NEW c \in Client, NEW l \in Leader, HearLocked(c, l)
  PROVE  HonestTables' /\ \A d \in Client : Sane(d)'
<1> DEFINE q == mail[c][l]
           r == mail'[c][l]
           date == Head(q).date
           S == tickets[l]
<1>1. client[c] \in ClientState /\ client \in [Client -> ClientState] /\ q \in Seq(Notice)
  BY DEF LoneInv, TypeInv, TypeOK
<1>2. /\ \A d \in Client \ {c} : mail'[d] = mail[d]
      /\ q # <<>> /\ r = Tail(q)
      /\ UNCHANGED <<now, tickets>> /\ 1 \in Grants(q) /\ Head(q) = q[1]
  <2>1. Hears(c, l, "LOCKED")
    BY DEF HearLocked
  <2> QED BY <2>1, HearMail DEF LoneInv, Grants
<1>3. date \in Nat
  <2>1. q[1] \in Notice
    BY <1>1, <1>2, ElementOfSeq, LenProperties DEF Grants
  <2> HIDE DEF q
  <2> QED BY <1>2, <2>1 DEF Notice
<1>4. /\ \A d \in Client \ {c} : client'[d] = client[d]
      /\ client'[c].state = "LOCKED" /\ client'[c].tries = client[c].tries
      /\ client'[c].lockDate = date /\ client'[c].overDate = date + UnlockDuration
      /\ client[c].state # "IDLE" /\ UNCHANGED net
  BY <1>1 DEF HearLocked, ClientState
<1>5. Had(c)'
  BY <1>3, <1>4, NumberAssumption DEF Had
<1>6. Honest(c, S, q) /\ (c \in NotYet => Unheard(c, S, q)) /\ Sane(c)
  BY DEF LoneInv, HonestTables
<1>7. ~Had(c) /\ c \notin NotYet
  BY <1>2, <1>6 DEF Honest, Unheard
<1>8. /\ \A type : Sent(c, type)' <=> Sent(c, type)
      /\ \A y \in Leader : OneLock(net'[c][y]) /\ \A n \in Range(net'[c][y]) : n.key.client = c
  BY <1>4, SilentFacts
<1>9. c \notin NotYet'
  BY <1>4, <1>7, <1>8 DEF NotYet
<1>10. Sane(c)'
  BY <1>4, <1>5, <1>6, <1>7, <1>8, <1>9 DEF Sane
<1>11. Grants(r) = {}
  <2>1. \A i \in DOMAIN r : i \in Nat \ {0} /\ i + 1 \in DOMAIN q /\ r[i] = q[i + 1]
    BY <1>1, <1>2, TailElements
  <2>2. \A i \in Grants(q) : i = 1
    BY <1>2, <1>6 DEF Honest
  <2> HIDE DEF q, r
  <2> QED BY <2>1, <2>2 DEF Grants
<1>12. date > now => \E t \in S : t.client = c /\ Holds(t, date)
  BY <1>2, <1>6 DEF Honest
<1>13. \A t \in S : t.client = c => t.locked
  BY <1>2, <1>6 DEF Honest
<1>14. (IsLocked(c)' => date > now) /\ tickets'[l] = S
  BY <1>2, <1>4 DEF IsLocked
<1> HIDE DEF S, date, q, r
<1>15. Honest(c, tickets[l], mail[c][l])'
  BY <1>4, <1>6, <1>11, <1>12, <1>13, <1>14 DEF Honest, r, Grants, Holds
<1> QED
  BY <1>2, <1>4, <1>9, <1>10, <1>15, OthersHonest DEF r, q

LEMMA HearHonest ==
  ASSUME Cardinality(Leader) = 1, LoneInv, NEW c \in Client, NEW l \in Leader, Hear(c, l)
  PROVE  HonestTables' /\ \A d \in Client : Sane(d)'
<1>0. TypeInv
  BY DEF LoneInv
<1>1. CASE Deaf(c, l)
  <2>1. UNCHANGED <<net, client>> /\ \E type : Hears(c, l, type)
    BY <1>1 DEF Deaf
  <2> QED BY <1>0, <2>1, HearMail, RestHonest
<1>2. CASE HearLockFailed(c, l) \/ HearUnlocked(c, l)
  <2>1. Become(c, "IDLE", 0) /\ UNCHANGED net /\ \E type : Hears(c, l, type)
    BY <1>2 DEF HearLockFailed, HearUnlocked
  <2> QED BY <1>0, <2>1, HearMail, RestHonest
<1>3. CASE HearUnlocking(c, l)
  <2>1. Hears(c, l, "UNLOCKING")
    BY <1>3 DEF HearUnlocking
  <2>2. CASE (Become(c, "IDLE", 0) \/ UNCHANGED client) /\ UNCHANGED net
    BY <1>0, <2>1, <2>2, HearMail, RestHonest
  <2>3. ASSUME now < client[c].overDate, NEW x \in Leader, SendUnlock(c, x)
        PROVE  HonestTables' /\ \A d \in Client : Sane(d)'
    <3>1. Had(c)
      BY <1>0, <2>3 DEF Had, TypeInv, TypeOK
    <3> QED BY <1>0, <2>1, <2>3, <3>1, HearMail, SendUnlockHonest
  <2> QED BY <1>3, <2>2, <2>3 DEF HearUnlocking
<1> QED
  BY <1>1, <1>2, <1>3, HearAliveHonest, HearLockedHonest DEF Hear

LEMMA UnlockHonest ==
  ASSUME Cardinality(Leader) = 1, ~Cancels, LoneInv, NEW c \in Client,
         ClientTimeout(c) \/ \E x \in Leader : Unlock(c, x)
  PROVE  HonestTables' /\ \A d \in Client : Sane(d)'
<1>1. UNCHANGED <<now, tickets, mail>>
  BY DEF ClientTimeout, Unlock
<1>2. PICK l : l \in Leader
  BY LeaderAssumption
<1>3. ASSUME NEW x \in Leader, SendUnlock(c, x), client[c].state = "LOCKED"
      PROVE  HonestTables' /\ \A d \in Client : Sane(d)'
  <2>1. Had(c)
    BY <1>3 DEF LoneInv, Sane
  <2> QED BY <1>1, <1>2, <1>3, <2>1, SendUnlockHonest
<1>4. CASE Become(c, "IDLE", 0) /\ UNCHANGED net
  BY <1>1, <1>2, <1>4, RestHonest
<1> QED
  BY <1>3, <1>4 DEF ClientTimeout, Unlock

\* What lasted long enough a moment later does so now.
LEMMA TickHonest ==
  ASSUME LoneInv, Tick
  PROVE  HonestTables' /\ \A d \in Client : Sane(d)'
<1>1. /\ now \in Nat /\ now' = now + 1 /\ UNCHANGED <<tickets, net, mail, client>>
  BY DEF LoneInv, TypeInv, TypeOK, Tick
<1>2. \A c \in Client : client[c].lockDate \in Nat
  BY DEF LoneInv, TypeInv, TypeOK, ClientState
<1>3. \A c \in Client : \A type : Sent(c, type)' <=> Sent(c, type)
  BY <1>1 DEF Sent
<1>4. \A c \in Client : c \in NotYet' <=> c \in NotYet
  BY <1>1, <1>3 DEF NotYet
<1>5. ASSUME NEW c \in Client PROVE Sane(c)'
  <2>1. /\ Sane(c) /\ (Sent(c, "LOCK")' <=> Sent(c, "LOCK"))
        /\ (Sent(c, "UNLOCK")' <=> Sent(c, "UNLOCK"))
    BY <1>3 DEF LoneInv
  <2> QED BY <1>1, <1>4, <2>1 DEF Sane, Had
<1>6. ASSUME NEW l \in Leader, NEW c \in Client
      PROVE  Honest(c, tickets[l], mail[c][l])' /\ (c \in NotYet' => Unheard(c, tickets[l], mail[c][l])')
  <2>1. /\ Honest(c, tickets[l], mail[c][l])
        /\ c \in NotYet => Unheard(c, tickets[l], mail[c][l])
    BY DEF LoneInv, HonestTables
  <2>2. \A i \in Grants(mail[c][l]) : mail[c][l][i].date \in Nat
    <3>1. mail[c][l] \in Seq(Notice)
      BY DEF LoneInv, TypeInv, TypeOK
    <3>2. \A i \in DOMAIN mail[c][l] : mail[c][l][i] \in Notice
      BY <3>1, ElementOfSeq, LenProperties
    <3> QED BY <3>2 DEF Grants, Notice
  <2>3. /\ IsLocked(c)' => IsLocked(c)
        /\ \A i \in Grants(mail[c][l]) : mail[c][l][i].date > now' => mail[c][l][i].date > now
    BY <1>1, <1>2, <2>2 DEF IsLocked
  <2>4. /\ tickets'[l] = tickets[l] /\ mail'[c][l] = mail[c][l] /\ client'[c] = client[c]
        /\ (Had(c)' <=> Had(c))
    BY <1>1 DEF Had
  <2> QED BY <1>4, <2>1, <2>3, <2>4 DEF Honest, Unheard, Grants, Holds
<1>7. \A l \in Leader : Calm(tickets[l])'
  BY <1>1 DEF LoneInv, HonestTables, Calm
<1> QED
  BY <1>5, <1>6, <1>7 DEF HonestTables

LEMMA StutterHonest ==
  ASSUME LoneInv, UNCHANGED vars
  PROVE  HonestTables' /\ \A d \in Client : Sane(d)'
<1>1. UNCHANGED <<now, tickets, net, mail, client>>
  BY DEF vars
<1> QED
  BY <1>1 DEF LoneInv, HonestTables, Calm, Honest, Unheard, Had, IsLocked, Grants, Holds, Sane,
              NotYet, Sent, OneLock

LEMMA NextLone ==
  ASSUME Cardinality(Leader) = 1, MaxTries <= 1, ~Cancels, LoneInv, [Next]_vars
  PROVE  LoneInv'
<1>1. TypeInv' /\ SteadyTables'
  BY NextTypes, NextSteady DEF LoneInv
<1>2. HonestTables' /\ \A c \in Client : Sane(c)'
  BY HandleHonest, TimerHonest, LockHonest, UnlockHonest, HearHonest, TickHonest, StutterHonest
     DEF Next
<1> QED
  BY <1>1, <1>2 DEF LoneInv

LEMMA InitLone == Init => LoneInv
<1> SUFFICES ASSUME Init PROVE LoneInv
  OBVIOUS
<1>1. TypeInv /\ SteadyTables
  <2>1. SteadyTables
    BY DEF Init, SteadyTables, Steady, Orderly, Fresh, NumberShown, LockedFirst, EntersOnce
  <2> QED BY <2>1, InitTypes
<1>2. \A c \in Client, l \in Leader : net[c][l] = <<>> /\ mail[c][l] = <<>>
  BY DEF Init, Node
<1>3. \A l \in Leader : tickets[l] = {}
  BY DEF Init
<1>4. \A c \in Client : /\ client[c].state = "IDLE" /\ client[c].overDate = 0
  BY DEF Init
<1>5. Grants(<<>>) = {} /\ Range(<<>>) = {} /\ OneLock(<<>>)
  BY DEF Grants, Range, OneLock
<1>6. \A c \in Client : ~Had(c) /\ ~IsLocked(c) /\ \A type : ~Sent(c, type)
  BY <1>2, <1>4, <1>5 DEF Had, IsLocked, Sent
<1>7. \A c \in Client : Sane(c)
  BY <1>2, <1>4, <1>5, <1>6 DEF Sane
<1>8. HonestTables
  BY <1>2, <1>3, <1>5, <1>6 DEF HonestTables, Calm, Honest, Unheard
<1> QED
  BY <1>1, <1>7, <1>8 DEF LoneInv

LEMMA LoneExcludes == ASSUME Cardinality(Leader) = 1, LoneInv PROVE MutualExclusion
<1>1. PICK l : l \in Leader
  BY LeaderAssumption
<1> SUFFICES ASSUME NEW c \in Client, NEW d \in Client, IsLocked(c), IsLocked(d) PROVE c = d
  BY DEF MutualExclusion
<1>2. PICK t \in tickets[l] : t.client = c /\ Holds(t, client[c].lockDate)
  BY <1>1 DEF LoneInv, HonestTables, Honest
<1>3. PICK u \in tickets[l] : u.client = d /\ Holds(u, client[d].lockDate)
  BY <1>1 DEF LoneInv, HonestTables, Honest
<1>4. t = u
  BY <1>1, <1>2, <1>3, SteadyGrant DEF LoneInv, OneGrant, Holds
<1> QED
  BY <1>2, <1>3, <1>4

\* With a single leader two processes never believe at the same time that they have the lock
\* ("by a single process running in a computer cluster of any size", cluck/cluck.cpp), for
\* every number of clients, for every timeout and whenever their messages arrive: the ticket of
\* whoever has heard LOCKED, or will, is locked in f_tickets and lasts as long as the date it
\* was told, until its UNLOCK.  Each process locks once and waits for the answer.
THEOREM LoneLeaderExcludes ==
  ASSUME Cardinality(Leader) = 1, MaxTries <= 1, ~Cancels
  PROVE  Spec => []MutualExclusion
<1>1. LoneInv /\ [Next]_vars => LoneInv'
  BY NextLone
<1>2. LoneInv => MutualExclusion
  BY LoneExcludes
<1> QED
  BY InitLone, <1>1, <1>2, PTL DEF Spec

-----------------------------------------------------------------------------
(* The lock of CluckLock.                                                  *)

\* Only who waits is told LOCKED.
LEMMA LoneHears ==
  ASSUME LoneInv, NEW c \in Client, NEW l \in Leader, HearLocked(c, l)
  PROVE  client[c].state = "LOCKING"
<1>1. client[c] \in ClientState
  BY DEF LoneInv, TypeInv, TypeOK
<1>2. Hears(c, l, "LOCKED") /\ client[c].state # "IDLE"
  BY DEF HearLocked
<1>3. Grants(mail[c][l]) # {}
  BY <1>2, HearMail DEF LoneInv, Grants
<1>4. ~Had(c)
  BY <1>3 DEF LoneInv, HonestTables, Honest
<1>5. client[c].state \notin {"LOCKED", "UNLOCKING"}
  BY <1>4 DEF LoneInv, Sane
<1> QED
  BY <1>1, <1>2, <1>5 DEF ClientState

\* What the processes see of the messages, the tickets and their dates is the abstract lock:
\* HearLocked gives it to who waits for it and when nobody else has it, lock() asks for it,
\* unlock() and the end of the lock's duration give it back, and every step of the leader
\* (cluckd::msg_lock(), msg_unlock(), cleanup()) goes unnoticed.
THEOREM LoneLeaderImplementsLock ==
  ASSUME Cardinality(Leader) = 1, MaxTries <= 1, ~Cancels
  PROVE  Spec => ImplementsLock
<1>1. Init => Abstract!Init
  BY InitPhases
<1>2. LoneInv /\ [Next]_vars => LoneInv'
  BY NextLone
<1>3. LoneInv => MutualExclusion
  BY LoneExcludes
<1>4. LoneInv /\ MutualExclusion /\ MutualExclusion' /\ [Next]_vars => [Abstract!Next]_Phases
  BY LoneHears, NextMoves DEF LoneInv
<1> QED
  BY InitLone, <1>1, <1>2, <1>3, <1>4, PTL DEF Spec, ImplementsLock, Abstract!Spec, Phases

=============================================================================
