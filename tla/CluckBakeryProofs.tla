------------------------- MODULE CluckBakeryProofs --------------------------
(***************************************************************************)
(* Theorems about CluckBakery, for every number of leaders, of clients and *)
(* of tries, and for every timeout.  They rest on what the operators of    *)
(* CluckTicket preserve: the context of a handler stays well typed and its *)
(* tickets keep keys of their own.                                         *)
(***************************************************************************)
EXTENDS CluckBakery, FiniteSetTheorems, SequenceTheorems, WellFoundedInduction, TLAPS

\* The keys of f_tickets are the keys of a map: no two of its tickets share one.
KeysDiffer(S) == \A t, u \in S : t.listed /\ u.listed /\ KeyOf(t) = KeyOf(u) => t = u

\* A typed context of leader l whose tickets are finitely many and differ by their keys; a
\* leader never writes to itself, and with all leaders in place nothing stops it on the way.
Sound(l, D) ==
  /\ D \in Context /\ D.me = l /\ D.view = Whole(l) /\ ~D.stopped /\ D.out[l] = <<>>
  /\ IsFiniteSet(D.tickets) /\ KeysDiffer(D.tickets)

-----------------------------------------------------------------------------
(* Sets and sequences.                                                     *)

\* A finite set listed as a sequence: SetToSeq() has a value of the right type.
LEMMA SetToSeqType ==
  ASSUME NEW S, NEW T, IsFiniteSet(S), S \subseteq T
  PROVE  SetToSeq(S) \in Seq(T)
<1> DEFINE n == Cardinality(S)
<1>1. n \in Nat /\ ExistsBijection(1..n, S)
  BY FS_CardinalityType
<1>2. PICK f \in [1..n -> S] : IsInjective(f)
  BY <1>1 DEF ExistsBijection, Bijection, Injection
<1>3. SetToSeq(S) \in [1..n -> S]
  BY <1>2 DEF SetToSeq
<1> QED
  BY <1>1, <1>3

\* What a function makes of a finite set is finite.
LEMMA FiniteImage ==
  \A S, T : \A f \in [S -> T] : IsFiniteSet(S) => IsFiniteSet(Range(f)) /\ Range(f) \subseteq T
<1> SUFFICES ASSUME NEW S, NEW T, NEW f \in [S -> T], IsFiniteSet(S)
             PROVE  IsFiniteSet(Range(f)) /\ Range(f) \subseteq T
  OBVIOUS
<1>1. f \in Surjection(S, Range(f)) /\ Range(f) \subseteq T
  BY DEF Surjection, Range
<1> QED
  BY <1>1, FS_Surjection

\* One more item at the end of one of several queues.
LEMMA AppendType ==
  ASSUME NEW S, NEW T, NEW f \in [S -> Seq(T)], NEW x, NEW y \in T
  PROVE  [f EXCEPT ![x] = Append(@, y)] \in [S -> Seq(T)]
<1>1. ASSUME x \in S PROVE Append(f[x], y) \in Seq(T)
  BY <1>1, AppendProperties
<1>2. \A z \in S : [f EXCEPT ![x] = Append(@, y)][z] \in Seq(T)
  BY <1>1
<1> QED
  BY <1>2

\* What is left of a queue once its first item is read.
LEMMA TailElements ==
  ASSUME NEW T, NEW q \in Seq(T), q # <<>>
  PROVE  /\ DOMAIN q = 1..Len(q) /\ 1 \in DOMAIN q /\ Head(q) = q[1]
         /\ \A i \in DOMAIN Tail(q) : i \in Nat \ {0} /\ i + 1 \in DOMAIN q /\ Tail(q)[i] = q[i + 1]
         /\ Range(Tail(q)) \subseteq Range(q)
<1>1. /\ Len(q) \in Nat \ {0} /\ DOMAIN q = 1..Len(q) /\ Head(q) = q[1]
      /\ Tail(q) \in Seq(T) /\ Len(Tail(q)) = Len(q) - 1
      /\ \A i \in 1..Len(Tail(q)) : Tail(q)[i] = q[i + 1]
  BY HeadTailProperties, EmptySeq, LenProperties
<1>2. DOMAIN Tail(q) = 1..(Len(q) - 1)
  BY <1>1, LenProperties
<1>3. \A i \in DOMAIN Tail(q) : i \in Nat \ {0} /\ i + 1 \in DOMAIN q /\ Tail(q)[i] = q[i + 1]
  BY <1>1, <1>2
<1> QED
  BY <1>1, <1>3 DEF Range

\* A set of natural numbers has a smallest one.
LEMMA SmallestNumber ==
  ASSUME NEW S, S \subseteq Nat, S # {}
  PROVE  \E n \in S : \A m \in S : n <= m
<1>1. PICK n \in S : \A m \in S : <<m, n>> \notin OpToRel(<, Nat)
  BY NatLessThanWellFounded, WFMin
<1>2. \A m \in S : ~(m < n)
  BY <1>1 DEF OpToRel
<1> QED
  BY <1>2

-----------------------------------------------------------------------------
(* Messages.                                                               *)

LEMMA MsgType ==
  ASSUME NEW k \in Key,
         NEW type \in {"LOCK", "UNLOCK", "ABSOLUTELY", "LOCK_ENTERING", "LOCK_ENTERED",
            "GET_MAX_TICKET", "MAX_TICKET", "ADD_TICKET", "TICKET_ADDED", "LOCK_EXITING",
            "TICKET_READY", "ACTIVATE_LOCK", "LOCK_ACTIVATED", "DROP_TICKET", "LOCK_FAILED"}
  PROVE  /\ Msg(type, k) \in Message
         /\ \A v \in Nat : [Msg(type, k) EXCEPT !.value = v] \in Message
         /\ \A o \in Key \cup {NoKey} : [Msg(type, k) EXCEPT !.other = o] \in Message
BY DEF Msg, Message

LEMMA NoteType ==
  \A type \in {"LOCKED", "LOCK_FAILED", "UNLOCKING", "UNLOCKED", "ALIVE"} : Note(type) \in Notice
BY DEF Note, Notice

LEMMA KeyTypes ==
  /\ \A t \in Ticket : KeyOf(t) \in Key /\ EnteringKey(t.client) \in Key
  /\ \A c \in Client : EnteringKey(c) \in Key
BY NumberAssumption DEF KeyOf, EnteringKey, Ticket, Key, Number

-----------------------------------------------------------------------------
(* What a handler sends.                                                   *)

LEMMA StartSound ==
  ASSUME NEW l \in Leader, NEW S \in SUBSET Ticket, IsFiniteSet(S), KeysDiffer(S)
  PROVE  Sound(l, Start(l, Whole(l), S)) /\ Start(l, Whole(l), S).tickets = S
<1>1. Whole(l) \in View
  BY DEF Whole, View
<1> HIDE DEF Whole
<1>2. Start(l, Whole(l), S) \in Context
  BY <1>1 DEF Start, Context
<1> QED
  BY <1>2 DEF Start, Sound

\* Whether there is one leader is the same for all of them.
LEMMA SoundAlone ==
  ASSUME NEW l, NEW D, Sound(l, D)
  PROVE  OneLeader(D) <=> Cardinality(Leader) = 1
<1>1. D.view = Whole(l)
  BY DEF Sound
<1>2. Whole(l).alone = (Cardinality(Leader) = 1)
  BY Zenon DEF Whole
<1> QED
  BY <1>1, <1>2, Zenon DEF OneLeader

LEMMA TellSound ==
  ASSUME NEW l, NEW D, Sound(l, D), NEW d, d # l, NEW m \in Message
  PROVE  Sound(l, Tell(D, d, m)) /\ Tell(D, d, m).tickets = D.tickets
<1> DEFINE out == [D.out EXCEPT ![d] = Append(@, m)]
<1>1. out \in [Leader -> Seq(Message)]
  BY AppendType DEF Sound, Context
<1>2. out[l] = <<>>
  BY DEF Sound, Context
<1>3. Tell(D, d, m) = [D EXCEPT !.out = out]
  BY DEF Tell
<1> HIDE DEF out
<1> QED
  BY <1>1, <1>2, <1>3 DEF Sound, Context

LEMMA TellClientSound ==
  ASSUME NEW l, NEW D, Sound(l, D), NEW c, NEW n \in Notice
  PROVE  /\ Sound(l, TellClient(D, c, n))
         /\ TellClient(D, c, n).tickets = D.tickets
<1> DEFINE told == [D.mail EXCEPT ![c] = Append(@, n)]
<1>1. told \in [Client -> Seq(Notice)]
  BY AppendType DEF Sound, Context
<1>2. TellClient(D, c, n) = [D EXCEPT !.mail = told]
  BY DEF TellClient
<1> HIDE DEF told
<1> QED
  BY <1>1, <1>2 DEF Sound, Context

LEMMA SendAllSound ==
  ASSUME NEW l, NEW D, Sound(l, D), NEW s \in Seq(Message)
  PROVE  /\ Sound(l, SendAllToLeaders(D, s))
         /\ SendAllToLeaders(D, s).tickets = D.tickets
<1> DEFINE out == [d \in Leader |-> IF d \in D.view.others THEN D.out[d] \o s ELSE D.out[d]]
<1>1. \A d \in Leader : D.out[d] \in Seq(Message) /\ D.out[d] \o s \in Seq(Message)
  BY ConcatProperties DEF Sound, Context
<1>2. out \in [Leader -> Seq(Message)] /\ out[l] = <<>>
  BY <1>1 DEF Sound, Context, Whole
<1> DEFINE stopped == D.stopped \/ (s # <<>> /\ ~D.view.elected)
<1>3. SendAllToLeaders(D, s) = [D EXCEPT !.stopped = stopped, !.out = out]
  BY DEF SendAllToLeaders
<1>4. stopped = FALSE
  BY DEF Sound, Whole, Context
<1> HIDE DEF out, stopped
<1> QED
  BY <1>2, <1>3, <1>4 DEF Sound, Context

LEMMA SendSound ==
  ASSUME NEW l, NEW D, Sound(l, D), NEW m \in Message
  PROVE  /\ Sound(l, SendToLeaders(D, m))
         /\ SendToLeaders(D, m).tickets = D.tickets
<1>1. <<m>> \in Seq(Message)
  OBVIOUS
<1> QED
  BY <1>1, SendAllSound DEF SendToLeaders

-----------------------------------------------------------------------------
(* The table of tickets.                                                   *)

LEMMA FailType ==
  ASSUME NEW t \in Ticket
  PROVE  /\ Fail(t) \in Ticket
         /\ KeyOf(Fail(t)) = KeyOf(t) /\ Fail(t).client = t.client
         /\ Fail(t).listed = t.listed /\ Fail(t).entering = t.entering
         /\ Fail(t).locked = t.locked
<1> DEFINE date == IF t.locked THEN t.lockDate + UnlockDuration ELSE t.lockDate
<1>1. date \in Nat
  BY NumberAssumption DEF Ticket
<1>2. CASE t.failed = "NONE"
  <2>1. Fail(t) = [t EXCEPT !.failed = "LOCK", !.lockDate = date]
    BY <1>2 DEF Fail
  <2> HIDE DEF date
  <2> QED BY <1>1, <2>1 DEF Ticket, KeyOf
<1>3. CASE t.failed = "LOCK"
  <2>1. Fail(t) = [t EXCEPT !.failed = "UNLOCKING"]
    BY <1>3 DEF Fail
  <2> QED BY <2>1 DEF Ticket, KeyOf
<1>4. CASE t.failed = "UNLOCKING"
  <2>1. Fail(t) = t
    BY <1>4 DEF Fail
  <2> QED BY <2>1
<1> QED
  BY <1>2, <1>3, <1>4 DEF Ticket

\* A ticket put into a map or taken out of it is a ticket with the same key.
LEMMA FlagTypes ==
  ASSUME NEW t \in Ticket, NEW b \in BOOLEAN
  PROVE  /\ [t EXCEPT !.listed = b] \in Ticket
         /\ KeyOf([t EXCEPT !.listed = b]) = KeyOf(t)
         /\ [t EXCEPT !.listed = b].listed = b
         /\ [t EXCEPT !.entering = b] \in Ticket
         /\ KeyOf([t EXCEPT !.entering = b]) = KeyOf(t)
         /\ [t EXCEPT !.entering = b].listed = t.listed
BY DEF Ticket, KeyOf

LEMMA FailNoticeType ==
  ASSUME NEW me, NEW t
  PROVE  FailNotice(me, t) \subseteq Notice /\ IsFiniteSet(FailNotice(me, t))
<1>1. FailNotice(me, t) \in {{}} \cup {{n} : n \in Notice}
  BY NoteType DEF FailNotice
<1> QED
  BY <1>1, FS_Singleton, FS_EmptySet

LEMMA ComplaintsType ==
  ASSUME NEW l, NEW D, Sound(l, D), NEW late \in SUBSET D.tickets
  PROVE  Complaints(D, late) \in [Client -> Seq(Notice)]
<1> SUFFICES ASSUME NEW c \in Client
             PROVE  D.mail[c] \o SetToSeq(UNION {FailNotice(D.me, t) :
                                            t \in {u \in late : u.client = c}}) \in Seq(Notice)
  BY DEF Complaints
<1> DEFINE T == {u \in late : u.client = c}
           W == UNION {FailNotice(D.me, t) : t \in T}
           f == [t \in T |-> FailNotice(D.me, t)]
<1>1. IsFiniteSet(T)
  BY FS_Subset DEF Sound
<1>2. IsFiniteSet(Range(f))
  <2> f \in [T -> SUBSET Notice]
    BY FailNoticeType
  <2> HIDE DEF T, f
  <2> QED BY <1>1, FiniteImage
<1>3. W = UNION Range(f)
  BY DEF Range
<1>4. IsFiniteSet(W)
  <2>1. \A X \in Range(f) : IsFiniteSet(X)
    BY FailNoticeType DEF Range
  <2> HIDE DEF T, f
  <2> QED BY <1>2, <1>3, <2>1, FS_UNION
<1>5. W \subseteq Notice
  BY FailNoticeType
<1>6. SetToSeq(W) \in Seq(Notice)
  BY <1>4, <1>5, SetToSeqType
<1>7. D.mail[c] \in Seq(Notice)
  BY DEF Sound, Context
<1> QED
  BY <1>6, <1>7

\* A table whose tickets are each changed in place is a table.
LEMMA ImageTable ==
  ASSUME NEW S \in SUBSET Ticket, IsFiniteSet(S), KeysDiffer(S), NEW f \in [S -> Ticket],
         \A t \in S : KeyOf(f[t]) = KeyOf(t) /\ (f[t].listed => t.listed)
  PROVE  Range(f) \subseteq Ticket /\ IsFiniteSet(Range(f)) /\ KeysDiffer(Range(f))
<1>1. Range(f) \subseteq Ticket /\ IsFiniteSet(Range(f))
  BY FiniteImage
<1>2. KeysDiffer(Range(f))
  <2> SUFFICES ASSUME NEW x \in Range(f), NEW y \in Range(f),
                      x.listed, y.listed, KeyOf(x) = KeyOf(y)
               PROVE  x = y
    BY DEF KeysDiffer
  <2>1. PICK t \in S : x = f[t]
    BY DEF Range
  <2>2. PICK u \in S : y = f[u]
    BY DEF Range
  <2>3. t = u
    BY <2>1, <2>2 DEF KeysDiffer
  <2> QED BY <2>1, <2>2, <2>3
<1> QED
  BY <1>1, <1>2

LEMMA TableSound ==
  ASSUME NEW l, NEW D, Sound(l, D), NEW S \in SUBSET Ticket, IsFiniteSet(S), KeysDiffer(S)
  PROVE  LET E == [D EXCEPT !.tickets = S]
         IN  Sound(l, E) /\ E.tickets = S
BY DEF Sound, Context

\* A ticket that is not in f_tickets yet has no key to share.
LEMMA AddSound ==
  ASSUME NEW l, NEW D, Sound(l, D), NEW t \in Ticket, ~t.listed, t.entering
  PROVE  LET E == [D EXCEPT !.tickets = @ \cup {t}]
         IN  /\ Sound(l, E) /\ t \in E.tickets
             /\ \A u : EnterOverflows(E, u) <=> EnterOverflows(D, u)
<1> DEFINE S == D.tickets \cup {t}
           E == [D EXCEPT !.tickets = S]
<1>1. S \subseteq Ticket /\ IsFiniteSet(S) /\ KeysDiffer(S)
  BY FS_AddElement DEF Sound, Context, KeysDiffer
<1>2. Listed(E) = Listed(D)
  BY DEF Listed, Sound, Context
<1> HIDE DEF S
<1>3. Sound(l, E) /\ E.tickets = S
  BY <1>1, TableSound
<1>4. \A u : EnterOverflows(E, u) <=> EnterOverflows(D, u)
  <2>1. E.view = D.view
    BY DEF Sound, Context
  <2> HIDE DEF E
  <2> QED BY <1>2, <2>1 DEF EnterOverflows, LastTicket, OneLeader
<1> QED
  BY <1>3, <1>4 DEF S

LEMMA AliveTable ==
  ASSUME NEW S \in SUBSET Ticket, IsFiniteSet(S), KeysDiffer(S)
  PROVE  Alive(S) \subseteq Ticket /\ IsFiniteSet(Alive(S)) /\ KeysDiffer(Alive(S))
<1>1. Alive(S) \subseteq S
  BY DEF Alive
<1> QED
  BY <1>1, FS_Subset DEF KeysDiffer

\* Changing a ticket without changing its key, nor putting it into f_tickets.
LEMMA UpdateSound ==
  ASSUME NEW l, NEW D, Sound(l, D), NEW t \in D.tickets, NEW u \in Ticket,
         u.listed => t.listed /\ KeyOf(u) = KeyOf(t)
  PROVE  /\ Sound(l, Update(D, t, u))
         /\ u.entering \/ u.listed => u \in Update(D, t, u).tickets
<1> DEFINE S == (D.tickets \ {t}) \cup {u}
<1>1. S \subseteq Ticket /\ IsFiniteSet(S) /\ KeysDiffer(S)
  BY FS_AddElement, FS_RemoveElement DEF Sound, Context, KeysDiffer
<1>2. Update(D, t, u) = [D EXCEPT !.tickets = Alive(S)]
  BY DEF Update
<1>3. u.entering \/ u.listed => u \in Alive(S)
  BY DEF Alive
<1> HIDE DEF S
<1> QED
  BY <1>1, <1>2, <1>3, AliveTable, TableSound

\* Taking some tickets of a table out of one of the two maps.
LEMMA ClearSound ==
  ASSUME NEW l, NEW D, Sound(l, D), NEW B,
         NEW S, \/ S = Alive({IF t \in B THEN [t EXCEPT !.listed = FALSE] ELSE t : t \in D.tickets})
                \/ S = Alive({IF t \in B THEN [t EXCEPT !.entering = FALSE] ELSE t : t \in D.tickets})
  PROVE  Sound(l, [D EXCEPT !.tickets = S])
<1>1. D.tickets \subseteq Ticket /\ IsFiniteSet(D.tickets) /\ KeysDiffer(D.tickets)
  BY DEF Sound, Context
<1> DEFINE f == [t \in D.tickets |-> IF t \in B THEN [t EXCEPT !.listed = FALSE] ELSE t]
           g == [t \in D.tickets |-> IF t \in B THEN [t EXCEPT !.entering = FALSE] ELSE t]
<1>2. /\ f \in [D.tickets -> Ticket]
      /\ \A t \in D.tickets : KeyOf(f[t]) = KeyOf(t) /\ (f[t].listed => t.listed)
  BY <1>1, FlagTypes
<1>3. /\ g \in [D.tickets -> Ticket]
      /\ \A t \in D.tickets : KeyOf(g[t]) = KeyOf(t) /\ (g[t].listed => t.listed)
  BY <1>1, FlagTypes
<1>4. S = Alive(Range(f)) \/ S = Alive(Range(g))
  BY DEF Range
<1> HIDE DEF f, g
<1>5. S \subseteq Ticket /\ IsFiniteSet(S) /\ KeysDiffer(S)
  BY <1>1, <1>2, <1>3, <1>4, ImageTable, AliveTable
<1> QED
  BY <1>5, TableSound

\* A handler that goes through a whole map changes each of its tickets.
Mapped(D, f, told) == [D EXCEPT !.tickets = Alive({f[t] : t \in D.tickets}), !.mail = told]

LEMMA MapSound ==
  ASSUME NEW l, NEW D, Sound(l, D), NEW f \in [D.tickets -> Ticket],
         \A t \in D.tickets : KeyOf(f[t]) = KeyOf(t) /\ (f[t].listed => t.listed),
         NEW told \in [Client -> Seq(Notice)]
  PROVE  Sound(l, Mapped(D, f, told))
<1> DEFINE T == Alive(Range(f))
<1>1. Range(f) \subseteq Ticket /\ IsFiniteSet(Range(f)) /\ KeysDiffer(Range(f))
  <2>1. D.tickets \in SUBSET Ticket /\ IsFiniteSet(D.tickets) /\ KeysDiffer(D.tickets)
    BY DEF Sound, Context
  <2> QED BY <2>1, ImageTable
<1>2. T \subseteq Ticket /\ IsFiniteSet(T) /\ KeysDiffer(T)
  BY <1>1, AliveTable
<1>3. Mapped(D, f, told) = [D EXCEPT !.tickets = T, !.mail = told]
  BY DEF Mapped, Range
<1> HIDE DEF T
<1> QED
  BY <1>2, <1>3 DEF Sound, Context

LEMMA ExpireListedSound ==
  ASSUME NEW l, NEW D, Sound(l, D)
  PROVE  Sound(l, ExpireListed(D))
<1> DEFINE late == {t \in Listed(D) : TimedOut(t)}
           f == [t \in D.tickets |-> IF t \in late
                                     THEN [Fail(t) EXCEPT !.listed = ~TimedOut(Fail(t))] ELSE t]
           told == Complaints(D, late)
<1>1. told \in [Client -> Seq(Notice)]
  BY ComplaintsType DEF Listed
<1>2. /\ f \in [D.tickets -> Ticket]
      /\ \A t \in D.tickets : KeyOf(f[t]) = KeyOf(t) /\ (f[t].listed => t.listed)
  <2>1. ASSUME NEW t \in Ticket, t.listed
        PROVE  LET u == [Fail(t) EXCEPT !.listed = ~TimedOut(Fail(t))]
               IN  u \in Ticket /\ KeyOf(u) = KeyOf(t) /\ (u.listed => t.listed)
    <3>1. TimedOut(Fail(t)) \in BOOLEAN
      BY DEF TimedOut
    <3>2. Fail(t) \in Ticket /\ KeyOf(Fail(t)) = KeyOf(t)
      BY FailType
    <3> QED BY <2>1, <3>1, <3>2, FlagTypes
  <2>2. D.tickets \subseteq Ticket
    BY DEF Sound, Context
  <2>3. ASSUME NEW t \in D.tickets
        PROVE  /\ f[t] \in Ticket /\ KeyOf(f[t]) = KeyOf(t) /\ (f[t].listed => t.listed)
    <3>1. t \in late => t.listed
      BY DEF Listed
    <3> HIDE DEF late
    <3>2. CASE t \in late
      BY <2>1, <2>2, <3>1, <3>2
    <3>3. CASE t \notin late
      BY <2>2, <3>3
    <3> QED BY <3>2, <3>3
  <2> QED BY <2>3
<1>3. ExpireListed(D) = Mapped(D, f, told)
  <2>1. {f[t] : t \in D.tickets}
          = {IF t \in late THEN [Fail(t) EXCEPT !.listed = ~TimedOut(Fail(t))] ELSE t :
               t \in D.tickets}
    <3> HIDE DEF late
    <3> QED OBVIOUS
  <2> QED BY <2>1, Zenon DEF ExpireListed, Mapped
<1> HIDE DEF f, told, late
<1> QED
  BY <1>1, <1>2, <1>3, MapSound

LEMMA ExpireEnteringSound ==
  ASSUME NEW l, NEW D, Sound(l, D)
  PROVE  Sound(l, ExpireEntering(D))
<1> DEFINE late == {t \in D.tickets : t.entering /\ TimedOut(t)}
           f == [t \in D.tickets |-> IF t \in late
                                     THEN [Fail(t) EXCEPT !.entering = ~TimedOut(Fail(t))] ELSE t]
           told == Complaints(D, late)
<1>1. told \in [Client -> Seq(Notice)]
  BY ComplaintsType
<1>2. /\ f \in [D.tickets -> Ticket]
      /\ \A t \in D.tickets : KeyOf(f[t]) = KeyOf(t) /\ (f[t].listed => t.listed)
  <2>1. ASSUME NEW t \in Ticket
        PROVE  LET u == [Fail(t) EXCEPT !.entering = ~TimedOut(Fail(t))]
               IN  u \in Ticket /\ KeyOf(u) = KeyOf(t) /\ (u.listed => t.listed)
    <3>1. TimedOut(Fail(t)) \in BOOLEAN
      BY DEF TimedOut
    <3>2. Fail(t) \in Ticket /\ Fail(t).listed = t.listed /\ KeyOf(Fail(t)) = KeyOf(t)
      BY FailType
    <3> DEFINE x == Fail(t)
               b == ~TimedOut(x)
               u == [x EXCEPT !.entering = b]
    <3>3. x \in Ticket /\ b \in BOOLEAN
      BY <3>1, <3>2
    <3> HIDE DEF x, b
    <3>4. u \in Ticket /\ KeyOf(u) = KeyOf(x) /\ u.listed = x.listed
      BY <3>3, FlagTypes
    <3> QED BY <3>2, <3>4 DEF x, b
  <2>2. D.tickets \subseteq Ticket
    BY DEF Sound, Context
  <2>3. ASSUME NEW t \in D.tickets
        PROVE  /\ f[t] \in Ticket /\ KeyOf(f[t]) = KeyOf(t) /\ (f[t].listed => t.listed)
    <3> HIDE DEF late
    <3>1. CASE t \in late
      BY <2>1, <2>2, <3>1
    <3>2. CASE t \notin late
      BY <2>2, <3>2
    <3> QED BY <3>1, <3>2
  <2> QED BY <2>3
<1>3. ExpireEntering(D) = Mapped(D, f, told)
  <2>1. {f[t] : t \in D.tickets}
          = {IF t \in late THEN [Fail(t) EXCEPT !.entering = ~TimedOut(Fail(t))] ELSE t :
               t \in D.tickets}
    <3> HIDE DEF late
    <3> QED OBVIOUS
  <2> QED BY <2>1, Zenon DEF ExpireEntering, Mapped
<1> HIDE DEF f, told, late
<1> QED
  BY <1>1, <1>2, <1>3, MapSound

-----------------------------------------------------------------------------
(* The first ticket and the last number.                                   *)

\* find_first_lock(): among tickets that differ by their keys, one comes before all others.
LEMMA FirstExists ==
  ASSUME NEW S \in SUBSET Ticket, S # {},
         \A t, u \in S : KeyOf(t) = KeyOf(u) => t = u
  PROVE  First(S) \in S /\ \A u \in S \ {First(S)} : Before(KeyOf(First(S)), KeyOf(u))
<1> DEFINE N == {t.rank : t \in S}
<1>1. N \subseteq Nat /\ N # {}
  BY NumberAssumption DEF Ticket, Number
<1>2. PICK n \in N : \A m \in N : n <= m
  BY <1>1, SmallestNumber
<1> DEFINE C == {t.client : t \in {u \in S : u.rank = n}}
<1>3. C \subseteq Nat /\ C # {}
  BY ClientAssumption DEF Ticket
<1>4. PICK c \in C : \A d \in C : c <= d
  BY <1>3, SmallestNumber
<1>5. PICK t \in S : t.rank = n /\ t.client = c
  OBVIOUS
<1>6. ASSUME NEW u \in S \ {t} PROVE Before(KeyOf(t), KeyOf(u))
  <2>1. u.rank \in N /\ u.rank \in Nat /\ n \in Nat /\ n <= u.rank
    BY <1>1, <1>2
  <2>2. CASE u.rank = n
    <3>1. u.client \in C /\ u.client # t.client
      BY <1>5, <2>2 DEF KeyOf
    <3>2. c <= u.client /\ c \in Nat /\ u.client \in Nat
      BY <1>3, <1>4, <3>1
    <3> QED BY <1>5, <2>2, <3>1, <3>2 DEF Before, KeyOf
  <2>3. CASE u.rank # n
    BY <1>5, <2>1, <2>3 DEF Before, KeyOf
  <2> QED BY <2>2, <2>3
<1> QED
  BY <1>6 DEF First

LEMMA LastTicketType ==
  ASSUME NEW D, D.tickets \subseteq Ticket
  PROVE  /\ LastTicket(D) \in Number /\ \A u \in Listed(D) : u.number <= LastTicket(D)
         /\ Listed(D) # {} => \E t \in Listed(D) : LastTicket(D) = t.number
<1>1. CASE Listed(D) = {}
  BY <1>1, NumberAssumption DEF LastTicket, Number
<1>2. CASE Listed(D) # {}
  <2> DEFINE R == {MaxNumber - t.number : t \in Listed(D)}
  <2>1. \A t \in Listed(D) : t.number \in Number /\ t.number \in Nat /\ t.number <= MaxNumber
    BY NumberAssumption DEF Listed, Ticket, Number
  <2>2. R \subseteq Nat /\ R # {}
    BY <1>2, <2>1, NumberAssumption
  <2>3. PICK r \in R : \A q \in R : r <= q
    BY <2>2, SmallestNumber
  <2>4. PICK t \in Listed(D) : r = MaxNumber - t.number
    OBVIOUS
  <2>5. \A u \in Listed(D) : u.number <= t.number
    <3> SUFFICES ASSUME NEW u \in Listed(D) PROVE u.number <= t.number
      OBVIOUS
    <3>1. MaxNumber - u.number \in R
      OBVIOUS
    <3>2. MaxNumber - t.number <= MaxNumber - u.number
      BY <2>3, <2>4, <3>1
    <3> QED BY <2>1, <3>2, NumberAssumption
  <2> DEFINE m == CHOOSE v \in Listed(D) : \A u \in Listed(D) : u.number <= v.number
  <2>6. m \in Listed(D) /\ \A u \in Listed(D) : u.number <= m.number
    BY <2>5, Zenon
  <2> HIDE DEF m
  <2>7. m.number \in Number
    BY <2>1, <2>6
  <2>8. LastTicket(D) = m.number
    BY <1>2, Zenon DEF LastTicket, m
  <2> QED BY <2>6, <2>7, <2>8
<1> QED
  BY <1>1, <1>2

-----------------------------------------------------------------------------
(* Activation.  The date is a number all along.                            *)

LEMMA LockActivatedSound ==
  ASSUME now \in Nat, NEW l, NEW D, Sound(l, D), NEW t \in D.tickets
  PROVE  Sound(l, LockActivated(D, t))
<1> DEFINE date == now + Duration
           u == [t EXCEPT !.locked = TRUE, !.lockDate = date]
           E == Update(D, t, u)
           n == [Note("LOCKED") EXCEPT !.date = u.lockDate]
<1>1. t \in Ticket
  BY DEF Sound, Context
<1>2. u \in Ticket /\ KeyOf(u) = KeyOf(t) /\ u.listed = t.listed /\ u.lockDate \in Nat
  <2>1. date \in Nat
    BY NumberAssumption
  <2> HIDE DEF date
  <2> QED BY <1>1, <2>1 DEF Ticket, KeyOf
<1>3. n \in Notice
  BY <1>2 DEF Note, Notice
<1> HIDE DEF u, n
<1>4. Sound(l, E)
  BY <1>2, UpdateSound
<1>5. Sound(l, TellClient(E, t.client, n))
  BY <1>3, <1>4, TellClientSound
<1> QED
  BY <1>4, <1>5 DEF LockActivated, u, n

LEMMA ActivateLockSound ==
  ASSUME now \in Nat, NEW l, NEW D, Sound(l, D), NEW t \in D.tickets
  PROVE  Sound(l, ActivateLock(D, t))
<1>1. Msg("ACTIVATE_LOCK", KeyOf(t)) \in Message
  BY MsgType, KeyTypes DEF Sound, Context
<1> QED
  BY <1>1, LockActivatedSound, SendSound DEF ActivateLock

LEMMA FirstListed ==
  ASSUME NEW l, NEW D, Sound(l, D), Listed(D) # {}
  PROVE  /\ First(Listed(D)) \in D.tickets /\ First(Listed(D)).listed
         /\ \A u \in Listed(D) \ {First(Listed(D))} :
              Before(KeyOf(First(Listed(D))), KeyOf(u))
<1>1. Listed(D) \in SUBSET Ticket
  BY DEF Listed, Sound, Context
<1>2. \A t, u \in Listed(D) : KeyOf(t) = KeyOf(u) => t = u
  BY DEF Listed, Sound, KeysDiffer
<1>3. Listed(D) \subseteq D.tickets /\ \A t \in Listed(D) : t.listed
  BY DEF Listed
<1> QED
  BY <1>1, <1>2, <1>3, FirstExists

LEMMA ActivateFirstLockSound ==
  ASSUME now \in Nat, NEW l, NEW D, Sound(l, D)
  PROVE  Sound(l, ActivateFirstLock(D))
<1>1. Sound(l, ExpireListed(D))
  BY ExpireListedSound
<1> QED
  BY <1>1, FirstListed, ActivateLockSound DEF ActivateFirstLock

LEMMA CleanupSound ==
  ASSUME now \in Nat, NEW l, NEW D, Sound(l, D)
  PROVE  Sound(l, Cleanup(D))
<1> DEFINE E == ExpireListed(D)
           erased == \E t \in Listed(D) : TimedOut(t) /\ TimedOut(Fail(t))
           F == IF erased THEN ActivateFirstLock(E) ELSE E
<1>1. Sound(l, E) /\ Sound(l, ActivateFirstLock(E))
  BY ExpireListedSound, ActivateFirstLockSound
<1>2. Sound(l, F)
  BY <1>1
<1>3. Cleanup(D) = ExpireEntering(F)
  BY DEF Cleanup
<1> HIDE DEF F
<1> QED
  BY <1>2, <1>3, ExpireEnteringSound

-----------------------------------------------------------------------------
(* The way through the bakery.                                             *)

LEMMA RemoveEnteringType ==
  ASSUME NEW t \in Ticket, NEW c
  PROVE  LET u == RemoveEntering(t, c)
         IN  u \in Ticket /\ KeyOf(u) = KeyOf(t) /\ u.listed = t.listed
<1> DEFINE left == {p \in t.still : p.client # c /\ p.until > now}
<1>1. left \subseteq Pending /\ (left = {}) \in BOOLEAN
  BY DEF Ticket
<1>2. RemoveEntering(t, c) = IF ~Freed(t, c) THEN t
                             ELSE [t EXCEPT !.still = left, !.ready = (left = {})]
  BY DEF RemoveEntering
<1> DEFINE none == (left = {})
<1> HIDE DEF left
<1>3. [t EXCEPT !.still = left, !.ready = none] \in Ticket
  BY <1>1 DEF Ticket
<1> QED
  BY <1>2, <1>3 DEF KeyOf

LEMMA LockExitingSound ==
  ASSUME now \in Nat, NEW l, NEW D, Sound(l, D), NEW c
  PROVE  Sound(l, LockExiting(D, c))
<1>1. CASE EnteringOf(D, c) = {}
  BY <1>1, CleanupSound DEF LockExiting
<1>2. CASE EnteringOf(D, c) # {}
  <2> DEFINE t == One(EnteringOf(D, c))
             E == Update(D, t, [t EXCEPT !.entering = FALSE])
             freed == {u \in Listed(E) : Freed(u, c) /\ RemoveEntering(u, c).ready}
             f == [u \in E.tickets |-> IF u.listed THEN RemoveEntering(u, c) ELSE u]
             F == [E EXCEPT !.tickets = Range(f)]
             G == SendAllToLeaders(F, SetToSeq({Msg("TICKET_READY", KeyOf(u)) : u \in freed}))
  <2>1. t \in D.tickets /\ t \in Ticket
    BY <1>2 DEF One, EnteringOf, Sound, Context
  <2>2. Sound(l, E)
    BY <2>1, FlagTypes, UpdateSound
  <2>3. LockExiting(D, c) = Cleanup(IF Listed(G) = {} THEN G ELSE ActivateFirstLock(G))
    <3>1. Range(f) = {IF u.listed THEN RemoveEntering(u, c) ELSE u : u \in E.tickets}
      BY DEF Range
    <3> QED BY <1>2, <3>1, Zenon DEF LockExiting
  <2> HIDE DEF E, t
  <2>4. E.tickets \in SUBSET Ticket /\ IsFiniteSet(E.tickets) /\ KeysDiffer(E.tickets)
    BY <2>2 DEF Sound, Context
  <2>5. Sound(l, F)
    <3>1. /\ f \in [E.tickets -> Ticket]
          /\ \A u \in E.tickets : KeyOf(f[u]) = KeyOf(u) /\ (f[u].listed => u.listed)
      BY <2>4, RemoveEnteringType
    <3> HIDE DEF f
    <3>2. Range(f) \subseteq Ticket /\ IsFiniteSet(Range(f)) /\ KeysDiffer(Range(f))
      BY <2>4, <3>1, ImageTable
    <3> QED BY <2>2, <3>2, TableSound
  <2>6. SetToSeq({Msg("TICKET_READY", KeyOf(u)) : u \in freed}) \in Seq(Message)
    <3> DEFINE g == [u \in freed |-> Msg("TICKET_READY", KeyOf(u))]
    <3>1. freed \subseteq E.tickets
      BY DEF Listed
    <3>2. IsFiniteSet(freed)
      BY <2>4, <3>1, FS_Subset
    <3>3. g \in [freed -> Message]
      BY <2>4, <3>1, MsgType, KeyTypes
    <3>4. {Msg("TICKET_READY", KeyOf(u)) : u \in freed} = Range(g)
      BY DEF Range
    <3> HIDE DEF g, freed
    <3>5. IsFiniteSet(Range(g)) /\ Range(g) \subseteq Message
      BY <3>2, <3>3, FiniteImage
    <3> QED BY <3>4, <3>5, SetToSeqType
  <2> HIDE DEF F, freed
  <2>7. Sound(l, G)
    BY <2>5, <2>6, SendAllSound
  <2> HIDE DEF G
  <2> QED BY <2>3, <2>7, ActivateFirstLockSound, CleanupSound
<1> QED
  BY <1>1, <1>2

LEMMA TicketAddedSound ==
  ASSUME now \in Nat, NEW l, NEW D, Sound(l, D), NEW t \in D.tickets
  PROVE  Sound(l, TicketAdded(D, t))
<1> DEFINE still == {[client |-> u.client, until |-> CurrentDate(u)] :
                       u \in {v \in D.tickets : v.entering}}
           u == [t EXCEPT !.quorum = TRUE, !.still = still]
           E == Update(D, t, u)
           m == Msg("LOCK_EXITING", EnteringKey(t.client))
           F == SendToLeaders(E, m)
<1>1. D.tickets \subseteq Ticket /\ t \in Ticket
  BY DEF Sound, Context
<1>2. still \subseteq Pending
  <2>1. \A v \in Ticket : v.client \in Client /\ CurrentDate(v) \in Nat
    BY DEF CurrentDate, Ticket
  <2> QED BY <1>1, <2>1 DEF Pending
<1>3. TicketAdded(D, t) = IF t.quorum THEN D ELSE LockExiting(F, t.client)
  BY DEF TicketAdded
<1> HIDE DEF still
<1>4. u \in Ticket /\ KeyOf(u) = KeyOf(t) /\ u.listed = t.listed
  BY <1>1, <1>2 DEF Ticket, KeyOf
<1> HIDE DEF u
<1>5. Sound(l, E)
  BY <1>4, UpdateSound
<1>6. m \in Message
  BY <1>1, KeyTypes, MsgType
<1> HIDE DEF E, m
<1>7. Sound(l, F)
  BY <1>5, <1>6, SendSound
<1> HIDE DEF F
<1> QED
  BY <1>3, <1>7, LockExitingSound

LEMMA SetTicketSound ==
  ASSUME NEW l, NEW D, Sound(l, D), NEW t \in D.tickets, NEW u \in Ticket
  PROVE  /\ Sound(l, SetTicket(D, t, u))
         /\ u.listed => u \in SetTicket(D, t, u).tickets
<1> DEFINE others == {v \in D.tickets \ {t} : v.listed /\ KeyOf(v) = KeyOf(u)}
           f == [v \in others |-> [v EXCEPT !.listed = FALSE]]
           S == (D.tickets \ (others \cup {t})) \cup Range(f) \cup {u}
<1>1. D.tickets \in SUBSET Ticket /\ IsFiniteSet(D.tickets) /\ KeysDiffer(D.tickets)
  BY DEF Sound, Context
<1>2. IsFiniteSet(others) /\ others \subseteq D.tickets
  BY <1>1, FS_Subset
<1>3. f \in [others -> Ticket] /\ \A x \in Range(f) : ~x.listed
  <2>1. \A v \in Ticket : [v EXCEPT !.listed = FALSE] \in Ticket
                          /\ ~[v EXCEPT !.listed = FALSE].listed
    BY FlagTypes
  <2>2. others \subseteq Ticket
    BY <1>1
  <2> HIDE DEF others
  <2> QED BY <2>1, <2>2 DEF Range
<1>4. S \subseteq Ticket /\ IsFiniteSet(S)
  <2> HIDE DEF f
  <2>1. IsFiniteSet(Range(f)) /\ Range(f) \subseteq Ticket
    BY <1>2, <1>3, FiniteImage
  <2> HIDE DEF others
  <2>2. IsFiniteSet(D.tickets \ (others \cup {t}))
    BY <1>1, FS_Subset
  <2> DEFINE A == D.tickets \ (others \cup {t})
             B == A \cup Range(f)
  <2>3. IsFiniteSet(B) /\ B \subseteq Ticket
    <3> HIDE DEF A
    <3>1. IsFiniteSet(B)
      BY <2>1, <2>2, FS_Union DEF A
    <3>2. A \subseteq Ticket
      BY <1>1 DEF A
    <3> QED BY <2>1, <3>1, <3>2
  <2>4. S = B \cup {u}
    OBVIOUS
  <2> HIDE DEF B, S
  <2> QED BY <2>3, <2>4, FS_AddElement
<1>5. KeysDiffer(S)
  <2> SUFFICES ASSUME NEW x \in S, NEW y \in S, x.listed, y.listed, KeyOf(x) = KeyOf(y)
               PROVE  x = y
    BY DEF KeysDiffer
  <2>1. x \notin Range(f) /\ y \notin Range(f)
    BY <1>3
  <2> HIDE DEF f
  <2> QED BY <1>1, <2>1 DEF KeysDiffer
<1>6. SetTicket(D, t, u) = [D EXCEPT !.tickets = Alive(S)]
  <2>1. Range(f) = {[v EXCEPT !.listed = FALSE] : v \in others}
    BY DEF Range
  <2>2. (D.tickets \ (others \cup {t})) \cup {[v EXCEPT !.listed = FALSE] : v \in others} \cup {u} = S
    BY <2>1, Zenon
  <2> QED BY <2>2, Zenon DEF SetTicket
<1>7. u.listed => u \in Alive(S)
  BY DEF Alive
<1> HIDE DEF S
<1> QED
  BY <1>4, <1>5, <1>6, <1>7, AliveTable, TableSound

LEMMA MaxTicketSound ==
  ASSUME now \in Nat, NEW l, NEW D, Sound(l, D), NEW t \in D.tickets, NEW n \in Nat, ~Overflows(t, n)
  PROVE  Sound(l, MaxTicket(D, t, n))
<1> DEFINE u == Numbered(t, NextNumber(t, n))
           F == SetTicket(D, t, u)
           m == [Msg("ADD_TICKET", KeyOf(u)) EXCEPT !.value = t.obtention]
           E == SendToLeaders(F, m)
<1>1. MaxTicket(D, t, n) = IF t.added THEN D ELSE IF OneLeader(D) THEN TicketAdded(E, u) ELSE E
  BY DEF MaxTicket
<1>2. CASE t.added
  BY <1>1, <1>2
<1>3. CASE ~t.added
  <2>1. t \in Ticket
    BY DEF Sound, Context
  <2>2. NextNumber(t, n) \in Number
    BY <1>3, <2>1, NumberAssumption DEF Overflows, NextNumber, Number, Ticket
  <2>3. u \in Ticket /\ u.listed
    BY <2>1, <2>2 DEF Ticket, Numbered
  <2>4. m \in Message
    <3>1. t.obtention \in Nat
      BY <2>1 DEF Ticket
    <3> HIDE DEF u
    <3>2. KeyOf(u) \in Key
      BY <2>3, KeyTypes
    <3> QED BY <3>1, <3>2, MsgType
  <2> HIDE DEF u, m
  <2>5. Sound(l, F) /\ u \in F.tickets
    BY <2>3, SetTicketSound
  <2> HIDE DEF F
  <2>6. Sound(l, E) /\ u \in E.tickets
    BY <2>4, <2>5, SendSound
  <2> HIDE DEF E
  <2> QED BY <1>1, <2>6, TicketAddedSound
<1> QED
  BY <1>2, <1>3

LEMMA EnteredSound ==
  ASSUME now \in Nat, NEW l, NEW D, Sound(l, D), NEW t \in D.tickets, t.entering, ~EnterOverflows(D, t)
  PROVE  Sound(l, Entered(D, t))
<1> DEFINE u == [t EXCEPT !.maxAsked = TRUE, !.number = LastTicket(D)]
           F == Update(D, t, u)
           m == Msg("GET_MAX_TICKET", EnteringKey(t.client))
           E == SendToLeaders(F, m)
<1>1. Entered(D, t) = IF t.maxAsked THEN D ELSE IF OneLeader(D) THEN MaxTicket(E, u, u.number) ELSE E
  BY DEF Entered
<1>2. CASE t.maxAsked
  BY <1>1, <1>2
<1>3. CASE ~t.maxAsked
  <2>1. t \in Ticket /\ D.tickets \subseteq Ticket
    BY DEF Sound, Context
  <2>2. LastTicket(D) \in Number
    BY <2>1, LastTicketType
  <2>3. /\ u \in Ticket /\ KeyOf(u) = KeyOf(t) /\ u.listed = t.listed
        /\ u.number = LastTicket(D) /\ u.added = t.added /\ u.entering
    BY <2>1, <2>2 DEF Ticket, KeyOf
  <2>4. m \in Message
    BY <2>1, KeyTypes, MsgType
  <2> HIDE DEF u, m
  <2>5. Sound(l, F) /\ u \in F.tickets
    BY <2>3, UpdateSound
  <2> HIDE DEF F
  <2>6. Sound(l, E) /\ u \in E.tickets
    BY <2>4, <2>5, SendSound
  <2> HIDE DEF E
  <2>7. ASSUME OneLeader(D) PROVE Sound(l, MaxTicket(E, u, u.number))
    <3>1. u.number \in Nat
      BY <2>2, <2>3, NumberAssumption DEF Number
    <3>2. NextNumber(u, u.number) = LastTicket(D) + 1
      BY <2>3 DEF NextNumber
    <3>3. ~Overflows(u, u.number)
      BY <1>3, <2>3, <2>7, <3>2 DEF Overflows, EnterOverflows
    <3> QED BY <2>6, <3>1, <3>3, MaxTicketSound
  <2> QED BY <1>1, <2>6, <2>7
<1> QED
  BY <1>2, <1>3

LEMMA EnterSound ==
  ASSUME now \in Nat, NEW l, NEW D, Sound(l, D), NEW t \in D.tickets, t.entering, ~EnterOverflows(D, t)
  PROVE  Sound(l, Enter(D, t))
<1> DEFINE m == [Msg("LOCK_ENTERING", EnteringKey(t.client)) EXCEPT !.value = t.obtention]
           E == SendToLeaders(D, m)
<1>1. Enter(D, t) = IF OneLeader(D) THEN Entered(E, t) ELSE E
  BY DEF Enter
<1>2. t \in Ticket /\ t.obtention \in Nat
  BY DEF Sound, Context, Ticket
<1>3. m \in Message
  <2>1. EnteringKey(t.client) \in Key
    BY <1>2, KeyTypes
  <2> QED BY <1>2, <2>1, MsgType
<1> HIDE DEF m
<1>4. Sound(l, E) /\ E.tickets = D.tickets
  BY <1>3, SendSound
<1>5. ~EnterOverflows(E, t)
  BY <1>4, SoundAlone DEF EnterOverflows, LastTicket, Listed
<1> HIDE DEF E
<1> QED
  BY <1>1, <1>4, <1>5, EnteredSound

LEMMA DropTicketSound ==
  ASSUME NEW l, NEW D, Sound(l, D), NEW t \in D.tickets
  PROVE  Sound(l, DropTicket(D, t)) /\ DropTicket(D, t).tickets = D.tickets
<1> DEFINE m == Msg("DROP_TICKET", KeyOf(t))
           E == SendToLeaders(D, m)
<1>1. DropTicket(D, t)
        = IF t.failed = "NONE" THEN TellClient(E, t.client, Note("UNLOCKED")) ELSE E
  BY DEF DropTicket
<1>2. m \in Message
  BY KeyTypes, MsgType DEF Sound, Context
<1> HIDE DEF m
<1>3. Sound(l, E) /\ E.tickets = D.tickets
  BY <1>2, SendSound
<1> QED
  BY <1>1, <1>3, NoteType, TellClientSound

-----------------------------------------------------------------------------
(* Types.  A ticket belongs to the leader its LOCK_ENTERING came from, so  *)
(* nothing but a request ever comes from a client; f_tickets has one first *)
(* ticket because its tickets have keys of their own, and a last number    *)
(* because they are finitely many; and no leader writes to itself.         *)

Request == {m \in Message : m.type \in {"LOCK", "UNLOCK", "ABSOLUTELY"}}
ClientsAsk == \A c \in Client, l \in Leader : net[c][l] \in Seq(Request)
Tables == \A l \in Leader : IsFiniteSet(tickets[l]) /\ KeysDiffer(tickets[l])
NoEcho == \A l \in Leader : net[l][l] = <<>>

TypeInv == TypeOK /\ ClientsAsk /\ Tables /\ NoEcho

LEMMA InitTypes == Init => TypeInv
<1> SUFFICES ASSUME Init PROVE TypeInv
  OBVIOUS
<1>1. TypeOK
  BY DEF Init, TypeOK, ClientState
<1>2. ClientsAsk
  BY DEF Init, ClientsAsk, Node
<1>3. Tables
  BY FS_EmptySet DEF Init, Tables, KeysDiffer
<1>4. NoEcho
  BY DEF Init, NoEcho, Node
<1> QED
  BY <1>1, <1>2, <1>3, <1>4 DEF TypeInv

\* What a handler starts from.
LEMMA HereSound ==
  ASSUME TypeInv, NEW l \in Leader
  PROVE  Sound(l, Here(l)) /\ now \in Nat /\ Here(l).tickets = tickets[l]
BY StartSound DEF TypeInv, TypeOK, Tables, Here, Whole

\* What it has received; only leaders send anything but requests.
LEMMA ReceivedType ==
  ASSUME TypeInv, NEW s \in Node, NEW l \in Leader, NEW type, Arrived(s, l, type)
  PROVE  LET m == Received(s, l)
         IN  /\ m \in Message /\ m.key \in Key /\ m.key.client \in Client
             /\ m.key.number \in Number /\ m.value \in Nat
             /\ m.type = type /\ s # l
             /\ type \notin {"LOCK", "UNLOCK", "ABSOLUTELY"} => s \in Leader
<1>1. net[s][l] \in Seq(Message) /\ net[s][l] # <<>>
  BY DEF TypeInv, TypeOK, Arrived
<1>2. Received(s, l) \in Message /\ Received(s, l).type = type
  BY <1>1, HeadTailProperties DEF Arrived, Received
<1>3. ASSUME s \in Client PROVE Received(s, l) \in Request
  BY <1>1, <1>3, HeadTailProperties DEF TypeInv, ClientsAsk, Received
<1>4. s # l
  BY <1>1 DEF TypeInv, NoEcho
<1> QED
  BY <1>2, <1>3, <1>4 DEF Message, Key, Request, Node

LEMMA DoneTypes ==
  ASSUME TypeInv, NEW s \in Node, NEW l \in Leader, net[s][l] # <<>>,
         NEW D, Sound(l, D), Done(s, l, D)
  PROVE  TypeInv'
<1>0. Return(s, l, D)
  BY DEF Done, Sound
<1>1. /\ D.tickets \in SUBSET Ticket /\ IsFiniteSet(D.tickets) /\ KeysDiffer(D.tickets)
      /\ D.out[l] = <<>>
      /\ D.out \in [Leader -> Seq(Message)] /\ D.mail \in [Client -> Seq(Notice)]
  BY DEF Sound, Context
<1>2. \A n \in Node, d \in Leader :
        /\ net[n][d] \in Seq(Message)
        /\ net[n][d] # <<>> => Tail(net[n][d]) \in Seq(Message)
        /\ net[n][d] \o D.out[d] \in Seq(Message)
  BY <1>1, HeadTailProperties, ConcatProperties DEF TypeInv, TypeOK
<1>3. \A c \in Client, d \in Leader :
        /\ net[c][d] \in Seq(Request) /\ c # l
        /\ net[c][d] # <<>> => Tail(net[c][d]) \in Seq(Request)
  BY HeadTailProperties, DisjointAssumption DEF TypeInv, ClientsAsk
<1>4. \A c \in Client, d \in Leader :
        mail[c][d] \in Seq(Notice) /\ mail[c][d] \o D.mail[c] \in Seq(Notice)
  BY <1>1, ConcatProperties DEF TypeInv, TypeOK
<1>5. tickets' \in [Leader -> SUBSET Ticket] /\ Tables'
  BY <1>0, <1>1 DEF Return, Leave, TypeInv, TypeOK, Tables
<1>6. net' \in [Node -> [Leader -> Seq(Message)]]
  BY <1>0, <1>2 DEF Return, Leave
<1>7. ClientsAsk'
  BY <1>0, <1>3 DEF Return, Leave, ClientsAsk, Node
<1>8. mail' \in [Client -> [Leader -> Seq(Notice)]]
  BY <1>0, <1>4 DEF Return, Leave, Delivered, TypeInv, TypeOK
<1>9. NoEcho'
  <2>1. \A d \in Leader : net[d][d] = <<>> /\ <<>> \o <<>> = <<>>
    BY DEF TypeInv, NoEcho
  <2> QED BY <1>0, <1>1, <2>1 DEF Return, Leave, NoEcho, Node
<1> QED
  BY <1>0, <1>5, <1>6, <1>7, <1>8, <1>9 DEF Return, Leave, TypeInv, TypeOK

LEMMA StopTypes ==
  ASSUME TypeInv, NEW s \in Node, NEW l \in Leader, net[s][l] # <<>>, Stop(s, l)
  PROVE  TypeInv'
<1>1. Tail(net[s][l]) \in Seq(Message)
  BY HeadTailProperties DEF TypeInv, TypeOK
<1>2. s \in Client => Tail(net[s][l]) \in Seq(Request)
  BY HeadTailProperties DEF TypeInv, ClientsAsk
<1>3. net' \in [Node -> [Leader -> Seq(Message)]]
  BY <1>1 DEF Stop, TypeInv, TypeOK
<1>4. ClientsAsk'
  BY <1>2 DEF Stop, TypeInv, TypeOK, ClientsAsk, Node
<1>5. NoEcho'
  BY DEF Stop, TypeInv, TypeOK, NoEcho, Node
<1> QED
  BY <1>3, <1>4, <1>5 DEF Stop, TypeInv, TypeOK, Tables

LEMMA NewTicketType ==
  ASSUME NEW c \in Client, NEW owner \in Leader, NEW obtention \in Nat
  PROVE  LET t == NewTicket(c, owner, obtention)
         IN  /\ t \in Ticket /\ ~t.listed /\ t.entering /\ t.client = c
             /\ \A n \in Nat : LET u == [t EXCEPT !.alive = n]
                               IN  u \in Ticket /\ ~u.listed /\ u.entering
<1> DEFINE t == NewTicket(c, owner, obtention)
<1>1. t \in Ticket /\ ~t.listed /\ t.entering /\ t.client = c
  <2>1. 0 \in Number
    BY NumberAssumption DEF Number
  <2> QED BY <2>1 DEF NewTicket, Ticket
<1> HIDE DEF t
<1>2. ASSUME NEW n \in Nat
      PROVE  LET u == [t EXCEPT !.alive = n]
             IN  u \in Ticket /\ ~u.listed /\ u.entering
  BY <1>1 DEF Ticket
<1> QED
  BY <1>1, <1>2 DEF t

LEMMA MsgLockTypes ==
  ASSUME TypeInv, NEW s \in Node, NEW l \in Leader, MsgLock(s, l)
  PROVE  TypeInv'
<1> DEFINE m == Received(s, l)
           c == m.key.client
           D == Cleanup(Here(l))
           t == NewTicket(c, l, m.value)
           limit == IF now + AliveTimeout < m.value THEN now + AliveTimeout ELSE m.value
           waiting == [t EXCEPT !.alive = limit]
           E == [D EXCEPT !.tickets = @ \cup {waiting}]
           F == [D EXCEPT !.tickets = @ \cup {t}]
<1>1. net[s][l] # <<>> /\ c \in Client /\ m.value \in Nat
  <2>1. Arrived(s, l, "LOCK")
    BY DEF MsgLock
  <2> QED BY <2>1, ReceivedType DEF Arrived
<1>2. Sound(l, D) /\ now \in Nat
  BY HereSound, CleanupSound
<1>3. limit \in Nat
  BY <1>1, <1>2, NumberAssumption
<1>4. \/ Done(s, l, TellClient(D, c, Note("LOCK_FAILED")))
      \/ Done(s, l, D)
      \/ Done(s, l, Cleanup(TellClient(E, c, Note("ALIVE"))))
      \/ ~EnterOverflows(D, t) /\ Done(s, l, Cleanup(Enter(F, t)))
      \/ Stop(s, l)
  <2>1. PICK X \in Locking(D, m, CheckAlive) : Done(s, l, X)
    BY DEF MsgLock
  <2>2. D.me = l
    BY <1>2 DEF Sound
  <2>3. \/ X = TellClient(D, c, Note("LOCK_FAILED"))
        \/ X = D
        \/ ~Refused(D, m) /\ X = Cleanup(TellClient(E, c, Note("ALIVE")))
        \/ ~Refused(D, m) /\ ~EnterOverflows(D, t) /\ X = Cleanup(Enter(F, t))
        \/ X = Halt(D)
    BY <2>1, <2>2, Zenon DEF Locking
  <2>4. Halt(D).stopped
    BY <1>2 DEF Halt, Sound, Context
  <2>5. X = Halt(D) => Stop(s, l)
    BY <2>1, <2>4 DEF Done
  <2> HIDE DEF m, c, D, t, limit, waiting, E, F
  <2> QED BY <2>1, <2>3, <2>5
<1> HIDE DEF m, c, limit
<1>5. t \in Ticket /\ ~t.listed /\ t.entering
  BY <1>1, NewTicketType
<1>6. waiting \in Ticket /\ ~waiting.listed /\ waiting.entering
  BY <1>1, <1>3, NewTicketType
<1> HIDE DEF D, t, waiting
<1>7. Sound(l, TellClient(D, c, Note("LOCK_FAILED")))
  BY <1>2, NoteType, TellClientSound
<1>8. Sound(l, Cleanup(TellClient(E, c, Note("ALIVE"))))
  <2>1. Sound(l, E)
    BY <1>2, <1>6, AddSound
  <2> QED BY <1>2, <2>1, NoteType, TellClientSound, CleanupSound
<1>9. ~EnterOverflows(D, t) => Sound(l, Cleanup(Enter(F, t)))
  <2>1. Sound(l, F) /\ t \in F.tickets /\ (EnterOverflows(F, t) <=> EnterOverflows(D, t))
    BY <1>2, <1>5, AddSound
  <2> HIDE DEF F
  <2> QED BY <1>2, <1>5, <2>1, EnterSound, CleanupSound
<1> HIDE DEF E, F
<1> QED
  BY <1>1, <1>2, <1>4, <1>7, <1>8, <1>9, DoneTypes, StopTypes

LEMMA MsgAbsolutelyTypes ==
  ASSUME TypeInv, NEW s \in Node, NEW l \in Leader, MsgAbsolutely(s, l)
  PROVE  TypeInv'
<1> DEFINE c == Received(s, l).key.client
           D == Here(l)
           t == One(EnteringOf(D, c))
           u == [t EXCEPT !.alive = 0]
           old == [client |-> c, until |-> CurrentDate(t)]
           seen(v) == [v EXCEPT !.still =
                         {IF p = old THEN [p EXCEPT !.until = CurrentDate(u)] ELSE p : p \in @}]
           S == (D.tickets \ {t}) \cup {u}
           f == [v \in S |-> seen(v)]
           E == [D EXCEPT !.tickets = Range(f)]
<1>1. net[s][l] # <<>>
  BY DEF MsgAbsolutely, Arrived
<1>2. Sound(l, D) /\ now \in Nat /\ D.tickets \subseteq Ticket
  BY HereSound DEF Sound, Context
<1>3. \/ Done(s, l, D)
      \/ /\ EnteringOf(D, c) # {} /\ ~EnterOverflows(E, u)
         /\ Done(s, l, Enter(E, seen(u)))
      \/ Stop(s, l)
  <2>1. Range(f) = {seen(v) : v \in (D.tickets \ {t}) \cup {u}}
    BY DEF Range
  <2> QED BY <2>1, Zenon DEF MsgAbsolutely
<1>4. ASSUME EnteringOf(D, c) # {}, ~EnterOverflows(E, u)
      PROVE  Sound(l, Enter(E, seen(u)))
  <2>1. t \in D.tickets /\ t.entering /\ t \in Ticket
    BY <1>2, <1>4 DEF One, EnteringOf
  <2> HIDE DEF t, D
  <2>2. u \in Ticket /\ KeyOf(u) = KeyOf(t) /\ u.listed = t.listed /\ u.entering
    BY <2>1 DEF Ticket, KeyOf
  <2>3. CurrentDate(u) \in Nat
    BY <2>2 DEF CurrentDate, Ticket
  <2> HIDE DEF u, old
  <2>4. S \subseteq Ticket /\ IsFiniteSet(S) /\ KeysDiffer(S) /\ u \in S
    BY <1>2, <2>1, <2>2, FS_AddElement, FS_RemoveElement DEF Sound, KeysDiffer
  <2> HIDE DEF S
  <2>5. \A v \in Ticket : /\ seen(v) \in Ticket /\ KeyOf(seen(v)) = KeyOf(v)
                          /\ seen(v).listed = v.listed /\ seen(v).entering = v.entering
                          /\ seen(v).maxAsked = v.maxAsked /\ seen(v).added = v.added
    <3> SUFFICES ASSUME NEW v \in Ticket
                 PROVE  /\ seen(v) \in Ticket /\ KeyOf(seen(v)) = KeyOf(v)
                        /\ seen(v).listed = v.listed /\ seen(v).entering = v.entering
                        /\ seen(v).maxAsked = v.maxAsked /\ seen(v).added = v.added
      OBVIOUS
    <3> DEFINE still == {IF p = old THEN [p EXCEPT !.until = CurrentDate(u)] ELSE p : p \in v.still}
    <3>1. still \subseteq Pending
      BY <2>3 DEF Ticket, Pending
    <3>2. seen(v) = [v EXCEPT !.still = still]
      BY Zenon
    <3> HIDE DEF still
    <3> QED BY <3>1, <3>2 DEF Ticket, KeyOf
  <2> HIDE DEF seen
  <2>6. /\ f \in [S -> Ticket]
        /\ \A v \in S : KeyOf(f[v]) = KeyOf(v) /\ (f[v].listed => v.listed)
    BY <2>4, <2>5
  <2>7. seen(u) \in Range(f) /\ seen(u).entering
    BY <2>2, <2>4, <2>5 DEF Range
  <2> HIDE DEF f
  <2>8. Range(f) \subseteq Ticket /\ IsFiniteSet(Range(f)) /\ KeysDiffer(Range(f))
    BY <2>4, <2>6, ImageTable
  <2>9. Sound(l, E) /\ seen(u) \in E.tickets
    BY <1>2, <2>7, <2>8, TableSound
  <2>10. ~EnterOverflows(E, seen(u))
    BY <1>4, <2>2, <2>5 DEF EnterOverflows
  <2> HIDE DEF E
  <2> QED BY <1>2, <2>7, <2>9, <2>10, EnterSound
<1> HIDE DEF E, u, t, seen
<1> QED
  BY <1>1, <1>2, <1>3, <1>4, DoneTypes, StopTypes

LEMMA MsgUnlockTypes ==
  ASSUME TypeInv, NEW s \in Node, NEW l \in Leader, MsgUnlock(s, l)
  PROVE  TypeInv'
<1> DEFINE c == Received(s, l).key.client
           D == Here(l)
           t == First(ListedOf(D, c))
           gone == [t EXCEPT !.listed = FALSE, !.failed = IF @ = "NONE" THEN "UNLOCKING" ELSE @]
           E == Update(DropTicket(D, t), t, gone)
<1>1. net[s][l] # <<>>
  BY DEF MsgUnlock, Arrived
<1>2. Sound(l, D) /\ now \in Nat
  BY HereSound
<1>3. Done(s, l, Cleanup(IF ListedOf(D, c) = {} THEN D ELSE ActivateFirstLock(E)))
  BY DEF MsgUnlock
<1>4. ASSUME ListedOf(D, c) # {} PROVE Sound(l, E)
  <2>1. /\ ListedOf(D, c) \in SUBSET Ticket /\ ListedOf(D, c) \subseteq D.tickets
        /\ \A v, w \in ListedOf(D, c) : KeyOf(v) = KeyOf(w) => v = w
    BY <1>2 DEF ListedOf, Sound, Context, KeysDiffer
  <2>2. t \in D.tickets /\ t \in Ticket
    BY <1>4, <2>1, FirstExists
  <2> HIDE DEF t
  <2>3. gone \in Ticket /\ ~gone.listed
    BY <2>2 DEF Ticket
  <2>4. Sound(l, DropTicket(D, t)) /\ t \in DropTicket(D, t).tickets
    BY <1>2, <2>2, DropTicketSound
  <2> HIDE DEF gone
  <2> QED BY <2>3, <2>4, UpdateSound
<1> HIDE DEF E, D
<1>5. Sound(l, IF ListedOf(D, c) = {} THEN D ELSE ActivateFirstLock(E))
  BY <1>2, <1>4, ActivateFirstLockSound
<1> QED
  BY <1>1, <1>2, <1>3, <1>5, CleanupSound, DoneTypes

\* A set of entering tickets has the ticket that the handlers pick.
LEMMA PickedTypes ==
  ASSUME NEW l, NEW D, Sound(l, D), NEW S, S \subseteq D.tickets, S # {}
  PROVE  One(S) \in S /\ One(S) \in D.tickets /\ One(S) \in Ticket
BY DEF One, Sound, Context

\* A single leader has no other leader to hear from.
LEMMA OthersExist ==
  ASSUME NEW l \in Leader, NEW s \in Leader, s # l
  PROVE  Cardinality(Leader) # 1
BY LeaderAssumption, FS_Singleton

LEMMA MsgLockEnteringTypes ==
  ASSUME TypeInv, NEW s \in Node, NEW l \in Leader, MsgLockEntering(s, l)
  PROVE  TypeInv'
<1> DEFINE m == Received(s, l)
           c == m.key.client
           D == Here(l)
           t == NewTicket(c, s, m.value)
           E == IF EnteringOf(D, c) # {} THEN D ELSE [D EXCEPT !.tickets = @ \cup {t}]
           r == Msg("LOCK_ENTERED", m.key)
           F == IF m.value <= now \/ ~D.view.ready THEN D ELSE Cleanup(Tell(E, s, r))
<1>1. Arrived(s, l, "LOCK_ENTERING") /\ Done(s, l, F)
  BY DEF MsgLockEntering, Reply
<1>2. m.key \in Key /\ c \in Client /\ m.value \in Nat /\ s \in Leader /\ s # l /\ net[s][l] # <<>>
  BY <1>1, ReceivedType DEF Arrived
<1>3. Sound(l, D) /\ now \in Nat
  BY HereSound
<1> HIDE DEF m, D, c
<1>4. t \in Ticket /\ ~t.listed /\ t.entering
  BY <1>2, NewTicketType
<1>5. r \in Message
  BY <1>2, MsgType
<1> HIDE DEF t, r
<1>6. Sound(l, E)
  BY <1>3, <1>4, AddSound
<1> HIDE DEF E
<1>7. Sound(l, F)
  BY <1>2, <1>3, <1>5, <1>6, TellSound, CleanupSound
<1> HIDE DEF F
<1> QED
  BY <1>1, <1>2, <1>7, DoneTypes

LEMMA MsgLockEnteredTypes ==
  ASSUME TypeInv, NEW s \in Node, NEW l \in Leader, MsgLockEntered(s, l)
  PROVE  TypeInv'
<1> DEFINE D == Here(l)
           S == EnteringOf(D, Received(s, l).key.client)
           E == IF S = {} THEN D ELSE Entered(D, One(S))
<1>1. Arrived(s, l, "LOCK_ENTERED") /\ net[s][l] # <<>> /\ Done(s, l, E)
  BY DEF MsgLockEntered, Arrived
<1>2. Sound(l, D) /\ now \in Nat
  BY HereSound
<1>3. S \subseteq D.tickets /\ \A t \in S : t.entering
  BY DEF EnteringOf
<1> HIDE DEF D, S
<1>4. S # {} => One(S) \in S /\ One(S) \in D.tickets
  BY <1>2, <1>3, PickedTypes
<1>5. ~EnterOverflows(D, One(S))
  <2>1. ~OneLeader(D)
    BY <1>1, <1>2, ReceivedType, OthersExist, SoundAlone
  <2> QED BY <2>1 DEF EnterOverflows
<1>6. Sound(l, E)
  BY <1>2, <1>3, <1>4, <1>5, EnteredSound
<1> HIDE DEF E
<1> QED
  BY <1>1, <1>6, DoneTypes

LEMMA MsgGetMaxTicketTypes ==
  ASSUME TypeInv, NEW s \in Node, NEW l \in Leader, MsgGetMaxTicket(s, l)
  PROVE  TypeInv'
<1> DEFINE k == Received(s, l).key
           D == Cleanup(Here(l))
           r == [Msg("MAX_TICKET", k) EXCEPT !.value = LastTicket(D)]
<1>1. Arrived(s, l, "GET_MAX_TICKET") /\ Done(s, l, Tell(D, s, r))
  BY DEF MsgGetMaxTicket, Reply
<1>2. k \in Key /\ s # l /\ net[s][l] # <<>>
  BY <1>1, ReceivedType DEF Arrived
<1>3. Sound(l, D)
  BY HereSound, CleanupSound
<1> HIDE DEF D, k
<1>4. LastTicket(D) \in Nat
  BY <1>3, LastTicketType, NumberAssumption DEF Sound, Context, Number
<1>5. r \in Message
  BY <1>2, <1>4, MsgType
<1> HIDE DEF r
<1> QED
  BY <1>1, <1>2, <1>3, <1>5, TellSound, DoneTypes

LEMMA MsgMaxTicketTypes ==
  ASSUME TypeInv, NEW s \in Node, NEW l \in Leader, MsgMaxTicket(s, l)
  PROVE  TypeInv'
<1> DEFINE m == Received(s, l)
           n == m.value
           D == Here(l)
           S == EnteringOf(D, m.key.client)
<1>1. /\ Arrived(s, l, "MAX_TICKET")
      /\ \/ Done(s, l, D)
         \/ Stop(s, l)
         \/ S # {} /\ ~Overflows(One(S), n) /\ Done(s, l, MaxTicket(D, One(S), n))
  BY DEF MsgMaxTicket
<1>2. n \in Nat /\ net[s][l] # <<>>
  BY <1>1, ReceivedType DEF Arrived
<1>3. Sound(l, D) /\ now \in Nat
  BY HereSound
<1>4. S \subseteq D.tickets
  BY DEF EnteringOf
<1> HIDE DEF D, S, m, n
<1>5. S # {} => One(S) \in D.tickets
  BY <1>3, <1>4, PickedTypes
<1>6. S # {} /\ ~Overflows(One(S), n) => Sound(l, MaxTicket(D, One(S), n))
  BY <1>2, <1>3, <1>5, MaxTicketSound
<1> QED
  BY <1>1, <1>2, <1>3, <1>6, DoneTypes, StopTypes

LEMMA MsgAddTicketTypes ==
  ASSUME TypeInv, NEW s \in Node, NEW l \in Leader, MsgAddTicket(s, l)
  PROVE  TypeInv'
<1> DEFINE k == Received(s, l).key
           D == Here(l)
           S == EnteringOf(D, k.client)
           t == One(S)
           u == Numbered(t, k.number)
           E == Update(D, t, u)
           no == Msg("LOCK_FAILED", k)
           yes == Msg("TICKET_ADDED", k)
<1>1. /\ Arrived(s, l, "ADD_TICKET")
      /\ \/ Done(s, l, Tell(D, s, no))
         \/ Stop(s, l)
         \/ S # {} /\ ListedAs(D, k) = {} /\ Done(s, l, Tell(E, s, yes))
  BY DEF MsgAddTicket, Reply
<1>2. k \in Key /\ k.client \in Client /\ k.number \in Number /\ s # l /\ net[s][l] # <<>>
  BY <1>1, ReceivedType DEF Arrived
<1>3. Sound(l, D)
  BY HereSound
<1>4. yes \in Message /\ no \in Message
  BY <1>2, MsgType
<1>5. ASSUME S # {}, ListedAs(D, k) = {} PROVE Sound(l, E)
  <2>1. t \in D.tickets /\ t \in Ticket /\ t.client = k.client
    BY <1>3, <1>5, PickedTypes DEF EnteringOf
  <2> HIDE DEF t, D
  <2>2. u \in Ticket /\ KeyOf(u) = k
    BY <1>2, <2>1 DEF Numbered, Ticket, Key, KeyOf
  <2> HIDE DEF u
  <2>3. \A v \in D.tickets : v.listed => KeyOf(v) # KeyOf(u)
    BY <1>5, <2>2 DEF ListedAs
  <2> DEFINE T == (D.tickets \ {t}) \cup {u}
  <2>4. T \subseteq Ticket /\ IsFiniteSet(T) /\ KeysDiffer(T)
    BY <1>3, <2>2, <2>3, FS_AddElement, FS_RemoveElement DEF Sound, Context, KeysDiffer
  <2>5. E = [D EXCEPT !.tickets = Alive(T)]
    BY DEF Update
  <2> HIDE DEF T
  <2> QED BY <1>3, <2>4, <2>5, AliveTable, TableSound
<1> HIDE DEF D, S, t, u, E, k, yes, no
<1> QED
  BY <1>1, <1>2, <1>3, <1>4, <1>5, TellSound, DoneTypes, StopTypes

LEMMA MsgTicketAddedTypes ==
  ASSUME TypeInv, NEW s \in Node, NEW l \in Leader, MsgTicketAdded(s, l)
  PROVE  TypeInv'
<1> DEFINE D == Here(l)
           S == ListedAs(D, Received(s, l).key)
<1>1. /\ net[s][l] # <<>>
      /\ Done(s, l, D) \/ (S # {} /\ Done(s, l, TicketAdded(D, One(S))))
  BY DEF MsgTicketAdded, Arrived
<1>2. Sound(l, D) /\ now \in Nat /\ S \subseteq D.tickets
  BY HereSound DEF ListedAs
<1> HIDE DEF D, S
<1>3. S # {} => Sound(l, TicketAdded(D, One(S)))
  BY <1>2, PickedTypes, TicketAddedSound
<1> QED
  BY <1>1, <1>2, <1>3, DoneTypes

LEMMA MsgLockExitingTypes ==
  ASSUME TypeInv, NEW s \in Node, NEW l \in Leader, MsgLockExiting(s, l)
  PROVE  TypeInv'
BY HereSound, LockExitingSound, DoneTypes DEF MsgLockExiting, Arrived

LEMMA MsgTicketReadyTypes ==
  ASSUME TypeInv, NEW s \in Node, NEW l \in Leader, MsgTicketReady(s, l)
  PROVE  TypeInv'
<1> DEFINE D == Here(l)
           S == ListedAs(D, Received(s, l).key)
           t == One(S)
           u == [t EXCEPT !.ready = TRUE]
<1>1. /\ net[s][l] # <<>>
      /\ Done(s, l, D) \/ (S # {} /\ Done(s, l, Update(D, t, u)))
  BY DEF MsgTicketReady, Arrived
<1>2. Sound(l, D) /\ S \subseteq D.tickets
  BY HereSound DEF ListedAs
<1>3. S # {} => Sound(l, Update(D, t, u))
  <2> HIDE DEF D, S
  <2> SUFFICES ASSUME S # {} PROVE Sound(l, Update(D, t, u))
    OBVIOUS
  <2>1. t \in D.tickets /\ t \in Ticket
    BY <1>2, PickedTypes
  <2> HIDE DEF t
  <2>2. u \in Ticket /\ KeyOf(u) = KeyOf(t) /\ u.listed = t.listed
    BY <2>1 DEF Ticket, KeyOf
  <2> HIDE DEF u
  <2> QED BY <1>2, <2>1, <2>2, UpdateSound
<1> HIDE DEF D, S, u, t
<1> QED
  BY <1>1, <1>2, <1>3, DoneTypes

LEMMA MsgActivateLockTypes ==
  ASSUME TypeInv, NEW s \in Node, NEW l \in Leader, MsgActivateLock(s, l)
  PROVE  TypeInv'
<1> DEFINE k == Received(s, l).key
           D == ExpireListed(Here(l))
           none == Listed(D) = {}
           first == IF none THEN NoKey ELSE KeyOf(First(Listed(D)))
           E == IF ~none /\ first = k THEN LockActivated(D, First(Listed(D))) ELSE D
           r == [Msg("LOCK_ACTIVATED", k) EXCEPT !.other = first]
<1>1. Arrived(s, l, "ACTIVATE_LOCK") /\ Done(s, l, Cleanup(Tell(E, s, r)))
  BY DEF MsgActivateLock, Reply
<1>2. k \in Key /\ s # l /\ net[s][l] # <<>>
  BY <1>1, ReceivedType DEF Arrived
<1>3. Sound(l, D) /\ now \in Nat
  BY HereSound, ExpireListedSound
<1> HIDE DEF D, k
<1>4. ~none => First(Listed(D)) \in D.tickets
  BY <1>3, FirstListed
<1>5. first \in Key \cup {NoKey}
  BY <1>3, <1>4, KeyTypes DEF Sound, Context
<1>6. Sound(l, E)
  BY <1>3, <1>4, LockActivatedSound
<1> HIDE DEF first, E
<1>7. r \in Message
  BY <1>2, <1>5, MsgType
<1> HIDE DEF r
<1> QED
  BY <1>1, <1>2, <1>3, <1>6, <1>7, TellSound, CleanupSound, DoneTypes

LEMMA MsgLockActivatedTypes ==
  ASSUME TypeInv, NEW s \in Node, NEW l \in Leader, MsgLockActivated(s, l)
  PROVE  TypeInv'
<1> DEFINE D == Here(l)
           S == ListedAs(D, Received(s, l).key)
<1>1. /\ net[s][l] # <<>>
      /\ Done(s, l, D) \/ (S # {} /\ Done(s, l, LockActivated(D, One(S))))
  BY DEF MsgLockActivated, Arrived
<1>2. Sound(l, D) /\ now \in Nat /\ S \subseteq D.tickets
  BY HereSound DEF ListedAs
<1> HIDE DEF D, S
<1>3. S # {} => Sound(l, LockActivated(D, One(S)))
  BY <1>2, PickedTypes, LockActivatedSound
<1> QED
  BY <1>1, <1>2, <1>3, DoneTypes

LEMMA MsgDropTicketTypes ==
  ASSUME TypeInv, NEW s \in Node, NEW l \in Leader, MsgDropTicket(s, l)
  PROVE  TypeInv'
<1> DEFINE k == Received(s, l).key
           D == Here(l)
           A == {t \in D.tickets : t.listed /\ KeyOf(t) = k}
           dropped == Alive({IF t.listed /\ KeyOf(t) = k THEN [t EXCEPT !.listed = FALSE] ELSE t :
                               t \in D.tickets})
           E == IF Listed(D) = {} THEN D ELSE ActivateFirstLock([D EXCEPT !.tickets = dropped])
           B == {t \in E.tickets : t.client = k.client}
           left == Alive({IF t.client = k.client THEN [t EXCEPT !.entering = FALSE] ELSE t :
                            t \in E.tickets})
           F == [E EXCEPT !.tickets = left]
<1>1. net[s][l] # <<>> /\ Done(s, l, Cleanup(F))
  BY DEF MsgDropTicket, Arrived
<1>2. Sound(l, D) /\ now \in Nat
  BY HereSound
<1> HIDE DEF D, k
<1>3. Sound(l, [D EXCEPT !.tickets = dropped])
  <2>1. dropped = Alive({IF t \in A THEN [t EXCEPT !.listed = FALSE] ELSE t : t \in D.tickets})
    OBVIOUS
  <2> HIDE DEF A, dropped
  <2> QED BY <1>2, <2>1, ClearSound
<1> HIDE DEF dropped
<1>4. Sound(l, E)
  BY <1>2, <1>3, ActivateFirstLockSound
<1> HIDE DEF E
<1>5. Sound(l, F)
  <2>1. left = Alive({IF t \in B THEN [t EXCEPT !.entering = FALSE] ELSE t : t \in E.tickets})
    OBVIOUS
  <2> HIDE DEF B, left
  <2> QED BY <1>4, <2>1, ClearSound
<1> HIDE DEF F
<1> QED
  BY <1>1, <1>2, <1>5, CleanupSound, DoneTypes

LEMMA MsgLockFailedTypes ==
  ASSUME TypeInv, NEW s \in Node, NEW l \in Leader, MsgLockFailed(s, l)
  PROVE  TypeInv'
<1> DEFINE D == Here(l)
           S == ListedAs(D, Received(s, l).key)
           t == One(S)
           u == [t EXCEPT !.listed = FALSE]
           E == TellClient(Update(D, t, u), t.client, Note("LOCK_FAILED"))
           F == IF S = {} THEN D ELSE IF Listed(E) = {} THEN E ELSE ActivateFirstLock(E)
<1>1. net[s][l] # <<>> /\ Done(s, l, Cleanup(F))
  BY DEF MsgLockFailed, Arrived
<1>2. Sound(l, D) /\ now \in Nat /\ S \subseteq D.tickets
  BY HereSound DEF ListedAs
<1> HIDE DEF D, S
<1>3. ASSUME S # {} PROVE Sound(l, E)
  <2>1. t \in D.tickets /\ t \in Ticket
    BY <1>2, <1>3, PickedTypes
  <2> HIDE DEF t
  <2>2. u \in Ticket /\ ~u.listed
    BY <2>1, FlagTypes
  <2> HIDE DEF u
  <2>3. Sound(l, Update(D, t, u))
    BY <1>2, <2>1, <2>2, UpdateSound
  <2> QED BY <2>3, NoteType, TellClientSound
<1> HIDE DEF E
<1>4. Sound(l, F)
  BY <1>2, <1>3, ActivateFirstLockSound
<1> HIDE DEF F
<1>5. Sound(l, Cleanup(F))
  BY <1>2, <1>4, CleanupSound
<1> QED
  BY <1>1, <1>5, DoneTypes

LEMMA HandleTypes ==
  ASSUME TypeInv, NEW s \in Node, NEW l \in Leader, Handle(s, l)
  PROVE  TypeInv'
BY MsgLockTypes, MsgAbsolutelyTypes, MsgUnlockTypes, MsgLockEnteringTypes, MsgLockEnteredTypes,
   MsgGetMaxTicketTypes, MsgMaxTicketTypes, MsgAddTicketTypes, MsgTicketAddedTypes,
   MsgLockExitingTypes, MsgTicketReadyTypes, MsgActivateLockTypes, MsgLockActivatedTypes,
   MsgDropTicketTypes, MsgLockFailedTypes
DEF Handle

LEMMA TimerTypes ==
  ASSUME TypeInv, NEW l \in Leader, Timer(l)
  PROVE  TypeInv'
<1> DEFINE D == Cleanup(Here(l))
<1>1. Sound(l, D)
  BY HereSound, CleanupSound
<1>2. /\ tickets' = [tickets EXCEPT ![l] = D.tickets]
      /\ net' = [net EXCEPT ![l] = [d \in Leader |-> @[d] \o D.out[d]]]
      /\ mail' = Delivered(l, D)
      /\ UNCHANGED <<now, running, client, view>>
  BY <1>1 DEF Timer, Sound
<1> HIDE DEF D
<1>3. /\ D.tickets \in SUBSET Ticket /\ IsFiniteSet(D.tickets) /\ KeysDiffer(D.tickets)
      /\ D.out \in [Leader -> Seq(Message)] /\ D.mail \in [Client -> Seq(Notice)]
      /\ D.out[l] = <<>>
  BY <1>1 DEF Sound, Context
<1>4. \A d \in Leader : net[l][d] \o D.out[d] \in Seq(Message)
  BY <1>3, ConcatProperties DEF TypeInv, TypeOK, Node
<1>5. \A c \in Client : c # l
  BY DisjointAssumption
<1>6. \A c \in Client, d \in Leader :
        mail[c][d] \in Seq(Notice) /\ mail[c][d] \o D.mail[c] \in Seq(Notice)
  BY <1>3, ConcatProperties DEF TypeInv, TypeOK
<1>7. tickets' \in [Leader -> SUBSET Ticket] /\ Tables'
  BY <1>2, <1>3 DEF TypeInv, TypeOK, Tables
<1>8. net' \in [Node -> [Leader -> Seq(Message)]] /\ ClientsAsk'
  BY <1>2, <1>4, <1>5 DEF TypeInv, TypeOK, ClientsAsk, Node
<1>9. mail' \in [Client -> [Leader -> Seq(Notice)]]
  BY <1>2, <1>6 DEF Delivered, TypeInv, TypeOK
<1>10. NoEcho'
  <2>1. \A d \in Leader : net[d][d] = <<>> /\ <<>> \o <<>> = <<>>
    BY DEF TypeInv, NoEcho
  <2> QED BY <1>2, <1>3, <2>1 DEF TypeInv, TypeOK, NoEcho, Node
<1> QED
  BY <1>2, <1>7, <1>8, <1>9, <1>10 DEF TypeInv, TypeOK

-----------------------------------------------------------------------------
(* The clients.                                                            *)

\* A client's message makes the net of a client longer, nothing else.
LEMMA SendTypes ==
  ASSUME TypeInv, NEW c \in Client, NEW l \in Leader, NEW m \in Request, Send(c, l, m)
  PROVE  net' \in [Node -> [Leader -> Seq(Message)]] /\ ClientsAsk' /\ NoEcho'
<1>1. \A d \in Leader : d # c
  BY DisjointAssumption
<1>2. Append(net[c][l], m) \in Seq(Message) /\ Append(net[c][l], m) \in Seq(Request)
  BY AppendProperties DEF TypeInv, TypeOK, ClientsAsk, Node, Request
<1> QED
  BY <1>1, <1>2 DEF Send, TypeInv, TypeOK, ClientsAsk, NoEcho, Node

LEMMA RequestType ==
  ASSUME NEW c \in Client, NEW type \in {"LOCK", "UNLOCK", "ABSOLUTELY"}
  PROVE  /\ Msg(type, EnteringKey(c)) \in Request
         /\ \A v \in Nat : [Msg(type, EnteringKey(c)) EXCEPT !.value = v] \in Request
<1>1. EnteringKey(c) \in Key
  BY KeyTypes
<1>2. /\ Msg(type, EnteringKey(c)) \in Message
      /\ \A v \in Nat : [Msg(type, EnteringKey(c)) EXCEPT !.value = v] \in Message
  BY <1>1, MsgType
<1> QED
  BY <1>2 DEF Request, Msg

\* A client that waits for nothing, or for another date.
LEMMA ClientTypes ==
  ASSUME TypeInv, NEW c \in Client,
         NEW state \in {"IDLE", "LOCKING", "LOCKED", "UNLOCKING"}, NEW timer \in Nat
  PROVE  /\ [client EXCEPT ![c].state = state, ![c].timer = timer] \in [Client -> ClientState]
         /\ \A n, o \in Nat : 
              [client EXCEPT ![c].state = state, ![c].timer = timer, ![c].lockDate = n,
                             ![c].overDate = o] \in [Client -> ClientState]
         /\ [client EXCEPT ![c].state = state, ![c].timer = timer, ![c].lockDate = 0]
              \in [Client -> ClientState]
         /\ \A n \in Nat : [client EXCEPT ![c].state = state, ![c].timer = timer, ![c].tries = n]
                           \in [Client -> ClientState]
<1> DEFINE x == client[c]
<1>1. x \in ClientState /\ client \in [Client -> ClientState]
  BY DEF TypeInv, TypeOK
<1>2. [client EXCEPT ![c].state = state, ![c].timer = timer] \in [Client -> ClientState]
  <2> DEFINE y == [x EXCEPT !.state = state, !.timer = timer]
             A == [client EXCEPT ![c].state = state, ![c].timer = timer]
  <2>1. A = [client EXCEPT ![c] = y]
    BY <1>1
  <2>2. y \in ClientState
    BY <1>1 DEF ClientState
  <2> HIDE DEF y
  <2>3. A \in [Client -> ClientState]
    BY <1>1, <2>1, <2>2
  <2> QED BY <2>3
<1>3. ASSUME NEW n \in Nat, NEW o \in Nat
      PROVE  [client EXCEPT ![c].state = state, ![c].timer = timer, ![c].lockDate = n,
                            ![c].overDate = o] \in [Client -> ClientState]
  <2> DEFINE y == [x EXCEPT !.state = state, !.timer = timer, !.lockDate = n, !.overDate = o]
             A == [client EXCEPT ![c].state = state, ![c].timer = timer, ![c].lockDate = n, ![c].overDate = o]
  <2>1. A = [client EXCEPT ![c] = y]
    BY <1>1
  <2>2. y \in ClientState
    BY <1>1 DEF ClientState
  <2> HIDE DEF y
  <2>3. A \in [Client -> ClientState]
    BY <1>1, <2>1, <2>2
  <2> QED BY <2>3
<1>4. [client EXCEPT ![c].state = state, ![c].timer = timer, ![c].lockDate = 0]
        \in [Client -> ClientState]
  <2> DEFINE y == [x EXCEPT !.state = state, !.timer = timer, !.lockDate = 0]
             A == [client EXCEPT ![c].state = state, ![c].timer = timer, ![c].lockDate = 0]
  <2>1. A = [client EXCEPT ![c] = y]
    BY <1>1
  <2>2. y \in ClientState
    BY <1>1 DEF ClientState
  <2> HIDE DEF y
  <2>3. A \in [Client -> ClientState]
    BY <1>1, <2>1, <2>2
  <2> QED BY <2>3
<1>5. ASSUME NEW n \in Nat
      PROVE  [client EXCEPT ![c].state = state, ![c].timer = timer, ![c].tries = n]
               \in [Client -> ClientState]
  <2> DEFINE y == [x EXCEPT !.state = state, !.timer = timer, !.tries = n]
             A == [client EXCEPT ![c].state = state, ![c].timer = timer, ![c].tries = n]
  <2>1. A = [client EXCEPT ![c] = y]
    BY <1>1
  <2>2. y \in ClientState
    BY <1>1 DEF ClientState
  <2> HIDE DEF y
  <2>3. A \in [Client -> ClientState]
    BY <1>1, <2>1, <2>2
  <2> QED BY <2>3
<1> QED
  BY <1>2, <1>3, <1>4, <1>5

LEMMA LockTypes ==
  ASSUME TypeInv, NEW c \in Client, NEW l \in Leader, Lock(c, l)
  PROVE  TypeInv'
<1>1. now + Obtention \in Nat
  BY BakeryAssumption DEF TypeInv, TypeOK
<1> DEFINE date == now + Obtention
           m == [Msg("LOCK", EnteringKey(c)) EXCEPT !.value = date]
           n == client[c].tries + 1
<1>2. /\ client' = [client EXCEPT ![c].state = "LOCKING", ![c].timer = date, ![c].tries = n]
      /\ Send(c, l, m) /\ UNCHANGED <<now, running, tickets, mail, view>>
  BY DEF Lock
<1> HIDE DEF date
<1>3. m \in Request
  BY <1>1, RequestType DEF date
<1> HIDE DEF m
<1>4. client' \in [Client -> ClientState]
  <2>1. n \in Nat
    BY DEF TypeInv, TypeOK, ClientState
  <2> HIDE DEF n
  <2>2. date \in Nat
    BY <1>1 DEF date
  <2>3. \A i \in Nat : [client EXCEPT ![c].state = "LOCKING", ![c].timer = date, ![c].tries = i]
                        \in [Client -> ClientState]
    BY <2>2, ClientTypes
  <2> QED BY <1>2, <2>1, <2>3
<1>5. net' \in [Node -> [Leader -> Seq(Message)]] /\ ClientsAsk' /\ NoEcho'
  BY <1>2, <1>3, SendTypes
<1> QED
  BY <1>2, <1>4, <1>5 DEF TypeInv, TypeOK, Tables

\* cluck::unlock(), from the user, from a timeout or from an UNLOCKING.
LEMMA SendUnlockTypes ==
  ASSUME TypeInv, NEW c \in Client, NEW l \in Leader, SendUnlock(c, l)
  PROVE  /\ client' \in [Client -> ClientState]
         /\ net' \in [Node -> [Leader -> Seq(Message)]] /\ ClientsAsk' /\ NoEcho'
<1> DEFINE date == now + UnlockWait
           m == Msg("UNLOCK", EnteringKey(c))
<1>1. date \in Nat
  BY BakeryAssumption DEF TypeInv, TypeOK
<1>2. /\ client' = [client EXCEPT ![c].state = "UNLOCKING", ![c].timer = date, ![c].lockDate = 0]
      /\ Send(c, l, m)
  BY DEF SendUnlock
<1> HIDE DEF date
<1>3. m \in Request
  BY RequestType
<1> HIDE DEF m
<1> QED
  BY <1>1, <1>2, <1>3, ClientTypes, SendTypes

LEMMA BecomeTypes ==
  ASSUME TypeInv, NEW c \in Client, Become(c, "IDLE", 0), UNCHANGED net
  PROVE  /\ client' \in [Client -> ClientState]
         /\ net' \in [Node -> [Leader -> Seq(Message)]] /\ ClientsAsk' /\ NoEcho'
<1>1. client' \in [Client -> ClientState]
  BY ClientTypes DEF Become
<1> QED
  BY <1>1 DEF TypeInv, TypeOK, ClientsAsk, NoEcho

LEMMA UnlockTypes ==
  ASSUME TypeInv, NEW c \in Client, NEW l \in Leader, Unlock(c, l)
  PROVE  TypeInv'
BY SendUnlockTypes DEF Unlock, TypeInv, TypeOK, Tables

LEMMA ClientTimeoutTypes ==
  ASSUME TypeInv, NEW c \in Client, ClientTimeout(c)
  PROVE  TypeInv'
<1>1. /\ client' \in [Client -> ClientState]
      /\ net' \in [Node -> [Leader -> Seq(Message)]] /\ ClientsAsk' /\ NoEcho'
  BY SendUnlockTypes, BecomeTypes DEF ClientTimeout
<1> QED
  BY <1>1 DEF ClientTimeout, TypeInv, TypeOK, Tables

LEMMA HearTypes ==
  ASSUME TypeInv, NEW c \in Client, NEW l \in Leader, Hear(c, l)
  PROVE  TypeInv'
<1>1. /\ mail[c][l] \in Seq(Notice) /\ mail[c][l] # <<>>
      /\ mail' = [mail EXCEPT ![c][l] = Tail(@)]
      /\ UNCHANGED <<now, running, tickets, view>>
  BY DEF Hear, Deaf, HearAlive, HearLocked, HearLockFailed, HearUnlocked, HearUnlocking, Hears,
         TypeInv, TypeOK
<1>2. mail' \in [Client -> [Leader -> Seq(Notice)]]
  <2>1. Tail(mail[c][l]) \in Seq(Notice)
    BY <1>1, HeadTailProperties
  <2> QED BY <1>1, <2>1 DEF TypeInv, TypeOK
<1>3. /\ client' \in [Client -> ClientState]
      /\ net' \in [Node -> [Leader -> Seq(Message)]] /\ ClientsAsk' /\ NoEcho'
  <2>1. ASSUME UNCHANGED <<net, client>>
        PROVE  /\ client' \in [Client -> ClientState]
               /\ net' \in [Node -> [Leader -> Seq(Message)]] /\ ClientsAsk' /\ NoEcho'
    BY <2>1 DEF TypeInv, TypeOK, ClientsAsk, NoEcho
  <2>2. CASE Deaf(c, l)
    BY <2>1, <2>2 DEF Deaf
  <2>3. CASE HearAlive(c, l)
    BY <2>3, RequestType, SendTypes DEF HearAlive, TypeInv, TypeOK
  <2>4. CASE HearLocked(c, l)
    <3> DEFINE date == Head(mail[c][l]).date
    <3>1. date \in Nat /\ date + UnlockDuration \in Nat
      <4>1. Head(mail[c][l]) \in Notice
        BY <1>1, HeadTailProperties
      <4> QED BY <4>1, NumberAssumption DEF Notice
    <3>2. /\ client' = [client EXCEPT ![c].state = "LOCKED", ![c].timer = date,
                                    ![c].lockDate = date, ![c].overDate = date + UnlockDuration]
          /\ UNCHANGED net
      BY <2>4 DEF HearLocked
    <3> HIDE DEF date
    <3>3. client' \in [Client -> ClientState]
      <4>1. \A i, j \in Nat :
              [client EXCEPT ![c].state = "LOCKED", ![c].timer = date, ![c].lockDate = i,
                             ![c].overDate = j] \in [Client -> ClientState]
        BY <3>1, ClientTypes
      <4> DEFINE over == date + UnlockDuration
      <4>2. over \in Nat
        BY <3>1
      <4>3. client' = [client EXCEPT ![c].state = "LOCKED", ![c].timer = date, ![c].lockDate = date,
                                     ![c].overDate = over]
        BY <3>2
      <4> HIDE DEF over
      <4> QED BY <3>1, <4>1, <4>2, <4>3
    <3> QED BY <3>2, <3>3 DEF TypeInv, TypeOK, ClientsAsk, NoEcho
  <2>5. CASE HearLockFailed(c, l)
    BY <2>5, BecomeTypes DEF HearLockFailed
  <2>6. CASE HearUnlocked(c, l)
    BY <2>6, BecomeTypes DEF HearUnlocked
  <2>7. CASE HearUnlocking(c, l)
    BY <2>1, <2>7, BecomeTypes, SendUnlockTypes DEF HearUnlocking
  <2> QED BY <2>2, <2>3, <2>4, <2>5, <2>6, <2>7 DEF Hear
<1> QED
  BY <1>1, <1>2, <1>3 DEF TypeInv, TypeOK, Tables

LEMMA TickTypes == TypeInv /\ Tick => TypeInv'
BY DEF Tick, TypeInv, TypeOK, ClientsAsk, Tables, NoEcho

\* The handlers, the timer and the clients keep their data well typed.
LEMMA NextTypes == TypeInv /\ [Next]_vars => TypeInv'
<1> SUFFICES ASSUME TypeInv, [Next]_vars PROVE TypeInv'
  OBVIOUS
<1>1. ASSUME NEW s \in Node, NEW l \in Leader, Handle(s, l) PROVE TypeInv'
  BY <1>1, HandleTypes
<1>2. ASSUME NEW l \in Leader, Timer(l) PROVE TypeInv'
  BY <1>2, TimerTypes
<1>3. ASSUME NEW c \in Client, NEW l \in Leader, Lock(c, l) \/ Unlock(c, l) \/ Hear(c, l)
      PROVE  TypeInv'
  BY <1>3, LockTypes, UnlockTypes, HearTypes
<1>4. ASSUME NEW c \in Client, ClientTimeout(c) PROVE TypeInv'
  BY <1>4, ClientTimeoutTypes
<1>5. CASE Tick
  BY <1>5, TickTypes
<1>6. CASE UNCHANGED vars
  BY <1>6 DEF vars, TypeInv, TypeOK, ClientsAsk, Tables, NoEcho
<1> QED
  BY <1>1, <1>2, <1>3, <1>4, <1>5, <1>6 DEF Next

\* Every table, message and client object stays well typed, whatever the number of leaders,
\* clients and tries: in particular a ticket number never leaves its range (max_ticket() throws
\* first), and get_last_ticket() and find_first_lock() always have an answer.
THEOREM TypeCorrect == Spec => []TypeOK
<1>1. TypeInv => TypeOK
  BY DEF TypeInv
<1> QED
  BY <1>1, InitTypes, NextTypes, PTL DEF Spec

-----------------------------------------------------------------------------
(* The phases of CluckLock.                                                *)

Phases == [c \in Client |-> Phase(c)]

LEMMA InitPhases == Init => Abstract!Init
<1>1. Init => \A c \in Client : Phase(c) = "idle"
  BY DEF Init, Phase, IsLocked
<1> QED
  BY <1>1 DEF Abstract!Init

\* A step of one client.
LEMMA OneMoves ==
  ASSUME NEW c \in Client, \A d \in Client \ {c} : Phase(d)' = Phase(d),
         \/ Phase(c)' = Phase(c)
         \/ Phase(c) = "idle" /\ Phase(c)' = "waiting"
         \/ Phase(c) \in {"waiting", "holding"} /\ Phase(c)' = "idle"
         \/ /\ Phase(c) = "waiting" /\ Phase(c)' = "holding"
            /\ \A d \in Client : Phase(d) # "holding"
  PROVE  [Abstract!Next]_Phases
<1> DEFINE p == Phases
           r == Phases'
<1>1. p = [d \in Client |-> Phase(d)] /\ r = [d \in Client |-> Phase(d)']
  BY DEF Phases
<1>2. r = [p EXCEPT ![c] = Phase(c)']
  BY <1>1
<1>3. \A d \in Client : p[d] = Phase(d)
  BY <1>1
<1>4. CASE Phase(c)' = Phase(c)
  <2>1. r = p
    BY <1>1, <1>4
  <2> QED BY <2>1
<1>5. CASE Phase(c) = "idle" /\ Phase(c)' = "waiting"
  BY <1>2, <1>3, <1>5 DEF Abstract!Next, Abstract!Ask, Abstract!Enters, Phases
<1>6. CASE Phase(c) \in {"waiting", "holding"} /\ Phase(c)' = "idle"
  BY <1>2, <1>3, <1>6 DEF Abstract!Next, Abstract!GiveUp, Abstract!Release, Abstract!Enters, Phases
<1>7. CASE /\ Phase(c) = "waiting" /\ Phase(c)' = "holding"
           /\ \A d \in Client : Phase(d) # "holding"
  BY <1>2, <1>3, <1>7 DEF Abstract!Next, Abstract!Grant, Abstract!Free, Abstract!Enters, Phases
<1> QED
  BY <1>4, <1>5, <1>6, <1>7

\* Nobody notices.
LEMMA NoneMoves == ASSUME UNCHANGED <<now, client>> PROVE [Abstract!Next]_Phases
<1>1. \A c \in Client : Phase(c)' = Phase(c)
  BY DEF Phase, IsLocked
<1> QED
  BY <1>1 DEF Phases

LEMMA ClientMoves ==
  ASSUME TypeInv, NEW c \in Client, UNCHANGED now,
         \/ \E x \in Leader : SendUnlock(c, x)
         \/ Become(c, "IDLE", 0)
         \/ \E x \in Leader : Lock(c, x)
  PROVE  [Abstract!Next]_Phases
<1>1. client \in [Client -> ClientState]
  BY DEF TypeInv, TypeOK
<1>2. \A d \in Client \ {c} : client'[d] = client[d]
  BY <1>1 DEF SendUnlock, Become, Lock
<1>3. \A d \in Client \ {c} : Phase(d)' = Phase(d)
  BY <1>2 DEF Phase, IsLocked
<1>4. \/ client'[c].state \in {"UNLOCKING", "IDLE"}
      \/ client[c].state = "IDLE" /\ client'[c].state = "LOCKING"
  BY <1>1 DEF SendUnlock, Become, Lock, ClientState
<1>5. Phase(c) \in {"idle", "waiting", "holding"}
  BY DEF Phase
<1>6. \/ Phase(c)' = "idle"
      \/ Phase(c) = "idle" /\ Phase(c)' = "waiting"
  BY <1>4 DEF Phase, IsLocked
<1> QED
  BY <1>3, <1>5, <1>6, OneMoves

\* The clients see nothing of what a leader does.
LEMMA HandlesUnseen ==
  ASSUME NEW s \in Node, NEW l \in Leader, Handle(s, l)
  PROVE  UNCHANGED <<now, client>>
<1>1. Stop(s, l) => UNCHANGED <<now, client>>
  BY DEF Stop
<1>2. ASSUME NEW D, Done(s, l, D) PROVE UNCHANGED <<now, client>>
  BY <1>1, <1>2 DEF Done, Return, Leave
<1>3. MsgLock(s, l) => UNCHANGED <<now, client>>
  BY <1>2, Zenon DEF MsgLock
<1>4. MsgAbsolutely(s, l) => UNCHANGED <<now, client>>
  BY <1>1, <1>2, Zenon DEF MsgAbsolutely
<1>5. MsgMaxTicket(s, l) \/ MsgAddTicket(s, l) => UNCHANGED <<now, client>>
  BY <1>1, <1>2, Zenon DEF MsgMaxTicket, MsgAddTicket
<1>6. MsgUnlock(s, l) \/ MsgLockEntering(s, l) \/ MsgLockEntered(s, l) \/ MsgGetMaxTicket(s, l)
      => UNCHANGED <<now, client>>
  BY <1>2, Zenon DEF MsgUnlock, MsgLockEntering, MsgLockEntered, MsgGetMaxTicket
<1>7. \/ MsgTicketAdded(s, l) \/ MsgLockExiting(s, l) \/ MsgTicketReady(s, l)
      \/ MsgActivateLock(s, l) \/ MsgLockActivated(s, l)
      => UNCHANGED <<now, client>>
  BY <1>2, Zenon DEF MsgTicketAdded, MsgLockExiting, MsgTicketReady, MsgActivateLock,
                     MsgLockActivated
<1>8. MsgDropTicket(s, l) \/ MsgLockFailed(s, l) => UNCHANGED <<now, client>>
  BY <1>2, Zenon DEF MsgDropTicket, MsgLockFailed
<1> QED
  BY <1>3, <1>4, <1>5, <1>6, <1>7, <1>8 DEF Handle

\* Only who waits is given the lock.
LEMMA LockedMoves ==
  ASSUME TypeInv, MutualExclusion', NEW c \in Client, NEW l \in Leader, HearLocked(c, l),
         client[c].state = "LOCKING"
  PROVE  [Abstract!Next]_Phases
<1>1. client \in [Client -> ClientState] /\ UNCHANGED now
  BY DEF TypeInv, TypeOK, HearLocked, Hears
<1>2. client'[c].state = "LOCKED" /\ \A d \in Client \ {c} : client'[d] = client[d]
  BY <1>1 DEF HearLocked, ClientState
<1>3. \A d \in Client \ {c} : Phase(d)' = Phase(d) /\ (IsLocked(d)' <=> IsLocked(d))
  BY <1>1, <1>2 DEF Phase, IsLocked
<1>4. Phase(c) = "waiting" /\ Phase(c)' \in {"idle", "holding"}
  BY <1>2 DEF Phase
<1>5. Phase(c)' = "holding" => \A d \in Client : Phase(d) # "holding"
  <2> SUFFICES ASSUME Phase(c)' = "holding", NEW d \in Client, Phase(d) = "holding"
               PROVE  FALSE
    OBVIOUS
  <2>1. IsLocked(c)'
    BY <1>2 DEF Phase
  <2>2. d # c /\ IsLocked(d)
    BY <1>4 DEF Phase
  <2> QED BY <1>3, <2>1, <2>2 DEF MutualExclusion
<1> QED
  BY <1>3, <1>4, <1>5, OneMoves

\* Whoever had the lock for long enough loses it.
LEMMA TickMoves ==
  ASSUME TypeInv, MutualExclusion, Tick
  PROVE  [Abstract!Next]_Phases
<1>1. /\ client \in [Client -> ClientState] /\ now \in Nat /\ now' = now + 1 /\ client' = client
  BY DEF TypeInv, TypeOK, Tick
<1>2. \A d \in Client : client[d].lockDate \in Nat
  BY <1>1 DEF ClientState
<1>3. \A d \in Client : IsLocked(d)' => IsLocked(d)
  BY <1>1, <1>2 DEF IsLocked
<1>4. \A d \in Client : ~IsLocked(d) => Phase(d)' = Phase(d)
  BY <1>1, <1>3 DEF Phase
<1>5. CASE \E c \in Client : IsLocked(c)
  <2>1. PICK c \in Client : IsLocked(c)
    BY <1>5
  <2>2. \A d \in Client \ {c} : Phase(d)' = Phase(d)
    BY <1>4, <2>1 DEF MutualExclusion
  <2>3. Phase(c) = "holding" /\ Phase(c)' \in {"holding", "idle"}
    BY <1>1, <2>1 DEF Phase, IsLocked
  <2> QED BY <2>2, <2>3, OneMoves
<1>6. CASE \A c \in Client : ~IsLocked(c)
  BY <1>4, <1>6 DEF Phases
<1> QED
  BY <1>5, <1>6

LEMMA NextMoves ==
  ASSUME TypeInv, MutualExclusion, MutualExclusion', [Next]_vars,
         \A c \in Client, l \in Leader : HearLocked(c, l) => client[c].state = "LOCKING"
  PROVE  [Abstract!Next]_Phases
<1>1. ASSUME NEW s \in Node, NEW l \in Leader, Handle(s, l) PROVE UNCHANGED <<now, client>>
  BY <1>1, HandlesUnseen
<1>2. ASSUME NEW l \in Leader, Timer(l) PROVE UNCHANGED <<now, client>>
  BY <1>2 DEF Timer
<1>3. UNCHANGED vars => UNCHANGED <<now, client>>
  BY DEF vars
<1>4. ASSUME NEW c \in Client, NEW l \in Leader, Lock(c, l) \/ Unlock(c, l)
      PROVE  [Abstract!Next]_Phases
  <2>1. UNCHANGED now
    BY <1>4 DEF Lock, Unlock
  <2> QED BY <1>4, <2>1, ClientMoves DEF Unlock
<1>5. ASSUME NEW c \in Client, ClientTimeout(c) PROVE [Abstract!Next]_Phases
  BY <1>5, ClientMoves DEF ClientTimeout
<1>6. ASSUME NEW c \in Client, NEW l \in Leader, Hear(c, l) PROVE [Abstract!Next]_Phases
  <2>1. UNCHANGED now
    <3>1. \A type : Hears(c, l, type) => UNCHANGED now
      BY DEF Hears
    <3>2. Deaf(c, l) => UNCHANGED now
      BY <3>1 DEF Deaf
    <3> QED BY <1>6, <3>1, <3>2, Zenon
              DEF Hear, HearAlive, HearLocked, HearLockFailed, HearUnlocked, HearUnlocking
  <2>2. CASE HearLocked(c, l)
    BY <2>2, LockedMoves
  <2>3. CASE ~HearLocked(c, l)
    <3>1. \/ UNCHANGED client \/ Become(c, "IDLE", 0) \/ \E x \in Leader : SendUnlock(c, x)
      BY <1>6, <2>3 DEF Hear, Deaf, HearAlive, HearLockFailed, HearUnlocked, HearUnlocking
    <3> QED BY <2>1, <3>1, ClientMoves, NoneMoves
  <2> QED BY <2>2, <2>3
<1> QED
  BY <1>1, <1>2, <1>3, <1>4, <1>5, <1>6, NoneMoves, TickMoves DEF Next

=============================================================================
