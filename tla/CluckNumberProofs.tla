------------------------- MODULE CluckNumberProofs -------------------------
(***************************************************************************)
(* No exception stops a leader: a ticket gets one number, and no number    *)
(* wraps around, for any number of leaders.  Each client has one leader    *)
(* that owns its ticket, and all that gives this ticket its number comes   *)
(* from there; every ticket number given out is as small as the number of  *)
(* clients that have theirs.  A client locks once: its second ticket would *)
(* meet the messages of the first one.                                     *)
(***************************************************************************)
EXTENDS CluckBakeryProofs

-----------------------------------------------------------------------------
(* The messages that a ticket is made and numbered with.                   *)

Vital == {"LOCK", "ABSOLUTELY", "LOCK_ENTERING", "LOCK_ENTERED", "GET_MAX_TICKET", "MAX_TICKET",
          "ADD_TICKET"}

\* Where a queue has those of a client.
Mine(q, c) == {i \in DOMAIN q : q[i].type \in Vital /\ q[i].key.client = c}
Kind(q, c, type) == {i \in DOMAIN q : q[i].type = type /\ q[i].key.client = c}

\* What the clients have of numbers, those of W not having theirs yet.
Given(W) == Cardinality(Client \ W)

\* A message m of client c, from s to l: h is the one leader that owns the client's ticket.
Routed(c, h, W, s, l, m) ==
  /\ m.type \in {"LOCK", "ABSOLUTELY"} => s = c /\ l = h
  /\ m.type \in {"LOCK_ENTERING", "GET_MAX_TICKET", "ADD_TICKET"} => s = h
  /\ m.type \in {"LOCK_ENTERED", "MAX_TICKET"} => l = h
  /\ m.type = "MAX_TICKET" => m.value <= Given(W)
  /\ m.type = "ADD_TICKET" => m.key.number <= Given(W)

Questioned(q) == \E n \in Range(q) : n.type = "ALIVE"
Single(S, c) == \A t, u \in S : t.client = c /\ u.client = c => t = u
Plain(S, c) == \A t \in S : t.client = c => t.number = 0 /\ ~t.added
Counted(S, c) == \A t \in S : t.client = c => t.added

\* A world is what the leaders have, what is on its way and who has locked.
World == [tickets : [Leader -> SUBSET Ticket],
          net     : [Node -> [Leader -> Seq(Message)]],
          mail    : [Client -> [Leader -> Seq(Notice)]],
          tries   : [Client -> Nat]]
Now == [tickets |-> tickets, net |-> net, mail |-> mail,
        tries |-> [c \in Client |-> client[c].tries]]

\* The client did not lock yet, or its LOCK was not read; then nobody knows of it.
New(c, h, w) == w.tries[c] = 0 \/ Kind(w.net[c][h], c, "LOCK") # {}
Untold(c, w) ==
  /\ \A l \in Leader : ~Questioned(w.mail[c][l]) /\ \A t \in w.tickets[l] : t.client # c
  /\ \A s \in Node, l \in Leader : \A i \in Mine(w.net[s][l], c) : w.net[s][l][i].type = "LOCK"

\* The numbers of one client, whose ticket leader h owns.
Placed(c, h, W, w) ==
  /\ \A s \in Node, l \in Leader : \A i \in Mine(w.net[s][l], c) :
       Routed(c, h, W, s, l, w.net[s][l][i])
  /\ \A l \in Leader : /\ Questioned(w.mail[c][l]) => l = h
                       /\ \A t \in w.tickets[l] :
                            t.client = c => t.owner = h /\ t.number <= Given(W)
  /\ Single(w.tickets[h], c)
Once(c, h, w) ==
  /\ New(c, h, w) => Untold(c, w)
  /\ w.tries[c] = 0 => Kind(w.net[c][h], c, "LOCK") = {}
  /\ \A i, j \in Kind(w.net[c][h], c, "LOCK") : i = j
Added(c, h, W, w) ==
  /\ ~Counted(w.tickets[h], c) =>
       \A l \in Leader : /\ Kind(w.net[h][l], c, "ADD_TICKET") = {}
                         /\ l # h => Plain(w.tickets[l], c)
  /\ \A l \in Leader \ {h} :
       /\ \A i, j \in Kind(w.net[h][l], c, "ADD_TICKET") : i = j
       /\ Kind(w.net[h][l], c, "ADD_TICKET") # {} => Plain(w.tickets[l], c)
  /\ c \notin W => ~New(c, h, w) /\ Counted(w.tickets[h], c)
Orderly(c, h, W, w) == Placed(c, h, W, w) /\ Once(c, h, w) /\ Added(c, h, W, w)

Numbering(home, W, w) == \A c \in Client : Orderly(c, home[c], W, w)

NumberInv ==
  /\ TypeInv
  /\ running = Leader
  /\ \E home \in [Client -> Leader], W \in SUBSET Client : Numbering(home, W, Now)

-----------------------------------------------------------------------------
(* Worlds where a client meets nothing new.                                *)

\* The messages of a client in r are those of q, as many as are left.
Fewer(c, r, q) ==
  \E k \in {0, 1} : \A i \in Mine(r, c) : i \in Nat /\ i + k \in Mine(q, c) /\ r[i] = q[i + k]

Alike(u, t) == u.client = t.client /\ u.owner = t.owner /\ u.number = t.number /\ u.added = t.added

Calmer(c, v, w) ==
  /\ \A l \in Leader : /\ \A u \in v.tickets[l] : u.client = c => \E t \in w.tickets[l] : Alike(u, t)
                       /\ Single(w.tickets[l], c) => Single(v.tickets[l], c)
                       /\ Questioned(v.mail[c][l]) => Questioned(w.mail[c][l])
  /\ \A s \in Node, l \in Leader : Fewer(c, v.net[s][l], w.net[s][l])
  /\ v.tries[c] = w.tries[c]

LEMMA FewerKind ==
  ASSUME NEW c, NEW r, NEW q, Fewer(c, r, q), NEW type \in Vital
  PROVE  /\ Kind(q, c, type) = {} => Kind(r, c, type) = {}
         /\ (\A i, j \in Kind(q, c, type) : i = j) => \A i, j \in Kind(r, c, type) : i = j
<1>1. PICK k \in {0, 1} : \A i \in Mine(r, c) : i \in Nat /\ i + k \in Mine(q, c) /\ r[i] = q[i + k]
  BY DEF Fewer
<1>2. \A i \in Kind(r, c, type) : i \in Nat /\ i + k \in Kind(q, c, type)
  BY <1>1 DEF Kind, Mine
<1> QED
  BY <1>2

LEMMA CalmerUntold ==
  ASSUME NEW c \in Client, NEW v, NEW w, Calmer(c, v, w), Untold(c, w)
  PROVE  Untold(c, v)
<1>1. \A s \in Node, l \in Leader : \A i \in Mine(v.net[s][l], c) : v.net[s][l][i].type = "LOCK"
  BY DEF Calmer, Untold, Fewer
<1> QED
  BY <1>1 DEF Calmer, Untold, Alike

LEMMA CalmerNew ==
  ASSUME NEW c \in Client, NEW h \in Leader, NEW v, NEW w, Calmer(c, v, w), ~New(c, h, w)
  PROVE  ~New(c, h, v)
<1>1. Fewer(c, v.net[c][h], w.net[c][h]) /\ "LOCK" \in Vital
  BY DEF Calmer, Node, Vital
<1> QED
  BY <1>1, FewerKind DEF New, Calmer

LEMMA CalmerOrderly ==
  ASSUME NEW c \in Client, NEW h \in Leader, NEW W, NEW v, NEW w, Calmer(c, v, w), Orderly(c, h, W, w)
  PROVE  Orderly(c, h, W, v)
<1>1. /\ \A s \in Node, l \in Leader : Fewer(c, v.net[s][l], w.net[s][l])
      /\ c \in Node /\ h \in Node /\ "LOCK" \in Vital /\ "ADD_TICKET" \in Vital
  BY DEF Calmer, Node, Vital
<1>2. Placed(c, h, W, v)
  <2>1. \A s \in Node, l \in Leader : \A i \in Mine(v.net[s][l], c) :
          Routed(c, h, W, s, l, v.net[s][l][i])
    BY <1>1 DEF Orderly, Placed, Fewer
  <2> QED BY <2>1 DEF Orderly, Placed, Calmer, Alike
<1>3. Once(c, h, v)
  <2>1. New(c, h, v) => Untold(c, v)
    BY CalmerUntold, CalmerNew DEF Orderly, Once
  <2> QED BY <1>1, <2>1, FewerKind DEF Orderly, Once, Calmer
<1>4. Counted(w.tickets[h], c) => Counted(v.tickets[h], c)
  BY DEF Counted, Calmer, Alike
<1>5. \A l \in Leader : Plain(w.tickets[l], c) => Plain(v.tickets[l], c)
  BY DEF Plain, Calmer, Alike
<1>6. \A l \in Leader : LET a == Kind(v.net[h][l], c, "ADD_TICKET")
                            b == Kind(w.net[h][l], c, "ADD_TICKET")
                        IN  (b = {} => a = {}) /\ ((\A i, j \in b : i = j) => \A i, j \in a : i = j)
  BY <1>1, FewerKind
<1>7. Added(c, h, W, v)
  BY <1>4, <1>5, <1>6, CalmerNew DEF Orderly, Added
<1> QED
  BY <1>2, <1>3, <1>7 DEF Orderly

-----------------------------------------------------------------------------
(* What a handler does without making a ticket or giving it a number.      *)

Idle == {m \in Message : m.type \notin Vital}
Silent == {n \in Notice : n.type # "ALIVE"}

\* Some of S were added to a queue.
Grown(r, q, S) == \E s \in Seq(S) : r = q \o s

Tame(D, E) ==
  /\ \A u \in E.tickets : \E t \in D.tickets : Alike(u, t)
  /\ \A c \in Client : Single(D.tickets, c) => Single(E.tickets, c)
  /\ \A d \in Leader : Grown(E.out[d], D.out[d], Idle)
  /\ \A c \in Client : Grown(E.mail[c], D.mail[c], Silent)

LEMMA GrownItself == ASSUME NEW T, NEW q \in Seq(T), NEW S PROVE Grown(q, q, S)
<1>1. <<>> \in Seq(S) /\ q = q \o <<>>
  BY ConcatEmptySeq
<1> QED
  BY <1>1 DEF Grown

LEMMA GrownByOne == ASSUME NEW T, NEW q \in Seq(T), NEW S, S \subseteq T, NEW m \in S
                    PROVE  Grown(Append(q, m), q, S)
<1>1. <<m>> \in Seq(S) /\ Append(q, m) = q \o <<m>>
  BY AppendIsConcat
<1> QED
  BY <1>1 DEF Grown

LEMMA Associative ==
  ASSUME NEW T, NEW p \in Seq(T), NEW y \in Seq(T), NEW z \in Seq(T)
  PROVE  (p \o y) \o z = p \o (y \o z)
BY ConcatAssociative

LEMMA GrownTwice ==
  ASSUME NEW T, NEW q \in Seq(T), NEW S, S \subseteq T, NEW r, Grown(r, q, S), NEW x, Grown(x, r, S)
  PROVE  Grown(x, q, S)
<1>1. PICK a \in Seq(S) : r = q \o a
  BY DEF Grown
<1>2. PICK b \in Seq(S) : x = r \o b
  BY DEF Grown
<1>3. a \in Seq(T) /\ b \in Seq(T)
  OBVIOUS
<1>4. a \o b \in Seq(S)
  BY ConcatProperties
<1>5. x = q \o (a \o b)
  <2>1. (q \o a) \o b = q \o (a \o b)
    BY <1>3, Associative
  <2> QED BY <1>1, <1>2, <2>1
<1> QED
  BY <1>4, <1>5 DEF Grown

LEMMA NothingAdded ==
  ASSUME NEW l, NEW D, Sound(l, D)
  PROVE  /\ \A d \in Leader : Grown(D.out[d], D.out[d], Idle)
         /\ \A c \in Client : Grown(D.mail[c], D.mail[c], Silent)
<1>1. D.out \in [Leader -> Seq(Message)] /\ D.mail \in [Client -> Seq(Notice)]
  BY DEF Sound, Context
<1> QED
  BY <1>1, GrownItself

LEMMA TameItself == ASSUME NEW l, NEW D, Sound(l, D) PROVE Tame(D, D)
BY NothingAdded DEF Tame, Alike

LEMMA TameTwice ==
  ASSUME NEW l, NEW D, Sound(l, D), NEW E, Tame(D, E), NEW F, Tame(E, F)
  PROVE  Tame(D, F)
<1>1. /\ D.out \in [Leader -> Seq(Message)] /\ D.mail \in [Client -> Seq(Notice)]
      /\ Idle \subseteq Message /\ Silent \subseteq Notice
  BY DEF Sound, Context, Idle, Silent
<1>2. \A d \in Leader : Grown(F.out[d], D.out[d], Idle)
  BY <1>1, GrownTwice DEF Tame
<1>3. \A c \in Client : Grown(F.mail[c], D.mail[c], Silent)
  BY <1>1, GrownTwice DEF Tame
<1>4. \A u \in F.tickets : \E t \in D.tickets : Alike(u, t)
  BY DEF Tame, Alike
<1> QED
  BY <1>2, <1>3, <1>4 DEF Tame

\* The tickets of a table one by one, some of them gone.
LEMMA ImageAlike ==
  ASSUME NEW S, NEW T, NEW f \in [S -> T], \A t \in S : Alike(f[t], t), NEW U \in SUBSET Range(f)
  PROVE  /\ \A u \in U : \E t \in S : Alike(u, t)
         /\ \A c : Single(S, c) => Single(U, c)
<1>1. \A u \in U : \E t \in S : u = f[t]
  BY DEF Range
<1>2. ASSUME NEW c, Single(S, c) PROVE Single(U, c)
  <2> SUFFICES ASSUME NEW x \in U, NEW y \in U, x.client = c, y.client = c PROVE x = y
    BY DEF Single
  <2>1. PICK t \in S : x = f[t] /\ t.client = c
    BY <1>1 DEF Alike
  <2>2. PICK u \in S : y = f[u] /\ u.client = c
    BY <1>1 DEF Alike
  <2> QED BY <1>2, <2>1, <2>2 DEF Single
<1> QED
  BY <1>1, <1>2

LEMMA TameMap ==
  ASSUME NEW l, NEW D, Sound(l, D), NEW T, NEW f \in [D.tickets -> T],
         \A t \in D.tickets : Alike(f[t], t), NEW E, E.tickets \in SUBSET Range(f),
         E.out = D.out,
         \A c \in Client : Grown(E.mail[c], D.mail[c], Silent)
  PROVE  Tame(D, E)
BY NothingAdded, ImageAlike DEF Tame

LEMMA TameTable ==
  ASSUME NEW l, NEW D, Sound(l, D), NEW T, NEW f \in [D.tickets -> T],
         \A t \in D.tickets : Alike(f[t], t), NEW E, E.tickets \in SUBSET Range(f),
         E.out = D.out, E.mail = D.mail
  PROVE  Tame(D, E)
BY NothingAdded, TameMap

LEMMA TameUpdate ==
  ASSUME NEW l, NEW D, Sound(l, D), NEW t \in D.tickets, NEW u, Alike(u, t)
  PROVE  Tame(D, Update(D, t, u))
<1> DEFINE f == [v \in D.tickets |-> IF v = t THEN u ELSE v]
           E == Update(D, t, u)
<1>1. f \in [D.tickets -> Range(f)]
  BY DEF Range
<1>2. \A v \in D.tickets : Alike(f[v], v)
  BY DEF Alike
<1>3. E.tickets \in SUBSET Range(f) /\ E.out = D.out /\ E.mail = D.mail
  <2>1. Range(f) = (D.tickets \ {t}) \cup {u}
    BY DEF Range
  <2> HIDE DEF f
  <2> QED BY <2>1 DEF Update, Alive, Sound, Context
<1> HIDE DEF f, E
<1> QED
  BY <1>1, <1>2, <1>3, TameTable DEF E

LEMMA TameTell ==
  ASSUME NEW l, NEW D, Sound(l, D), NEW c, NEW n \in Silent
  PROVE  Tame(D, TellClient(D, c, n))
<1> DEFINE E == TellClient(D, c, n)
<1>1. /\ D.mail \in [Client -> Seq(Notice)] /\ E.tickets = D.tickets /\ E.out = D.out
      /\ E.mail = [D.mail EXCEPT ![c] = Append(@, n)] /\ n \in Notice
  BY DEF TellClient, Sound, Context, Silent
<1>2. \A d \in Client : Grown(E.mail[d], D.mail[d], Silent)
  <2>1. Silent \subseteq Notice
    BY DEF Silent
  <2>2. \A d \in Client : E.mail[d] = IF d = c THEN Append(D.mail[d], n) ELSE D.mail[d]
    BY <1>1
  <2>3. \A d \in Client : Grown(Append(D.mail[d], n), D.mail[d], Silent)
    BY <1>1, <2>1, GrownByOne
  <2> QED BY <2>2, <2>3, NothingAdded
<1> HIDE DEF E
<1>3. Tame(D, E)
  BY <1>1, <1>2, NothingAdded DEF Tame, Alike
<1> QED
  BY <1>3 DEF E

LEMMA TameReply ==
  ASSUME NEW l, NEW D, Sound(l, D), NEW d \in Leader, NEW m \in Idle
  PROVE  Tame(D, Tell(D, d, m))
<1> DEFINE E == Tell(D, d, m)
<1>1. /\ D.out \in [Leader -> Seq(Message)] /\ E.tickets = D.tickets /\ E.mail = D.mail
      /\ E.out = [D.out EXCEPT ![d] = Append(@, m)] /\ m \in Message
  BY DEF Tell, Sound, Context, Idle
<1>2. \A e \in Leader : Grown(E.out[e], D.out[e], Idle)
  <2>1. Idle \subseteq Message
    BY DEF Idle
  <2>2. \A e \in Leader : E.out[e] = IF e = d THEN Append(D.out[e], m) ELSE D.out[e]
    BY <1>1
  <2>3. \A e \in Leader : Grown(Append(D.out[e], m), D.out[e], Idle)
    BY <1>1, <2>1, GrownByOne
  <2> QED BY <2>2, <2>3, NothingAdded
<1> HIDE DEF E
<1>3. Tame(D, E)
  BY <1>1, <1>2, NothingAdded DEF Tame, Alike
<1> QED
  BY <1>3 DEF E

LEMMA TameSend ==
  ASSUME NEW l, NEW D, Sound(l, D), NEW s \in Seq(Idle)
  PROVE  Tame(D, SendAllToLeaders(D, s))
<1> DEFINE E == SendAllToLeaders(D, s)
<1>1. /\ D.out \in [Leader -> Seq(Message)] /\ E.tickets = D.tickets /\ E.mail = D.mail
      /\ \A d \in Leader : E.out[d] \in {D.out[d], D.out[d] \o s}
  BY DEF SendAllToLeaders, Sound, Context
<1> HIDE DEF E
<1>2. \A e \in Leader : Grown(E.out[e], D.out[e], Idle)
  <2>1. \A e \in Leader : Grown(D.out[e] \o s, D.out[e], Idle)
    BY DEF Grown
  <2> QED BY <1>1, <2>1, NothingAdded
<1>3. Tame(D, E)
  BY <1>1, <1>2, NothingAdded DEF Tame, Alike
<1> QED
  BY <1>3 DEF E

LEMMA TameSendOne ==
  ASSUME NEW l, NEW D, Sound(l, D), NEW m \in Idle
  PROVE  Tame(D, SendToLeaders(D, m))
<1>1. <<m>> \in Seq(Idle)
  OBVIOUS
<1> QED
  BY <1>1, TameSend DEF SendToLeaders


\* lock_failed() says anything but ALIVE.
LEMMA ComplaintsSilent ==
  ASSUME NEW l, NEW D, Sound(l, D), NEW late \in SUBSET D.tickets, NEW c \in Client
  PROVE  Grown(Complaints(D, late)[c], D.mail[c], Silent)
<1> DEFINE T == {u \in late : u.client = c}
           W == UNION {FailNotice(D.me, t) : t \in T}
           f == [t \in T |-> FailNotice(D.me, t)]
<1>1. IsFiniteSet(T)
  BY FS_Subset DEF Sound
<1>2. IsFiniteSet(Range(f))
  <2> f \in [T -> SUBSET Notice]
    BY FailNoticeType
  <2> HIDE DEF T, f
  <2> QED BY <1>1, FiniteImage
<1>3. W = UNION Range(f)
  BY DEF Range
<1>4. IsFiniteSet(W)
  <2>1. \A X \in Range(f) : IsFiniteSet(X)
    BY FailNoticeType DEF Range
  <2> HIDE DEF T, f
  <2> QED BY <1>2, <1>3, <2>1, FS_UNION
<1>5. W \subseteq Silent
  <2>1. \A type \in {"LOCK_FAILED", "UNLOCKING", "UNLOCKED"} : Note(type) \in Silent
    BY DEF Note, Silent, Notice
  <2>2. \A t : FailNotice(D.me, t) \subseteq Silent
    BY <2>1 DEF FailNotice
  <2> QED BY <2>2
<1>6. SetToSeq(W) \in Seq(Silent)
  BY <1>4, <1>5, SetToSeqType
<1>7. Complaints(D, late)[c] = D.mail[c] \o SetToSeq(W)
  BY DEF Complaints
<1> QED
  BY <1>6, <1>7 DEF Grown

LEMMA FailAlike ==
  ASSUME NEW t \in Ticket, NEW b
  PROVE  Alike([Fail(t) EXCEPT !.listed = b], t) /\ Alike([Fail(t) EXCEPT !.entering = b], t)
<1> DEFINE u == Fail(t)
<1>1. u \in Ticket /\ Alike(u, t)
  BY FailType DEF Fail, Ticket, Alike
<1> HIDE DEF u
<1> QED
  BY <1>1 DEF Alike, Ticket, u

LEMMA ExpireListedTame ==
  ASSUME NEW l, NEW D, Sound(l, D)
  PROVE  Tame(D, ExpireListed(D))
<1> DEFINE late == {t \in Listed(D) : TimedOut(t)}
           f == [t \in D.tickets |-> IF t \in late
                                     THEN [Fail(t) EXCEPT !.listed = ~TimedOut(Fail(t))] ELSE t]
           E == ExpireListed(D)
<1>1. \A t \in D.tickets : Alike(f[t], t)
  <2>1. \A t \in D.tickets : t \in Ticket
    BY DEF Sound, Context
  <2> QED BY <2>1, FailAlike DEF Alike
<1>2. E.tickets = Alive(Range(f)) /\ E.mail = Complaints(D, late) /\ E.out = D.out
  <2>1. Range(f) = {IF t \in late THEN [Fail(t) EXCEPT !.listed = ~TimedOut(Fail(t))] ELSE t :
                      t \in D.tickets}
    BY DEF Range
  <2> HIDE DEF f
  <2> QED BY <2>1 DEF ExpireListed, Sound, Context
<1>3. late \in SUBSET D.tickets
  BY DEF Listed
<1>4. f \in [D.tickets -> Range(f)]
  BY DEF Range
<1> HIDE DEF f, late, E
<1>5. E.tickets \in SUBSET Range(f)
  BY <1>2 DEF Alive
<1>6. \A c \in Client : Grown(E.mail[c], D.mail[c], Silent)
  BY <1>2, <1>3, ComplaintsSilent
<1> QED
  BY <1>1, <1>2, <1>4, <1>5, <1>6, TameMap DEF E

LEMMA ExpireEnteringTame ==
  ASSUME NEW l, NEW D, Sound(l, D)
  PROVE  Tame(D, ExpireEntering(D))
<1> DEFINE late == {t \in D.tickets : t.entering /\ TimedOut(t)}
           f == [t \in D.tickets |-> IF t \in late
                                     THEN [Fail(t) EXCEPT !.entering = ~TimedOut(Fail(t))] ELSE t]
           E == ExpireEntering(D)
<1>1. \A t \in D.tickets : Alike(f[t], t)
  <2>1. \A t \in D.tickets : t \in Ticket
    BY DEF Sound, Context
  <2> QED BY <2>1, FailAlike DEF Alike
<1>2. E.tickets = Alive(Range(f)) /\ E.mail = Complaints(D, late) /\ E.out = D.out
  <2>1. Range(f) = {IF t \in late THEN [Fail(t) EXCEPT !.entering = ~TimedOut(Fail(t))] ELSE t :
                      t \in D.tickets}
    BY DEF Range
  <2> HIDE DEF f
  <2> QED BY <2>1 DEF ExpireEntering, Sound, Context
<1>3. late \in SUBSET D.tickets
  OBVIOUS
<1>4. f \in [D.tickets -> Range(f)]
  BY DEF Range
<1> HIDE DEF f, late, E
<1>5. E.tickets \in SUBSET Range(f)
  BY <1>2 DEF Alive
<1>6. \A c \in Client : Grown(E.mail[c], D.mail[c], Silent)
  BY <1>2, <1>3, ComplaintsSilent
<1> QED
  BY <1>1, <1>2, <1>4, <1>5, <1>6, TameMap DEF E

LEMMA LockActivatedTame ==
  ASSUME now \in Nat, NEW l, NEW D, Sound(l, D), NEW t \in D.tickets
  PROVE  Tame(D, LockActivated(D, t))
<1> DEFINE date == now + Duration
           u == [t EXCEPT !.locked = TRUE, !.lockDate = date]
           n == [Note("LOCKED") EXCEPT !.date = u.lockDate]
           E == Update(D, t, u)
<1>1. t \in Ticket /\ date \in Nat
  BY NumberAssumption DEF Sound, Context
<1>2. LockActivated(D, t) \in {D, E, TellClient(E, t.client, n)}
  BY DEF LockActivated
<1> HIDE DEF date
<1>3. u \in Ticket /\ KeyOf(u) = KeyOf(t) /\ u.listed = t.listed /\ Alike(u, t) /\ u.lockDate = date
  BY <1>1 DEF Ticket, KeyOf, Alike
<1>4. n \in Silent
  BY <1>1, <1>3 DEF Note, Notice, Silent
<1> HIDE DEF u, n
<1>5. Sound(l, E) /\ Tame(D, E)
  BY <1>3, UpdateSound, TameUpdate
<1> HIDE DEF E
<1>6. Tame(E, TellClient(E, t.client, n))
  BY <1>4, <1>5, TameTell
<1>7. Tame(D, TellClient(E, t.client, n))
  BY <1>5, <1>6, TameTwice
<1> QED
  BY <1>2, <1>5, <1>7, TameItself

LEMMA ActivateLockTame ==
  ASSUME now \in Nat, NEW l, NEW D, Sound(l, D), NEW t \in D.tickets
  PROVE  Tame(D, ActivateLock(D, t))
<1> DEFINE m == Msg("ACTIVATE_LOCK", KeyOf(t))
<1>1. m \in Idle
  <2>1. KeyOf(t) \in Key
    BY KeyTypes DEF Sound, Context
  <2>2. m \in Message /\ m.type = "ACTIVATE_LOCK"
    BY <2>1, MsgType DEF Msg
  <2> QED BY <2>2 DEF Idle, Vital
<1>2. ActivateLock(D, t) \in {D, LockActivated(D, t), SendToLeaders(D, m)}
  BY DEF ActivateLock
<1> HIDE DEF m
<1> QED
  BY <1>1, <1>2, TameItself, LockActivatedTame, TameSendOne

LEMMA ActivateFirstLockTame ==
  ASSUME now \in Nat, NEW l, NEW D, Sound(l, D)
  PROVE  Tame(D, ActivateFirstLock(D))
<1> DEFINE E == ExpireListed(D)
<1>1. Sound(l, E) /\ Tame(D, E)
  BY ExpireListedSound, ExpireListedTame
<1>2. ActivateFirstLock(D) = IF Listed(E) = {} THEN E ELSE ActivateLock(E, First(Listed(E)))
  BY DEF ActivateFirstLock
<1> HIDE DEF E
<1>3. Listed(E) # {} => Tame(E, ActivateLock(E, First(Listed(E))))
  BY <1>1, FirstListed, ActivateLockTame
<1> QED
  BY <1>1, <1>2, <1>3, TameTwice

LEMMA CleanupTame ==
  ASSUME now \in Nat, NEW l, NEW D, Sound(l, D)
  PROVE  Tame(D, Cleanup(D))
<1> DEFINE E == ExpireListed(D)
           erased == \E t \in Listed(D) : TimedOut(t) /\ TimedOut(Fail(t))
           F == IF erased THEN ActivateFirstLock(E) ELSE E
<1>1. Sound(l, E) /\ Tame(D, E)
  BY ExpireListedSound, ExpireListedTame
<1>2. Cleanup(D) = ExpireEntering(F)
  BY DEF Cleanup
<1> HIDE DEF E, erased
<1>3. Sound(l, F) /\ Tame(E, F)
  BY <1>1, ActivateFirstLockSound, ActivateFirstLockTame, TameItself
<1> HIDE DEF F
<1>4. Tame(F, ExpireEntering(F))
  BY <1>3, ExpireEnteringTame
<1> QED
  BY <1>1, <1>2, <1>3, <1>4, TameTwice

LEMMA LockExitingTame ==
  ASSUME now \in Nat, NEW l, NEW D, Sound(l, D), NEW c
  PROVE  Tame(D, LockExiting(D, c))
<1>1. CASE EnteringOf(D, c) = {}
  BY <1>1, CleanupTame DEF LockExiting
<1>2. CASE EnteringOf(D, c) # {}
  <2> DEFINE t == One(EnteringOf(D, c))
             u == [t EXCEPT !.entering = FALSE]
             E == Update(D, t, u)
             freed == {v \in Listed(E) : Freed(v, c) /\ RemoveEntering(v, c).ready}
             f == [v \in E.tickets |-> IF v.listed THEN RemoveEntering(v, c) ELSE v]
             F == [E EXCEPT !.tickets = Range(f)]
             s == SetToSeq({Msg("TICKET_READY", KeyOf(v)) : v \in freed})
             G == SendAllToLeaders(F, s)
  <2>1. t \in D.tickets /\ t \in Ticket
    BY <1>2 DEF One, EnteringOf, Sound, Context
  <2>2. u \in Ticket /\ Alike(u, t) /\ KeyOf(u) = KeyOf(t) /\ u.listed = t.listed
    BY <2>1 DEF Ticket, Alike, KeyOf
  <2>3. LockExiting(D, c) = Cleanup(IF Listed(G) = {} THEN G ELSE ActivateFirstLock(G))
    <3>1. Range(f) = {IF v.listed THEN RemoveEntering(v, c) ELSE v : v \in E.tickets}
      BY DEF Range
    <3> QED BY <1>2, <3>1, Zenon DEF LockExiting
  <2> HIDE DEF t, u
  <2>4. Sound(l, E) /\ Tame(D, E)
    BY <2>1, <2>2, UpdateSound, TameUpdate
  <2>5. E.tickets \in SUBSET Ticket /\ IsFiniteSet(E.tickets) /\ KeysDiffer(E.tickets)
    BY <2>4 DEF Sound, Context
  <2> HIDE DEF E
  <2>6. s \in Seq(Idle)
    <3> DEFINE g == [v \in freed |-> Msg("TICKET_READY", KeyOf(v))]
    <3>1. IsFiniteSet(freed) /\ freed \subseteq E.tickets
      BY <2>5, FS_Subset DEF Listed
    <3>2. g \in [freed -> Idle]
      <4>1. \A k : Msg("TICKET_READY", k).type = "TICKET_READY"
        BY DEF Msg
      <4> QED BY <2>5, <3>1, <4>1, MsgType, KeyTypes DEF Idle, Vital
    <3>3. {Msg("TICKET_READY", KeyOf(v)) : v \in freed} = Range(g)
      BY DEF Range
    <3> HIDE DEF g, freed
    <3>4. IsFiniteSet(Range(g)) /\ Range(g) \subseteq Idle
      BY <3>1, <3>2, FiniteImage
    <3> QED BY <3>3, <3>4, SetToSeqType
  <2> HIDE DEF s, freed
  <2>7. /\ f \in [E.tickets -> Ticket]
        /\ \A v \in E.tickets : KeyOf(f[v]) = KeyOf(v) /\ (f[v].listed => v.listed)
    BY <2>5, RemoveEnteringType
  <2>8. \A v \in E.tickets : Alike(f[v], v)
    BY <2>5 DEF RemoveEntering, Alike, Ticket
  <2> HIDE DEF f
  <2>9. Range(f) \subseteq Ticket /\ IsFiniteSet(Range(f)) /\ KeysDiffer(Range(f))
    BY <2>5, <2>7, ImageTable
  <2>10. Sound(l, F) /\ F.tickets = Range(f) /\ F.mail = E.mail /\ F.out = E.out
    BY <2>4, <2>9, TableSound DEF Sound, Context
  <2> HIDE DEF F
  <2>11. Tame(E, F)
    BY <2>4, <2>7, <2>8, <2>10, TameTable
  <2>12. Sound(l, G) /\ Tame(F, G)
    BY <2>6, <2>10, SendAllSound, TameSend DEF Idle
  <2> HIDE DEF G
  <2> DEFINE H == IF Listed(G) = {} THEN G ELSE ActivateFirstLock(G)
  <2>13. Sound(l, H) /\ Tame(G, H)
    BY <2>12, ActivateFirstLockSound, ActivateFirstLockTame, TameItself
  <2>14. Tame(H, Cleanup(H))
    <3> HIDE DEF H
    <3> QED BY <2>13, CleanupTame
  <2> HIDE DEF H
  <2>15. Tame(D, G)
    BY <2>4, <2>11, <2>12, TameTwice
  <2>16. Tame(D, Cleanup(H))
    BY <2>12, <2>13, <2>14, <2>15, TameTwice
  <2> QED BY <2>3, <2>16 DEF H
<1> QED
  BY <1>1, <1>2

LEMMA TicketAddedTame ==
  ASSUME now \in Nat, NEW l, NEW D, Sound(l, D), NEW t \in D.tickets
  PROVE  Tame(D, TicketAdded(D, t))
<1> DEFINE still == {[client |-> u.client, until |-> CurrentDate(u)] :
                       u \in {v \in D.tickets : v.entering}}
           u == [t EXCEPT !.quorum = TRUE, !.still = still]
           E == Update(D, t, u)
           m == Msg("LOCK_EXITING", EnteringKey(t.client))
           F == SendToLeaders(E, m)
<1>1. D.tickets \subseteq Ticket /\ t \in Ticket
  BY DEF Sound, Context
<1>2. still \subseteq Pending
  <2>1. \A v \in Ticket : v.client \in Client /\ CurrentDate(v) \in Nat
    BY DEF CurrentDate, Ticket
  <2> QED BY <1>1, <2>1 DEF Pending
<1>3. TicketAdded(D, t) = IF t.quorum THEN D ELSE LockExiting(F, t.client)
  BY DEF TicketAdded
<1> HIDE DEF still
<1>4. u \in Ticket /\ KeyOf(u) = KeyOf(t) /\ Alike(u, t) /\ u.listed = t.listed
  BY <1>1, <1>2 DEF Ticket, KeyOf, Alike
<1> HIDE DEF u
<1>5. Sound(l, E) /\ Tame(D, E)
  BY <1>4, UpdateSound, TameUpdate
<1>6. m \in Idle
  <2>1. m \in Message /\ m.type = "LOCK_EXITING"
    BY <1>1, KeyTypes, MsgType DEF Msg
  <2> QED BY <2>1 DEF Idle, Vital
<1> HIDE DEF E, m
<1>7. Sound(l, F) /\ Tame(E, F)
  BY <1>5, <1>6, SendSound, TameSendOne DEF Idle
<1> HIDE DEF F
<1>8. Tame(F, LockExiting(F, t.client))
  BY <1>7, LockExitingTame
<1>9. Tame(D, LockExiting(F, t.client))
  BY <1>5, <1>7, <1>8, TameTwice
<1> QED
  BY <1>3, <1>9, TameItself

LEMMA DropTicketTame ==
  ASSUME NEW l, NEW D, Sound(l, D), NEW t \in D.tickets
  PROVE  Tame(D, DropTicket(D, t))
<1> DEFINE m == Msg("DROP_TICKET", KeyOf(t))
           E == SendToLeaders(D, m)
           n == Note("UNLOCKED")
<1>1. DropTicket(D, t) \in {E, TellClient(E, t.client, n)}
  BY DEF DropTicket
<1>2. m \in Idle /\ n \in Silent
  <2>1. KeyOf(t) \in Key
    BY KeyTypes DEF Sound, Context
  <2>2. m \in Message /\ m.type = "DROP_TICKET" /\ n \in Notice /\ n.type = "UNLOCKED"
    BY <2>1, MsgType, NoteType DEF Msg, Note
  <2> QED BY <2>2 DEF Idle, Vital, Silent
<1> HIDE DEF m, n
<1>3. Sound(l, E) /\ Tame(D, E)
  BY <1>2, SendSound, TameSendOne DEF Idle
<1> HIDE DEF E
<1>4. Tame(E, TellClient(E, t.client, n))
  BY <1>2, <1>3, TameTell
<1> QED
  BY <1>1, <1>3, <1>4, TameTwice

\* Tickets that leave one of the two maps.
LEMMA ClearTame ==
  ASSUME NEW l, NEW D, Sound(l, D), NEW B, NEW S,
         \/ S = Alive({IF t \in B THEN [t EXCEPT !.listed = FALSE] ELSE t : t \in D.tickets})
         \/ S = Alive({IF t \in B THEN [t EXCEPT !.entering = FALSE] ELSE t : t \in D.tickets})
  PROVE  Tame(D, [D EXCEPT !.tickets = S])
<1> DEFINE f == [t \in D.tickets |-> IF t \in B THEN [t EXCEPT !.listed = FALSE] ELSE t]
           g == [t \in D.tickets |-> IF t \in B THEN [t EXCEPT !.entering = FALSE] ELSE t]
           E == [D EXCEPT !.tickets = S]
<1>1. \A t \in D.tickets : t \in Ticket
  BY DEF Sound, Context
<1>2. \A t \in D.tickets : Alike(f[t], t) /\ Alike(g[t], t)
  BY <1>1 DEF Alike, Ticket
<1>3. /\ Range(f) = {IF t \in B THEN [t EXCEPT !.listed = FALSE] ELSE t : t \in D.tickets}
      /\ Range(g) = {IF t \in B THEN [t EXCEPT !.entering = FALSE] ELSE t : t \in D.tickets}
      /\ f \in [D.tickets -> Range(f)] /\ g \in [D.tickets -> Range(g)]
  BY DEF Range
<1> HIDE DEF f, g
<1>4. S \in SUBSET Range(f) \/ S \in SUBSET Range(g)
  BY <1>3 DEF Alive
<1>5. E.tickets = S /\ E.out = D.out /\ E.mail = D.mail
  BY DEF Sound, Context
<1> HIDE DEF E
<1>6. Tame(D, E)
  BY <1>2, <1>3, <1>4, <1>5, TameTable
<1> QED
  BY <1>6 DEF E


-----------------------------------------------------------------------------
(* One step of a queue, and of a world.                                    *)

LEMMA Elements ==
  ASSUME NEW q \in Seq(Message)
  PROVE  Len(q) \in Nat /\ DOMAIN q = 1..Len(q) /\ \A i \in DOMAIN q : i \in Nat \ {0}
BY LenProperties

LEMMA FewerItself == ASSUME NEW c, NEW q \in Seq(Message) PROVE Fewer(c, q, q)
<1>1. \A i \in Mine(q, c) : i \in Nat /\ i + 0 \in Mine(q, c) /\ q[i] = q[i + 0]
  BY Elements DEF Mine
<1> QED
  BY <1>1 DEF Fewer

LEMMA FewerGrown ==
  ASSUME NEW c, NEW q \in Seq(Message), NEW r, Grown(r, q, Idle)
  PROVE  Fewer(c, r, q)
<1>1. PICK s \in Seq(Idle) : r = q \o s
  BY DEF Grown
<1>2. s \in Seq(Message)
  BY <1>1 DEF Idle
<1>3. /\ r \in Seq(Message) /\ Len(r) = Len(q) + Len(s)
      /\ \A i \in 1..Len(q) + Len(s) : r[i] = IF i <= Len(q) THEN q[i] ELSE s[i - Len(q)]
  BY <1>1, <1>2, ConcatProperties
<1>4. Len(q) \in Nat /\ Len(s) \in Nat /\ DOMAIN q = 1..Len(q) /\ DOMAIN r = 1..Len(r)
  BY <1>2, <1>3, Elements
<1>5. \A i \in 1..Len(s) : s[i] \in Idle
  BY ElementOfSeq
<1>6. \A i \in DOMAIN r : r[i].type \in Vital => i \in DOMAIN q /\ r[i] = q[i]
  <2> SUFFICES ASSUME NEW i \in DOMAIN r, i \notin DOMAIN q PROVE r[i].type \notin Vital
    BY <1>3, <1>4
  <2>1. i - Len(q) \in 1..Len(s) /\ r[i] = s[i - Len(q)]
    BY <1>3, <1>4
  <2> QED BY <1>5, <2>1 DEF Idle
<1>7. \A i \in Mine(r, c) : i \in Nat /\ i + 0 \in Mine(q, c) /\ r[i] = q[i + 0]
  BY <1>4, <1>6 DEF Mine
<1> QED
  BY <1>7 DEF Fewer

LEMMA FewerTail ==
  ASSUME NEW c, NEW q \in Seq(Message), q # <<>>
  PROVE  Fewer(c, Tail(q), q)
<1>1. \A i \in DOMAIN Tail(q) : i \in Nat /\ i + 1 \in DOMAIN q /\ Tail(q)[i] = q[i + 1]
  BY TailElements
<1>2. \A i \in Mine(Tail(q), c) : i \in Nat /\ i + 1 \in Mine(q, c) /\ Tail(q)[i] = q[i + 1]
  BY <1>1 DEF Mine
<1> QED
  BY <1>2 DEF Fewer

\* What is read was the only one of its kind.
LEMMA ReadKind ==
  ASSUME NEW c, NEW q \in Seq(Message), q # <<>>, Head(q).key.client = c,
         NEW type, Head(q).type = type, \A i, j \in Kind(q, c, type) : i = j
  PROVE  Kind(q, c, type) # {} /\ Kind(Tail(q), c, type) = {}
<1>1. /\ 1 \in DOMAIN q /\ Head(q) = q[1]
      /\ \A i \in DOMAIN Tail(q) : i \in Nat \ {0} /\ i + 1 \in DOMAIN q /\ Tail(q)[i] = q[i + 1]
  BY TailElements
<1>2. 1 \in Kind(q, c, type)
  BY <1>1 DEF Kind
<1>3. \A i \in Kind(Tail(q), c, type) : i \in Nat \ {0} /\ i + 1 \in Kind(q, c, type)
  BY <1>1 DEF Kind
<1> QED
  BY <1>2, <1>3

LEMMA AppendElements ==
  ASSUME NEW q \in Seq(Message), NEW m \in Message
  PROVE  LET r == Append(q, m)
             n == Len(q) + 1
         IN  /\ DOMAIN r = DOMAIN q \cup {n} /\ n \notin DOMAIN q /\ r[n] = m
             /\ \A i \in DOMAIN q : i \in Nat /\ r[i] = q[i]
             /\ \A c : /\ c # m.key.client => Fewer(c, r, q)
                       /\ Mine(q, c) \subseteq Mine(r, c) /\ Mine(r, c) \subseteq Mine(q, c) \cup {n}
<1> DEFINE r == Append(q, m)
           n == Len(q) + 1
<1>1. Len(q) \in Nat /\ DOMAIN q = 1..Len(q)
  BY Elements
<1>2. /\ Len(r) = n /\ r[n] = m /\ r \in Seq(Message)
      /\ \A i \in 1..Len(q) : r[i] = q[i]
  BY AppendProperties
<1>3. DOMAIN r = 1..n
  BY <1>2, Elements
<1>4. /\ DOMAIN r = DOMAIN q \cup {n} /\ n \notin DOMAIN q /\ r[n] = m
      /\ \A i \in DOMAIN q : i \in Nat /\ r[i] = q[i]
  BY <1>1, <1>2, <1>3
<1> HIDE DEF r, n
<1>5. ASSUME NEW c
      PROVE  /\ c # m.key.client => Fewer(c, r, q)
             /\ Mine(q, c) \subseteq Mine(r, c) /\ Mine(r, c) \subseteq Mine(q, c) \cup {n}
  <2>1. Mine(q, c) \subseteq Mine(r, c) /\ Mine(r, c) \subseteq Mine(q, c) \cup {n}
    BY <1>4 DEF Mine
  <2>2. ASSUME c # m.key.client PROVE Fewer(c, r, q)
    <3>1. n \notin Mine(r, c)
      BY <1>4, <2>2 DEF Mine
    <3>2. \A i \in Mine(r, c) : i \in Nat /\ i + 0 \in Mine(q, c) /\ r[i] = q[i + 0]
      BY <1>4, <2>1, <3>1 DEF Mine
    <3> QED BY <3>2 DEF Fewer
  <2> QED BY <2>1, <2>2
<1> QED
  BY <1>4, <1>5 DEF r, n

LEMMA AppendKind ==
  ASSUME NEW q \in Seq(Message), NEW m \in Message, NEW c, NEW type
  PROVE  LET r == Append(q, m)
         IN  /\ type # m.type => Kind(r, c, type) = Kind(q, c, type)
             /\ Kind(q, c, type) = {} => \A i, j \in Kind(r, c, type) : i = j
BY AppendElements DEF Kind

Typed(w) == \A s \in Node, l \in Leader : w.net[s][l] \in Seq(Message)

LEMMA CalmerAlways ==
  ASSUME NEW home \in [Client -> Leader], NEW W, NEW v, NEW w, Numbering(home, W, w),
         \A c \in Client : Calmer(c, v, w)
  PROVE  Numbering(home, W, v)
BY CalmerOrderly DEF Numbering

\* The ticket has its number, and none of the other leaders was told.
Unannounced(c, h, w) ==
  /\ Counted(w.tickets[h], c)
  /\ \A l \in Leader : /\ Kind(w.net[h][l], c, "ADD_TICKET") = {}
                       /\ l # h => Plain(w.tickets[l], c)

\* Another message of client c, on its way to one or several leaders.
LEMMA SayNumbering ==
  ASSUME NEW home \in [Client -> Leader], NEW W, NEW v, NEW w, Typed(w), Numbering(home, W, w),
         v.tickets = w.tickets, v.tries = w.tries,
         \A d \in Client, l \in Leader : Questioned(v.mail[d][l]) => Questioned(w.mail[d][l]),
         NEW c \in Client, NEW m \in Message, m.key.client = c, m.type \in Vital \ {"LOCK"},
         ~New(c, home[c], w),
         \A s \in Node, l \in Leader :
           \/ v.net[s][l] = w.net[s][l]
           \/ v.net[s][l] = Append(w.net[s][l], m) /\ Routed(c, home[c], W, s, l, m),
         m.type = "ADD_TICKET" => Unannounced(c, home[c], w)
  PROVE  Numbering(home, W, v)
<1> DEFINE h == home[c]
<1>0. m.type = "ADD_TICKET" =>
        /\ Counted(w.tickets[h], c)
        /\ \A l \in Leader : /\ Kind(w.net[h][l], c, "ADD_TICKET") = {}
                             /\ l # h => Plain(w.tickets[l], c)
  BY DEF Unannounced
<1>1. h \in Leader /\ h \in Node /\ c \in Node /\ Orderly(c, h, W, w)
  BY DEF Node, Numbering
<1>2. ASSUME NEW d \in Client, d # c PROVE Orderly(d, home[d], W, v)
  <2>1. \A s \in Node, l \in Leader : Fewer(d, v.net[s][l], w.net[s][l])
    <3> SUFFICES ASSUME NEW s \in Node, NEW l \in Leader PROVE Fewer(d, v.net[s][l], w.net[s][l])
      OBVIOUS
    <3>1. w.net[s][l] \in Seq(Message)
      BY DEF Typed
    <3>2. Fewer(d, w.net[s][l], w.net[s][l]) /\ Fewer(d, Append(w.net[s][l], m), w.net[s][l])
      BY <1>2, <3>1, AppendElements, FewerItself
    <3> QED BY <3>2
  <2>2. Calmer(d, v, w)
    BY <2>1 DEF Calmer, Alike
  <2> QED BY <2>2, CalmerOrderly DEF Numbering
<1>3. ASSUME NEW s \in Node, NEW l \in Leader, NEW i \in Mine(v.net[s][l], c)
      PROVE  Routed(c, h, W, s, l, v.net[s][l][i])
  <2>1. CASE v.net[s][l] = w.net[s][l]
    BY <1>1, <1>3, <2>1 DEF Orderly, Placed
  <2>2. CASE v.net[s][l] = Append(w.net[s][l], m) /\ Routed(c, home[c], W, s, l, m)
    <3> DEFINE q == w.net[s][l]
    <3>1. q \in Seq(Message)
      BY DEF Typed
    <3>2. (i \in Mine(q, c) /\ v.net[s][l][i] = q[i]) \/ v.net[s][l][i] = m
      BY <1>3, <2>2, <3>1, AppendElements DEF Mine
    <3> QED BY <1>1, <2>2, <3>2 DEF Orderly, Placed
  <2> QED BY <2>1, <2>2
<1>4. \A s \in Node, l \in Leader : \A type :
        type # m.type => Kind(v.net[s][l], c, type) = Kind(w.net[s][l], c, type)
  <2> SUFFICES ASSUME NEW s \in Node, NEW l \in Leader, NEW type, type # m.type
               PROVE  Kind(v.net[s][l], c, type) = Kind(w.net[s][l], c, type)
    OBVIOUS
  <2>1. w.net[s][l] \in Seq(Message)
    BY DEF Typed
  <2>2. Kind(Append(w.net[s][l], m), c, type) = Kind(w.net[s][l], c, type)
    BY <2>1, AppendKind
  <2> QED BY <2>2
<1>5. Placed(c, h, W, v)
  BY <1>1, <1>3 DEF Orderly, Placed
<1>6. Kind(v.net[c][h], c, "LOCK") = Kind(w.net[c][h], c, "LOCK")
  BY <1>1, <1>4
<1>7. ~New(c, h, v)
  BY <1>6 DEF New
<1>8. Once(c, h, v)
  BY <1>1, <1>6, <1>7 DEF Orderly, Once
<1>9. Added(c, h, W, v)
  <2>1. CASE m.type # "ADD_TICKET"
    <3>1. \A l \in Leader : Kind(v.net[h][l], c, "ADD_TICKET") = Kind(w.net[h][l], c, "ADD_TICKET")
      BY <1>1, <1>4, <2>1, Zenon
    <3>2. Added(c, h, W, w)
      BY <1>1 DEF Orderly
    <3>3. /\ ~Counted(v.tickets[h], c) =>
               \A l \in Leader : /\ Kind(v.net[h][l], c, "ADD_TICKET") = {}
                                 /\ l # h => Plain(v.tickets[l], c)
          /\ c \notin W => Counted(v.tickets[h], c)
      BY <3>1, <3>2, Zenon DEF Added
    <3>4. \A l \in Leader \ {h} :
            /\ \A i, j \in Kind(v.net[h][l], c, "ADD_TICKET") : i = j
            /\ Kind(v.net[h][l], c, "ADD_TICKET") # {} => Plain(v.tickets[l], c)
      <4> SUFFICES ASSUME NEW l \in Leader \ {h}
                   PROVE  /\ \A i, j \in Kind(v.net[h][l], c, "ADD_TICKET") : i = j
                          /\ Kind(v.net[h][l], c, "ADD_TICKET") # {} => Plain(v.tickets[l], c)
        OBVIOUS
      <4>1. /\ \A i, j \in Kind(w.net[h][l], c, "ADD_TICKET") : i = j
            /\ Kind(w.net[h][l], c, "ADD_TICKET") # {} => Plain(w.tickets[l], c)
        BY <3>2, Zenon DEF Added
      <4>2. Kind(v.net[h][l], c, "ADD_TICKET") = Kind(w.net[h][l], c, "ADD_TICKET")
        BY <3>1
      <4> QED BY <4>1, <4>2
    <3> QED BY <1>7, <3>3, <3>4 DEF Added
  <2>2. CASE m.type = "ADD_TICKET"
    <3>1. \A l \in Leader : \A i, j \in Kind(v.net[h][l], c, "ADD_TICKET") : i = j
      <4> SUFFICES ASSUME NEW l \in Leader
                   PROVE  \A i, j \in Kind(v.net[h][l], c, "ADD_TICKET") : i = j
        OBVIOUS
      <4>1. w.net[h][l] \in Seq(Message) /\ Kind(w.net[h][l], c, "ADD_TICKET") = {}
        BY <1>0, <1>1, <2>2 DEF Typed
      <4>2. \A i, j \in Kind(Append(w.net[h][l], m), c, "ADD_TICKET") : i = j
        BY <4>1, AppendKind
      <4> QED BY <1>1, <4>1, <4>2
    <3> QED BY <1>0, <1>1, <1>7, <2>2, <3>1 DEF Added
  <2> QED BY <2>1, <2>2
<1>10. Orderly(c, h, W, v)
  BY <1>5, <1>8, <1>9 DEF Orderly
<1> QED
  BY <1>2, <1>10 DEF Numbering


-----------------------------------------------------------------------------
(* A leader changes its table.                                             *)

\* World v has the table S for leader l; the rest is that of w.
Changed(v, w, l, S) ==
  /\ v.net = w.net /\ v.mail = w.mail /\ v.tries = w.tries
  /\ v.tickets[l] = S /\ \A d \in Leader \ {l} : v.tickets[d] = w.tickets[d]

LEMMA ChangedCalmer ==
  ASSUME NEW v, NEW w, NEW l \in Leader, NEW S, Changed(v, w, l, S), Typed(w),
         NEW d \in Client, \A u \in S : u.client = d => u \in w.tickets[l]
  PROVE  Calmer(d, v, w)
<1>1. \A s \in Node, x \in Leader : Fewer(d, v.net[s][x], w.net[s][x])
  BY FewerItself DEF Changed, Typed
<1>2. \A x \in Leader : \A u \in v.tickets[x] : u.client = d => u \in w.tickets[x]
  BY DEF Changed
<1> QED
  BY <1>1, <1>2 DEF Calmer, Changed, Alike, Single

\* The ticket of client c in S is in R as well, with its number there or not yet.
Revised(S, R, c, h, W) ==
  /\ Single(S, c)
  /\ \A u \in S : u.client = c =>
       /\ u.owner = h /\ u.number <= Given(W)
       /\ \E t \in R : t.client = c /\ t.added = u.added

\* What its own leader changes but the number of the ticket.
LEMMA ChangedHome ==
  ASSUME NEW v, NEW w, NEW h \in Leader, NEW S, Changed(v, w, h, S),
         NEW c \in Client, NEW W, Orderly(c, h, W, w), Revised(S, w.tickets[h], c, h, W)
  PROVE  Orderly(c, h, W, v)
<1>1. Placed(c, h, W, v)
  BY DEF Revised, Orderly, Placed, Changed
<1>2. New(c, h, v) <=> New(c, h, w)
  BY DEF New, Changed
<1>3. Untold(c, w) => Untold(c, v)
  BY DEF Revised, Untold, Changed
<1>4. Once(c, h, v)
  BY <1>2, <1>3 DEF Orderly, Once, Changed
<1>5. Counted(w.tickets[h], c) => Counted(v.tickets[h], c)
  BY DEF Revised, Counted, Changed
<1>6. \A l \in Leader : l # h => v.tickets[l] = w.tickets[l]
  BY DEF Changed
<1>7. Added(c, h, W, v)
  BY <1>2, <1>5, <1>6 DEF Orderly, Added, Changed
<1> QED
  BY <1>1, <1>4, <1>7 DEF Orderly

\* What another leader does to a ticket that has its number.
LEMMA ChangedAway ==
  ASSUME NEW v, NEW w, NEW l \in Leader, NEW S, Changed(v, w, l, S),
         NEW c \in Client, NEW h \in Leader, h # l, NEW W, Orderly(c, h, W, w), ~New(c, h, w),
         \A u \in S : u.client = c => u.owner = h /\ u.number <= Given(W),
         Counted(w.tickets[h], c), Kind(w.net[h][l], c, "ADD_TICKET") = {}
  PROVE  Orderly(c, h, W, v)
<1>1. Placed(c, h, W, v)
  BY DEF Orderly, Placed, Changed
<1>2. ~New(c, h, v)
  BY DEF New, Changed
<1>3. Once(c, h, v)
  BY <1>2 DEF Orderly, Once, Changed
<1>4. Counted(v.tickets[h], c) /\ v.net = w.net
  BY DEF Changed
<1>5. \A x \in Leader : x # l => v.tickets[x] = w.tickets[x]
  BY DEF Changed
<1>6. Added(c, h, W, v)
  BY <1>2, <1>4, <1>5 DEF Orderly, Added
<1> QED
  BY <1>1, <1>3, <1>6 DEF Orderly

\* A ticket is made, by the leader that owns it or by one that hears of it.
LEMMA ChangedAdd ==
  ASSUME NEW v, NEW w, NEW l \in Leader, NEW S, Changed(v, w, l, S),
         NEW c \in Client, NEW h \in Leader, NEW W \in SUBSET Client, Orderly(c, h, W, w), ~New(c, h, w),
         NEW t, t.client = c, t.owner = h, t.number = 0, ~t.added, S = w.tickets[l] \cup {t},
         l = h => Untold(c, w) /\ c \in W
  PROVE  Orderly(c, h, W, v)
<1>1. 0 <= Given(W)
  BY ClientAssumption, FS_Subset, FS_CardinalityType DEF Given
<1>2. \A x \in Leader : \A u \in v.tickets[x] : u \in w.tickets[x] \/ (u = t /\ x = l)
  BY DEF Changed
<1>3. Placed(c, h, W, v)
  <2>1. Single(v.tickets[h], c)
    BY <1>2 DEF Orderly, Placed, Single, Untold
  <2> QED BY <1>1, <1>2, <2>1 DEF Orderly, Placed, Changed
<1>4. ~New(c, h, v)
  BY DEF New, Changed
<1>5. Once(c, h, v)
  BY <1>4 DEF Orderly, Once, Changed
<1>6. \A x \in Leader : Plain(w.tickets[x], c) => Plain(v.tickets[x], c)
  BY <1>2 DEF Plain
<1>7. l # h => v.tickets[h] = w.tickets[h]
  BY DEF Changed
<1>8. \A x \in Leader : Kind(v.net[h][x], c, "ADD_TICKET") = Kind(w.net[h][x], c, "ADD_TICKET")
  BY DEF Changed
<1>9. ASSUME l = h
      PROVE  \A x \in Leader : Kind(w.net[h][x], c, "ADD_TICKET") = {} /\ Plain(w.tickets[x], c)
  <2>1. "ADD_TICKET" \in Vital /\ h \in Node
    BY DEF Vital, Node
  <2> QED BY <1>9, <2>1 DEF Untold, Kind, Mine, Plain
<1>10. Added(c, h, W, v)
  <2>1. CASE l = h
    BY <1>4, <1>6, <1>8, <1>9, <2>1 DEF Added
  <2>2. CASE l # h
    BY <1>4, <1>6, <1>7, <1>8, <2>2 DEF Orderly, Added
  <2> QED BY <2>1, <2>2
<1> QED
  BY <1>3, <1>5, <1>10 DEF Orderly

\* One more client has its number.
LEMMA GivenMore ==
  ASSUME NEW W \in SUBSET Client, NEW c \in W
  PROVE  Given(W \ {c}) = Given(W) + 1 /\ Given(W) \in Nat /\ Given(W) < Cardinality(Client)
<1>1. Client \ (W \ {c}) = (Client \ W) \cup {c} /\ c \notin Client \ W
  OBVIOUS
<1>2. IsFiniteSet(Client \ W) /\ Cardinality(Client \ W) \in Nat
  BY ClientAssumption, FS_Subset, FS_CardinalityType
<1>3. Cardinality((Client \ W) \cup {c}) = Cardinality(Client \ W) + 1
  BY <1>1, <1>2, FS_AddElement
<1>4. Cardinality((Client \ W) \cup {c}) <= Cardinality(Client)
  BY ClientAssumption, FS_Subset
<1>5. Cardinality(Client) \in Nat
  BY ClientAssumption, FS_CardinalityType
<1> QED
  BY <1>1, <1>2, <1>3, <1>4, <1>5 DEF Given

LEMMA GivenPlaced ==
  ASSUME NEW W \in SUBSET Client, NEW c \in W, NEW d \in Client, NEW h \in Leader,
         NEW w, Placed(d, h, W, w),
         \A l \in Leader : w.tickets[l] \subseteq Ticket, Typed(w)
  PROVE  Placed(d, h, W \ {c}, w)
<1>1. \A n \in Nat : n <= Given(W) => n <= Given(W \ {c})
  BY GivenMore
<1>2. Number \subseteq Nat
  BY NumberAssumption DEF Number
<1>3. \A l \in Leader : \A t \in w.tickets[l] : t.number \in Nat
  BY <1>2 DEF Ticket
<1>4. ASSUME NEW s \in Node, NEW l \in Leader, NEW i \in Mine(w.net[s][l], d)
      PROVE  Routed(d, h, W \ {c}, s, l, w.net[s][l][i])
  <2> DEFINE m == w.net[s][l][i]
  <2>1. m \in Message
    <3>1. w.net[s][l] \in Seq(Message) /\ i \in DOMAIN w.net[s][l]
      BY DEF Typed, Mine
    <3> QED BY <3>1
  <2>2. m.value \in Nat /\ m.key.number \in Nat
    BY <1>2, <2>1 DEF Message, Key
  <2>3. Routed(d, h, W, s, l, m)
    BY DEF Placed
  <2> HIDE DEF m
  <2>4. Routed(d, h, W \ {c}, s, l, m)
    BY <1>1, <2>2, <2>3 DEF Routed
  <2> QED BY <2>4 DEF m
<1> QED
  BY <1>1, <1>3, <1>4 DEF Placed

LEMMA GivenOrderly ==
  ASSUME NEW W \in SUBSET Client, NEW c \in W, NEW d \in Client, d # c, NEW h \in Leader,
         NEW w, Orderly(d, h, W, w),
         \A l \in Leader : w.tickets[l] \subseteq Ticket, Typed(w)
  PROVE  Orderly(d, h, W \ {c}, w)
<1>1. Placed(d, h, W \ {c}, w)
  BY GivenPlaced DEF Orderly
<1>2. d \notin W \ {c} => d \notin W
  OBVIOUS
<1> QED
  BY <1>1, <1>2 DEF Orderly, Added

\* The ticket of client c gets its number.
LEMMA ChangedGiven ==
  ASSUME NEW v, NEW w, NEW h \in Leader, NEW S, Changed(v, w, h, S), Typed(w),
         NEW W \in SUBSET Client, NEW c \in W, Orderly(c, h, W, w), ~New(c, h, w),
         ~Counted(w.tickets[h], c),
         \A l \in Leader : w.tickets[l] \subseteq Ticket,
         NEW x, x.owner = h, x.added, x.number <= Given(W \ {c}),
         \A u \in S : u.client = c => u = x
  PROVE  Orderly(c, h, W \ {c}, v)
<1>3. Placed(c, h, W \ {c}, w)
  BY GivenPlaced DEF Orderly
<1>4. Placed(c, h, W \ {c}, v)
  BY <1>3 DEF Placed, Changed, Single
<1>5. ~New(c, h, v) /\ Counted(v.tickets[h], c)
  BY DEF New, Counted, Changed
<1>6. Once(c, h, v)
  BY <1>5 DEF Orderly, Once, Changed
<1>7. \A l \in Leader : Kind(v.net[h][l], c, "ADD_TICKET") = {}
  BY DEF Orderly, Added, Changed
<1>8. Added(c, h, W \ {c}, v)
  BY <1>5, <1>7 DEF Added
<1> QED
  BY <1>4, <1>6, <1>8 DEF Orderly


-----------------------------------------------------------------------------
(* The world around a handler.                                             *)

Net == [Node -> [Leader -> Seq(Message)]]

\* Leader l is in a handler with the context D, and Q is what was not read yet.
Around(Q, l, D) ==
  [tickets |-> [tickets EXCEPT ![l] = D.tickets],
   net     |-> [n \in Node |-> [d \in Leader |-> IF n = l THEN Q[n][d] \o D.out[d] ELSE Q[n][d]]],
   mail    |-> Delivered(l, D),
   tries   |-> [c \in Client |-> client[c].tries]]
Fit(home, W, Q, l, D) == Numbering(home, W, Around(Q, l, D))

\* The LOCK of the client was read.
Begun(c, h, Q) == client[c].tries # 0 /\ Kind(Q[c][h], c, "LOCK") = {}

\* World w is the one around the handler.
Surrounds(w, Q, l, D) ==
  /\ Typed(w)
  /\ w.tickets[l] = D.tickets /\ \A d \in Leader \ {l} : w.tickets[d] = tickets[d]
  /\ \A d \in Leader : w.tickets[d] \subseteq Ticket
  /\ \A c \in Client : /\ w.mail[c][l] = mail[c][l] \o D.mail[c]
                       /\ \A d \in Leader \ {l} : w.mail[c][d] = mail[c][d]
  /\ \A n \in Node, d \in Leader : w.net[n][d] = IF n = l THEN Q[n][d] \o D.out[d] ELSE Q[n][d]
  /\ \A c \in Client, h \in Leader : Begun(c, h, Q) <=> ~New(c, h, w)

LEMMA AroundParts ==
  ASSUME TypeInv, NEW l \in Leader, NEW Q \in Net, NEW D, Sound(l, D)
  PROVE  Surrounds(Around(Q, l, D), Q, l, D)
<1> DEFINE w == Around(Q, l, D)
<1>1. /\ D.out \in [Leader -> Seq(Message)] /\ D.tickets \in SUBSET Ticket
      /\ tickets \in [Leader -> SUBSET Ticket] /\ mail \in [Client -> [Leader -> Seq(Notice)]]
  BY DEF Sound, Context, TypeInv, TypeOK
<1>2. \A n \in Node, d \in Leader :
        w.net[n][d] = IF n = l THEN Q[n][d] \o D.out[d] ELSE Q[n][d]
  BY DEF Around
<1>3. \A n \in Node, d \in Leader : Q[n][d] \in Seq(Message) /\ Q[n][d] \o D.out[d] \in Seq(Message)
  BY <1>1, ConcatProperties DEF Net
<1>4. Typed(w)
  BY <1>2, <1>3 DEF Typed
<1>5. w.tickets[l] = D.tickets /\ \A d \in Leader \ {l} : w.tickets[d] = tickets[d]
  BY <1>1 DEF Around
<1>6. \A c \in Client : /\ w.mail[c][l] = mail[c][l] \o D.mail[c]
                        /\ \A d \in Leader \ {l} : w.mail[c][d] = mail[c][d]
  BY <1>1 DEF Around, Delivered
<1>7. \A c \in Client, h \in Leader : Begun(c, h, Q) <=> ~New(c, h, w)
  <2>1. \A c \in Client : c # l /\ c \in Node /\ w.tries[c] = client[c].tries
    BY DisjointAssumption DEF Node, Around
  <2> HIDE DEF w
  <2> QED BY <1>2, <2>1 DEF Begun, New
<1>8. \A d \in Leader : w.tickets[d] \subseteq Ticket
  <2> HIDE DEF w
  <2> QED BY <1>1, <1>5
<1> QED
  BY <1>2, <1>4, <1>5, <1>6, <1>7, <1>8 DEF Surrounds

LEMMA GrownAfter ==
  ASSUME NEW T, NEW p \in Seq(T), NEW q \in Seq(T), NEW S, S \subseteq T, NEW r, Grown(r, q, S)
  PROVE  Grown(p \o r, p \o q, S)
<1>1. PICK s \in Seq(S) : r = q \o s
  BY DEF Grown
<1>2. s \in Seq(T)
  OBVIOUS
<1>3. (p \o q) \o s = p \o (q \o s)
  BY <1>2, Associative
<1> QED
  BY <1>1, <1>3 DEF Grown

LEMMA SilentAdded ==
  ASSUME NEW q \in Seq(Notice), NEW r, Grown(r, q, Silent), Questioned(r)
  PROVE  Questioned(q)
<1>1. PICK s \in Seq(Silent) : r = q \o s
  BY DEF Grown
<1>2. s \in Seq(Notice)
  BY DEF Silent
<1>3. /\ r \in Seq(Notice) /\ Len(r) = Len(q) + Len(s)
      /\ \A i \in 1..Len(q) + Len(s) : r[i] = IF i <= Len(q) THEN q[i] ELSE s[i - Len(q)]
  BY <1>1, <1>2, ConcatProperties
<1>4. /\ Len(q) \in Nat /\ Len(s) \in Nat /\ DOMAIN q = 1..Len(q) /\ DOMAIN r = 1..Len(r)
      /\ DOMAIN s = 1..Len(s)
  BY <1>2, <1>3, LenProperties
<1>5. PICK i \in DOMAIN r : r[i].type = "ALIVE"
  BY DEF Questioned, Range
<1>6. i \in DOMAIN q /\ r[i] = q[i]
  <2>1. \A j \in DOMAIN s : s[j].type # "ALIVE"
    BY ElementOfSeq DEF Silent
  <2>2. i \notin DOMAIN q => i - Len(q) \in DOMAIN s /\ r[i] = s[i - Len(q)]
    BY <1>3, <1>4
  <2> QED BY <1>3, <1>4, <1>5, <2>1, <2>2
<1> QED
  BY <1>5, <1>6 DEF Questioned, Range

LEMMA TameCalmer ==
  ASSUME TypeInv, NEW l \in Leader, NEW Q \in Net, NEW D, Sound(l, D), NEW E, Sound(l, E), Tame(D, E),
         NEW c \in Client
  PROVE  Calmer(c, Around(Q, l, E), Around(Q, l, D))
<1> DEFINE v == Around(Q, l, E)
           w == Around(Q, l, D)
<1>1. Surrounds(v, Q, l, E)
  BY AroundParts
<1>2. Surrounds(w, Q, l, D)
  BY AroundParts
<1>3. v.tries = w.tries
  BY DEF Around
<1> HIDE DEF v, w
<1>10. /\ v.mail[c][l] = mail[c][l] \o E.mail[c] /\ w.mail[c][l] = mail[c][l] \o D.mail[c]
       /\ \A d \in Leader \ {l} : v.mail[c][d] = w.mail[c][d]
  <2>1. v.mail[c][l] = mail[c][l] \o E.mail[c] /\ \A d \in Leader \ {l} : v.mail[c][d] = mail[c][d]
    BY <1>1, Zenon DEF Surrounds
  <2>2. w.mail[c][l] = mail[c][l] \o D.mail[c] /\ \A d \in Leader \ {l} : w.mail[c][d] = mail[c][d]
    BY <1>2, Zenon DEF Surrounds
  <2> QED BY <2>1, <2>2
<1>4. /\ D.out \in [Leader -> Seq(Message)] /\ D.mail[c] \in Seq(Notice) /\ mail[c][l] \in Seq(Notice)
      /\ \A n \in Node, d \in Leader : Q[n][d] \in Seq(Message)
      /\ Idle \subseteq Message /\ Silent \subseteq Notice
  BY DEF Sound, Context, TypeInv, TypeOK, Net, Idle, Silent
<1>5. Questioned(v.mail[c][l]) => Questioned(w.mail[c][l])
  <2>1. Grown(v.mail[c][l], w.mail[c][l], Silent)
    BY <1>10, <1>4, GrownAfter DEF Tame
  <2>2. w.mail[c][l] \in Seq(Notice)
    BY <1>2, <1>4, ConcatProperties DEF Surrounds
  <2> QED BY <2>1, <2>2, SilentAdded
<1>6. ASSUME NEW n \in Node, NEW d \in Leader PROVE Fewer(c, v.net[n][d], w.net[n][d])
  <2>1. w.net[n][d] \in Seq(Message)
    BY <1>2 DEF Typed, Surrounds
  <2>2. CASE n = l
    <3>1. Grown(Q[n][d] \o E.out[d], Q[n][d] \o D.out[d], Idle)
      BY <1>4, GrownAfter DEF Tame
    <3> QED BY <1>1, <1>2, <2>1, <2>2, <3>1, FewerGrown DEF Surrounds
  <2>3. CASE n # l
    BY <1>1, <1>2, <2>1, <2>3, FewerItself DEF Surrounds
  <2> QED BY <2>2, <2>3
<1>7. \A d \in Leader : /\ \A u \in v.tickets[d] : \E t \in w.tickets[d] : Alike(u, t)
                        /\ Single(w.tickets[d], c) => Single(v.tickets[d], c)
  BY <1>1, <1>2 DEF Tame, Alike, Surrounds
<1>8. \A d \in Leader : Questioned(v.mail[c][d]) => Questioned(w.mail[c][d])
  BY <1>10, <1>5
<1>9. Calmer(c, v, w)
  BY <1>3, <1>6, <1>7, <1>8 DEF Calmer
<1> QED
  BY <1>9 DEF v, w

LEMMA KeepFit ==
  ASSUME TypeInv, NEW l \in Leader, NEW Q \in Net, NEW D, Sound(l, D), NEW E, Sound(l, E), Tame(D, E),
         NEW home \in [Client -> Leader], NEW W, Fit(home, W, Q, l, D)
  PROVE  Fit(home, W, Q, l, E)
BY TameCalmer, CalmerAlways DEF Fit


LEMMA AppendAfter ==
  ASSUME NEW p \in Seq(Message), NEW q \in Seq(Message), NEW m \in Message
  PROVE  p \o Append(q, m) = Append(p \o q, m)
<1>1. <<m>> \in Seq(Message) /\ p \o q \in Seq(Message)
  BY ConcatProperties
<1>2. (p \o q) \o <<m>> = p \o (q \o <<m>>)
  BY <1>1, Associative
<1>3. Append(q, m) = q \o <<m>> /\ Append(p \o q, m) = (p \o q) \o <<m>>
  BY <1>1, AppendIsConcat
<1> QED
  BY <1>2, <1>3

\* A handler says something about client c to other leaders.
LEMMA SpeakFit ==
  ASSUME TypeInv, NEW l \in Leader, NEW Q \in Net, NEW D, Sound(l, D), NEW E, Sound(l, E),
         NEW home \in [Client -> Leader], NEW W, Fit(home, W, Q, l, D),
         NEW c \in Client, Begun(c, home[c], Q),
         NEW m \in Message, m.key.client = c, m.type \in Vital \ {"LOCK"},
         E.tickets = D.tickets, E.mail = D.mail,
         \A d \in Leader : \/ E.out[d] = D.out[d]
                           \/ E.out[d] = Append(D.out[d], m) /\ Routed(c, home[c], W, l, d, m),
         m.type = "ADD_TICKET" => home[c] = l /\ Unannounced(c, l, Around(Q, l, D))
  PROVE  Fit(home, W, Q, l, E)
<1> DEFINE v == Around(Q, l, E)
           w == Around(Q, l, D)
<1>1. Surrounds(v, Q, l, E)
  BY AroundParts
<1>2. Surrounds(w, Q, l, D)
  BY AroundParts
<1>3. v.tries = w.tries /\ v.tickets = w.tickets /\ v.mail = w.mail
  BY DEF Around, Delivered
<1>4. Numbering(home, W, w)
  BY DEF Fit
<1>5. m.type = "ADD_TICKET" => Unannounced(c, home[c], w)
  OBVIOUS
<1> HIDE DEF v, w
<1>6. ASSUME NEW n \in Node, NEW d \in Leader
      PROVE  \/ v.net[n][d] = w.net[n][d]
             \/ v.net[n][d] = Append(w.net[n][d], m) /\ Routed(c, home[c], W, n, d, m)
  <2>1. /\ v.net[n][d] = IF n = l THEN Q[n][d] \o E.out[d] ELSE Q[n][d]
        /\ w.net[n][d] = IF n = l THEN Q[n][d] \o D.out[d] ELSE Q[n][d]
    <3>1. v.net[n][d] = IF n = l THEN Q[n][d] \o E.out[d] ELSE Q[n][d]
      BY <1>1, Zenon DEF Surrounds
    <3>2. w.net[n][d] = IF n = l THEN Q[n][d] \o D.out[d] ELSE Q[n][d]
      BY <1>2, Zenon DEF Surrounds
    <3> QED BY <3>1, <3>2
  <2>2. Q[n][d] \in Seq(Message) /\ D.out[d] \in Seq(Message)
    BY DEF Net, Sound, Context
  <2>3. Q[n][d] \o Append(D.out[d], m) = Append(Q[n][d] \o D.out[d], m)
    BY <2>2, AppendAfter
  <2> QED BY <2>1, <2>3
<1>7. ~New(c, home[c], w) /\ Typed(w)
  BY <1>2 DEF Surrounds
<1>8. \A d \in Client, x \in Leader : Questioned(v.mail[d][x]) => Questioned(w.mail[d][x])
  BY <1>3
<1>9. Numbering(home, W, v)
  BY <1>3, <1>4, <1>5, <1>6, <1>7, <1>8, SayNumbering
<1> QED
  BY <1>9 DEF Fit, v

LEMMA AppendEach ==
  ASSUME NEW f \in [Leader -> Seq(Message)], NEW m \in Message
  PROVE  \A d \in Leader : Append(f[d], m) = f[d] \o <<m>>
BY AppendIsConcat

\* The leader of the client tells all others.
LEMMA SendFit ==
  ASSUME TypeInv, NEW l \in Leader, NEW Q \in Net, NEW D, Sound(l, D),
         NEW home \in [Client -> Leader], NEW W, Fit(home, W, Q, l, D),
         NEW c \in Client, home[c] = l, Begun(c, l, Q),
         NEW m \in Message, m.key.client = c,
         m.type \in {"LOCK_ENTERING", "GET_MAX_TICKET", "ADD_TICKET"},
         m.type = "ADD_TICKET" => m.key.number <= Given(W) /\ Unannounced(c, l, Around(Q, l, D))
  PROVE  Fit(home, W, Q, l, SendToLeaders(D, m))
<1> DEFINE E == SendToLeaders(D, m)
<1>1. Sound(l, E) /\ E.tickets = D.tickets
  BY SendSound
<1>2. /\ D.out \in [Leader -> Seq(Message)] /\ E.mail = D.mail
      /\ \A d \in Leader : E.out[d] \in {D.out[d], D.out[d] \o <<m>>}
  BY DEF SendToLeaders, SendAllToLeaders, Sound, Context
<1> HIDE DEF E
<1>3. \A d \in Leader : Append(D.out[d], m) = D.out[d] \o <<m>>
  BY <1>2, AppendEach
<1>4. m.type \in Vital \ {"LOCK"} /\ \A d \in Leader : Routed(c, home[c], W, l, d, m)
  BY DEF Vital, Routed
<1>5. /\ \A d \in Leader : \/ E.out[d] = D.out[d]
                           \/ E.out[d] = Append(D.out[d], m) /\ Routed(c, home[c], W, l, d, m)
      /\ home[c] = l /\ Begun(c, home[c], Q)
  BY <1>2, <1>3, <1>4
<1>7. Fit(home, W, Q, l, E)
  BY <1>1, <1>2, <1>4, <1>5, SpeakFit, SMTT(60)
<1> QED
  BY <1>7 DEF E

\* Another leader answers the one of the client.
LEMMA ReplyFit ==
  ASSUME TypeInv, NEW l \in Leader, NEW Q \in Net, NEW D, Sound(l, D),
         NEW home \in [Client -> Leader], NEW W, Fit(home, W, Q, l, D),
         NEW c \in Client, NEW s \in Leader, s # l, home[c] = s, Begun(c, s, Q),
         NEW m \in Message, m.key.client = c, m.type \in {"LOCK_ENTERED", "MAX_TICKET"},
         m.type = "MAX_TICKET" => m.value <= Given(W)
  PROVE  Fit(home, W, Q, l, Tell(D, s, m))
<1> DEFINE E == Tell(D, s, m)
<1>1. Sound(l, E) /\ E.tickets = D.tickets
  BY TellSound
<1>2. E.mail = D.mail /\ \A d \in Leader : E.out[d] = IF d = s THEN Append(D.out[d], m) ELSE D.out[d]
  BY DEF Tell, Sound, Context
<1> HIDE DEF E
<1>3. m.type \in Vital \ {"LOCK"} /\ Routed(c, home[c], W, l, s, m)
  BY DEF Vital, Routed
<1>4. Fit(home, W, Q, l, E)
  BY <1>1, <1>2, <1>3, SpeakFit
<1> QED
  BY <1>4 DEF E

\* A handler changes nothing but its table.
LEMMA ChangedAround ==
  ASSUME TypeInv, NEW l \in Leader, NEW Q \in Net, NEW D, Sound(l, D), NEW E, Sound(l, E),
         E.out = D.out, E.mail = D.mail
  PROVE  Changed(Around(Q, l, E), Around(Q, l, D), l, E.tickets)
<1>1. tickets \in [Leader -> SUBSET Ticket]
  BY DEF TypeInv, TypeOK
<1> QED
  BY <1>1 DEF Changed, Around, Delivered

LEMMA OthersFit ==
  ASSUME TypeInv, NEW l \in Leader, NEW Q \in Net, NEW D, Sound(l, D), NEW E, Sound(l, E),
         E.out = D.out, E.mail = D.mail, NEW c,
         \A u \in E.tickets : u.client # c => u \in D.tickets,
         NEW home \in [Client -> Leader], NEW W, Fit(home, W, Q, l, D)
  PROVE  \A d \in Client \ {c} : Orderly(d, home[d], W, Around(Q, l, E))
<1> DEFINE v == Around(Q, l, E)
           w == Around(Q, l, D)
<1>1. Surrounds(w, Q, l, D)
  BY AroundParts
<1>2. Changed(v, w, l, E.tickets)
  BY ChangedAround
<1>3. Numbering(home, W, w)
  BY DEF Fit
<1> HIDE DEF v, w
<1>4. Typed(w) /\ w.tickets[l] = D.tickets
  BY <1>1 DEF Surrounds
<1>5. ASSUME NEW d \in Client \ {c} PROVE Orderly(d, home[d], W, v)
  <2>1. Orderly(d, home[d], W, w) /\ home[d] \in Leader
    BY <1>3 DEF Numbering
  <2>2. \A u \in E.tickets : u.client = d => u \in w.tickets[l]
    BY <1>4
  <2>3. Calmer(d, v, w)
    BY <1>2, <1>4, <2>2, ChangedCalmer
  <2> QED BY <2>1, <2>3, CalmerOrderly
<1> QED
  BY <1>5 DEF v


LEMMA GivenType ==
  ASSUME NEW W \in SUBSET Client
  PROVE  Given(W) \in Nat
BY ClientAssumption, FS_Subset, FS_CardinalityType DEF Given

\* The leader of a client asks whether it lives.
LEMMA AskFit ==
  ASSUME TypeInv, NEW l \in Leader, NEW Q \in Net, NEW D, Sound(l, D),
         NEW home \in [Client -> Leader], NEW W, Fit(home, W, Q, l, D),
         NEW c \in Client, home[c] = l, Begun(c, l, Q)
  PROVE  Fit(home, W, Q, l, TellClient(D, c, Note("ALIVE")))
<1> DEFINE E == TellClient(D, c, Note("ALIVE"))
           v == Around(Q, l, E)
           w == Around(Q, l, D)
<1>1. Sound(l, E)
  BY NoteType, TellClientSound
<1>2. E.tickets = D.tickets /\ E.out = D.out /\ \A d \in Client : d # c => E.mail[d] = D.mail[d]
  BY DEF TellClient, Sound, Context
<1>3. Surrounds(w, Q, l, D)
  BY AroundParts
<1>4. Surrounds(v, Q, l, E)
  BY <1>1, AroundParts
<1>5. v.tickets = w.tickets /\ v.net = w.net /\ v.tries = w.tries
  BY <1>2 DEF Around
<1>6. Numbering(home, W, w)
  BY DEF Fit
<1> HIDE DEF v, w, E
<1>7. /\ \A d \in Client, x \in Leader : x # l => v.mail[d][x] = w.mail[d][x]
      /\ \A d \in Client : d # c => v.mail[d][l] = w.mail[d][l]
  <2>1. \A d \in Client : /\ v.mail[d][l] = mail[d][l] \o E.mail[d]
                          /\ \A x \in Leader \ {l} : v.mail[d][x] = mail[d][x]
    BY <1>4, Zenon DEF Surrounds
  <2>2. \A d \in Client : /\ w.mail[d][l] = mail[d][l] \o D.mail[d]
                          /\ \A x \in Leader \ {l} : w.mail[d][x] = mail[d][x]
    BY <1>3, Zenon DEF Surrounds
  <2>3. ASSUME NEW d \in Client, NEW x \in Leader \ {l} PROVE v.mail[d][x] = w.mail[d][x]
    <3>1. v.mail[d][x] = mail[d][x]
      BY <2>1
    <3>2. w.mail[d][x] = mail[d][x]
      BY <2>2
    <3> QED BY <3>1, <3>2
  <2>4. ASSUME NEW d \in Client, d # c PROVE v.mail[d][l] = w.mail[d][l]
    <3>1. v.mail[d][l] = mail[d][l] \o E.mail[d]
      BY <2>1
    <3>2. w.mail[d][l] = mail[d][l] \o D.mail[d]
      BY <2>2
    <3> QED BY <1>2, <2>4, <3>1, <3>2
  <2> QED BY <2>3, <2>4
<1>8. ASSUME NEW d \in Client, d # c PROVE Orderly(d, home[d], W, v)
  <2>1. \A s \in Node, x \in Leader : Fewer(d, v.net[s][x], w.net[s][x])
    BY <1>3, <1>5, FewerItself DEF Surrounds, Typed
  <2>2. Calmer(d, v, w)
    BY <1>5, <1>7, <1>8, <2>1 DEF Calmer, Alike
  <2> QED BY <1>6, <2>2, CalmerOrderly DEF Numbering
<1>9. Orderly(c, l, W, v)
  <2>1. ~New(c, l, w) /\ ~New(c, l, v)
    BY <1>3, <1>5 DEF Surrounds, New
  <2>2. Orderly(c, l, W, w)
    BY <1>6 DEF Numbering
  <2>3. Placed(c, l, W, v)
    BY <1>5, <1>7, <2>2 DEF Orderly, Placed
  <2>4. Once(c, l, v)
    BY <1>5, <2>1, <2>2 DEF Orderly, Once
  <2>5. Added(c, l, W, v)
    BY <1>5, <2>1, <2>2 DEF Orderly, Added
  <2> QED BY <2>3, <2>4, <2>5 DEF Orderly
<1>10. Numbering(home, W, v)
  BY <1>8, <1>9 DEF Numbering
<1> QED
  BY <1>10 DEF Fit, v, E

\* What the leaders know of one client, around a handler.
LEMMA OneFit ==
  ASSUME TypeInv, NEW l \in Leader, NEW Q \in Net, NEW D, Sound(l, D),
         NEW home \in [Client -> Leader], NEW W, Fit(home, W, Q, l, D), NEW c \in Client
  PROVE  LET w == Around(Q, l, D)
         IN  /\ Orderly(c, home[c], W, w) /\ Typed(w) /\ w.tickets[l] = D.tickets
             /\ \A d \in Leader : w.tickets[d] \subseteq Ticket
             /\ Begun(c, home[c], Q) <=> ~New(c, home[c], w)
<1> DEFINE w == Around(Q, l, D)
<1>1. Surrounds(w, Q, l, D)
  BY AroundParts
<1>2. Numbering(home, W, w)
  BY DEF Fit
<1> HIDE DEF w
<1>3. Orderly(c, home[c], W, w)
  BY <1>2 DEF Numbering
<1>4. Typed(w) /\ w.tickets[l] = D.tickets /\ \A d \in Leader : w.tickets[d] \subseteq Ticket
  BY <1>1, Zenon DEF Surrounds
<1>5. Begun(c, home[c], Q) <=> ~New(c, home[c], w)
  BY <1>1 DEF Surrounds
<1> QED
  BY <1>3, <1>4, <1>5 DEF w

LEMMA JoinFit ==
  ASSUME NEW l, NEW Q, NEW E, NEW home \in [Client -> Leader], NEW W, NEW c \in Client,
         \A d \in Client \ {c} : Orderly(d, home[d], W, Around(Q, l, E)),
         Orderly(c, home[c], W, Around(Q, l, E))
  PROVE  Fit(home, W, Q, l, E)
BY DEF Fit, Numbering

\* A ticket is made.
LEMMA AddFit ==
  ASSUME TypeInv, NEW l \in Leader, NEW Q \in Net, NEW D, Sound(l, D),
         NEW home \in [Client -> Leader], NEW W \in SUBSET Client, Fit(home, W, Q, l, D),
         NEW t \in Ticket, ~t.listed, t.entering, t.owner = home[t.client], t.number = 0, ~t.added,
         Begun(t.client, home[t.client], Q),
         l = home[t.client] => Untold(t.client, Around(Q, l, D)) /\ t.client \in W
  PROVE  Fit(home, W, Q, l, [D EXCEPT !.tickets = @ \cup {t}])
<1> DEFINE E == [D EXCEPT !.tickets = @ \cup {t}]
           c == t.client
           v == Around(Q, l, E)
           w == Around(Q, l, D)
<1>1. c \in Client
  BY DEF Ticket
<1>2. Sound(l, E)
  BY AddSound
<1>3. E.out = D.out /\ E.mail = D.mail /\ E.tickets = D.tickets \cup {t}
  BY DEF Sound, Context
<1>4. Orderly(c, home[c], W, w) /\ w.tickets[l] = D.tickets /\ ~New(c, home[c], w)
  BY <1>1, OneFit
<1> HIDE DEF E
<1>5. Changed(v, w, l, E.tickets)
  BY <1>2, <1>3, ChangedAround
<1>6. \A d \in Client \ {c} : Orderly(d, home[d], W, v)
  BY <1>2, <1>3, OthersFit
<1>7. l = home[c] => Untold(c, w) /\ c \in W
  OBVIOUS
<1> HIDE DEF v, w
<1>8. Orderly(c, home[c], W, v)
  BY <1>1, <1>3, <1>4, <1>5, <1>7, ChangedAdd
<1>9. Fit(home, W, Q, l, E)
  BY <1>1, <1>6, <1>8, JoinFit DEF v
<1> QED
  BY <1>9 DEF E


\* A leader changes the ticket of one of its clients, but not that it has its number.
LEMMA HomeFit ==
  ASSUME TypeInv, NEW l \in Leader, NEW Q \in Net, NEW D, Sound(l, D),
         NEW home \in [Client -> Leader], NEW W, Fit(home, W, Q, l, D),
         NEW t \in D.tickets, home[t.client] = l, NEW u, u.client = t.client, u.owner = t.owner,
         u.added = t.added, u.number <= Given(W), Sound(l, Update(D, t, u))
  PROVE  Fit(home, W, Q, l, Update(D, t, u))
<1> DEFINE E == Update(D, t, u)
           c == t.client
           v == Around(Q, l, E)
           w == Around(Q, l, D)
<1>1. c \in Client /\ Sound(l, E)
  BY DEF Sound, Context, Ticket
<1>2. E.out = D.out /\ E.mail = D.mail /\ E.tickets \subseteq (D.tickets \ {t}) \cup {u}
  BY DEF Sound, Context, Update, Alive
<1>3. Orderly(c, l, W, w) /\ w.tickets[l] = D.tickets
  BY <1>1, OneFit
<1> HIDE DEF E
<1>4. Changed(v, w, l, E.tickets)
  BY <1>1, <1>2, ChangedAround
<1>5. \A x \in E.tickets : x.client # c => x \in D.tickets
  BY <1>2
<1>6. \A d \in Client \ {c} : Orderly(d, home[d], W, v)
  BY <1>1, <1>2, <1>5, OthersFit
<1> HIDE DEF v, w
<1>7. \A x \in D.tickets : x.client = c => x = t /\ x.owner = l
  BY <1>3 DEF Orderly, Placed, Single
<1>8. \A x \in E.tickets : x.client = c => x = u
  BY <1>2, <1>7
<1>9. Revised(E.tickets, w.tickets[l], c, l, W)
  BY <1>3, <1>7, <1>8 DEF Single, Revised
<1> HIDE DEF c
<1>10. Orderly(c, l, W, v)
  BY <1>1, <1>3, <1>4, <1>9, ChangedHome
<1>11. Fit(home, W, Q, l, E)
  BY <1>1, <1>6, <1>10, JoinFit DEF v, c
<1> QED
  BY <1>11 DEF E

\* No leader has a number that was not given out.
LEMMA LastFit ==
  ASSUME TypeInv, NEW l \in Leader, NEW Q \in Net, NEW D, Sound(l, D),
         NEW home \in [Client -> Leader], NEW W \in SUBSET Client, Fit(home, W, Q, l, D)
  PROVE  LastTicket(D) <= Given(W)
<1>1. \A t \in D.tickets : t.client \in Client /\ t.number \in Nat
  BY NumberAssumption DEF Sound, Context, Ticket, Number
<1>2. ASSUME NEW t \in D.tickets PROVE t.number <= Given(W)
  <2>1. /\ Orderly(t.client, home[t.client], W, Around(Q, l, D))
        /\ Around(Q, l, D).tickets[l] = D.tickets
    BY <1>1, OneFit
  <2> QED BY <2>1 DEF Orderly, Placed
<1>3. CASE Listed(D) = {}
  BY <1>3, GivenType DEF LastTicket
<1>4. CASE Listed(D) # {}
  <2>1. PICK t \in Listed(D) : LastTicket(D) = t.number
    BY <1>4, LastTicketType DEF Sound, Context
  <2> QED BY <1>2, <2>1 DEF Listed
<1> QED
  BY <1>3, <1>4


\* The leader of a client sets the ticket in its table: nothing else has its key.
LEMMA SetFit ==
  ASSUME TypeInv, NEW l \in Leader, NEW Q \in Net, NEW D, Sound(l, D),
         NEW home \in [Client -> Leader], NEW W \in SUBSET Client, Fit(home, W, Q, l, D),
         NEW t \in D.tickets, home[t.client] = l, Begun(t.client, l, Q), ~t.added,
         NEW u, u.client = t.client, u.owner = t.owner, u.added, u.number <= Given(W \ {t.client}),
         Sound(l, SetTicket(D, t, u)), u \in SetTicket(D, t, u).tickets
  PROVE  /\ t.client \in W
         /\ Fit(home, W \ {t.client}, Q, l, SetTicket(D, t, u))
         /\ Unannounced(t.client, l, Around(Q, l, SetTicket(D, t, u)))
<1> DEFINE E == SetTicket(D, t, u)
           c == t.client
           X == W \ {c}
           v == Around(Q, l, E)
           w == Around(Q, l, D)
           others == {x \in D.tickets \ {t} : x.listed /\ KeyOf(x) = KeyOf(u)}
<1>1. c \in Client /\ Sound(l, E) /\ u \in E.tickets
  BY DEF Sound, Context, Ticket
<1>2. /\ Orderly(c, l, W, w) /\ w.tickets[l] = D.tickets /\ ~New(c, l, w) /\ Typed(w)
      /\ \A d \in Leader : w.tickets[d] \subseteq Ticket
  BY <1>1, OneFit
<1>3. \A d \in Client : Orderly(d, home[d], W, w)
  BY DEF Fit, Numbering
<1> HIDE DEF w
<1>4. \A x \in D.tickets : x.client = c => x = t /\ x.owner = l
  BY <1>2 DEF Orderly, Placed, Single
<1>5. others = {}
  BY <1>4 DEF KeyOf
<1>6. E.out = D.out /\ E.mail = D.mail /\ E.tickets \subseteq (D.tickets \ {t}) \cup {u}
  <2>1. E = [D EXCEPT !.tickets = Alive((@ \ (others \cup {t}))
                                    \cup {[x EXCEPT !.listed = FALSE] : x \in others} \cup {u})]
    BY DEF SetTicket
  <2>2. E = [D EXCEPT !.tickets = Alive((D.tickets \ {t}) \cup {u})]
    BY <1>5, <2>1
  <2> HIDE DEF E
  <2> QED BY <2>2 DEF Sound, Context, Alive
<1> HIDE DEF E
<1>7. Changed(v, w, l, E.tickets)
  BY <1>1, <1>6, ChangedAround DEF w
<1>8. ~Counted(w.tickets[l], c)
  BY <1>2 DEF Counted
<1>9. c \in W
  BY <1>2, <1>8 DEF Orderly, Added
<1>10. \A x \in E.tickets : x.client # c => x \in D.tickets
  BY <1>6
<1>11. ASSUME NEW d \in Client \ {c} PROVE Orderly(d, home[d], X, v)
  <2>1. \A x \in E.tickets : x.client = d => x \in w.tickets[l]
    BY <1>2, <1>10
  <2> HIDE DEF v, c
  <2>2. Calmer(d, v, w)
    BY <1>2, <1>7, <2>1, ChangedCalmer
  <2>3. Orderly(d, home[d], X, w)
    BY <1>2, <1>3, <1>9, GivenOrderly
  <2> QED BY <2>2, <2>3, CalmerOrderly
<1>12. \A x \in E.tickets : x.client = c => x = u
  BY <1>4, <1>6
<1>13. u.owner = l
  BY <1>4
<1> HIDE DEF v, c
<1>14. Orderly(c, l, X, v)
  BY <1>2, <1>7, <1>8, <1>9, <1>12, <1>13, ChangedGiven DEF c
<1>15. Fit(home, X, Q, l, E)
  BY <1>1, <1>11, <1>14, JoinFit DEF v, c
<1>16. Unannounced(c, l, v)
  <2>1. Counted(v.tickets[l], c)
    BY <1>7, <1>12 DEF Changed, Counted
  <2>2. \A d \in Leader : /\ Kind(w.net[l][d], c, "ADD_TICKET") = {}
                          /\ d # l => Plain(w.tickets[d], c)
    BY <1>2, <1>8 DEF Orderly, Added
  <2> QED BY <1>7, <2>1, <2>2 DEF Changed, Unannounced
<1> QED
  BY <1>9, <1>15, <1>16 DEF v, E, c

\* The ticket gets its number, which fits, and the other leaders hear of it.
LEMMA MaxFit ==
  ASSUME TypeInv, Cardinality(Client) <= MaxNumber,
         NEW l \in Leader, NEW Q \in Net, NEW D, Sound(l, D),
         NEW home \in [Client -> Leader], NEW W \in SUBSET Client, Fit(home, W, Q, l, D),
         NEW t \in D.tickets, home[t.client] = l, Begun(t.client, l, Q),
         NEW n \in Nat, n <= Given(W)
  PROVE  /\ ~Overflows(t, n)
         /\ \E X \in SUBSET Client : Fit(home, X, Q, l, MaxTicket(D, t, n))
<1> DEFINE u == Numbered(t, NextNumber(t, n))
           c == t.client
           X == W \ {c}
           F == SetTicket(D, t, u)
           m == [Msg("ADD_TICKET", KeyOf(u)) EXCEPT !.value = t.obtention]
           E == SendToLeaders(F, m)
<1>1. MaxTicket(D, t, n) = IF t.added THEN D ELSE IF OneLeader(D) THEN TicketAdded(E, u) ELSE E
  BY DEF MaxTicket
<1>2. CASE t.added
  BY <1>1, <1>2 DEF Overflows
<1>3. CASE ~t.added
  <2>1. t \in Ticket /\ c \in Client /\ now \in Nat
    BY DEF Sound, Context, Ticket, TypeInv, TypeOK
  <2>2. t.number \in Nat /\ t.number <= Given(W) /\ c \in W
    <3>1. Orderly(c, l, W, Around(Q, l, D)) /\ Around(Q, l, D).tickets[l] = D.tickets
      BY <2>1, OneFit
    <3>2. ~Counted(D.tickets, c)
      BY <1>3 DEF Counted
    <3>3. t.number \in Nat
      BY <2>1, NumberAssumption DEF Ticket, Number
    <3> QED BY <3>1, <3>2, <3>3 DEF Orderly, Placed, Added
  <2>3. /\ Given(X) = Given(W) + 1 /\ Given(W) \in Nat /\ Given(W) < Cardinality(Client)
        /\ Cardinality(Client) \in Nat /\ MaxNumber \in Nat
    BY <2>2, GivenMore, ClientAssumption, FS_CardinalityType, NumberAssumption
  <2>4. NextNumber(t, n) \in Nat /\ NextNumber(t, n) <= Given(X) /\ NextNumber(t, n) <= MaxNumber
    BY <2>2, <2>3 DEF NextNumber
  <2>5. ~Overflows(t, n)
    BY <2>3, <2>4 DEF Overflows
  <2>6. NextNumber(t, n) \in Number
    BY <2>3, <2>4 DEF Number
  <2>7. /\ u \in Ticket /\ u.listed /\ u.client = c /\ u.owner = t.owner /\ u.added
        /\ u.number = NextNumber(t, n) /\ u.rank = NextNumber(t, n)
    BY <2>1, <2>6 DEF Ticket, Numbered
  <2>8. /\ m \in Message /\ m.type = "ADD_TICKET" /\ m.key.client = c
        /\ m.key.number = NextNumber(t, n)
    <3>1. t.obtention \in Nat
      BY <2>1 DEF Ticket
    <3> HIDE DEF u
    <3>2. KeyOf(u) \in Key /\ KeyOf(u).client = c /\ KeyOf(u).number = NextNumber(t, n)
      BY <2>7, KeyTypes DEF KeyOf
    <3> QED BY <3>1, <3>2, MsgType DEF Msg
  <2> HIDE DEF u, m
  <2>9. Sound(l, F) /\ u \in F.tickets
    BY <2>7, SetTicketSound
  <2>10. Fit(home, X, Q, l, F) /\ Unannounced(c, l, Around(Q, l, F))
    BY <1>3, <2>4, <2>7, <2>9, SetFit
  <2> HIDE DEF F
  <2>11. Sound(l, E) /\ u \in E.tickets
    BY <2>8, <2>9, SendSound
  <2>12. Fit(home, X, Q, l, E)
    BY <2>1, <2>4, <2>8, <2>9, <2>10, SendFit
  <2> HIDE DEF E
  <2>13. Fit(home, X, Q, l, TicketAdded(E, u))
    BY <2>1, <2>11, <2>12, TicketAddedTame, TicketAddedSound, KeepFit
  <2>14. X \in SUBSET Client
    OBVIOUS
  <2> QED BY <1>1, <1>3, <2>5, <2>12, <2>13, <2>14
<1> QED
  BY <1>2, <1>3


\* The leader of a client asks the others for their last number.
LEMMA EnteredFit ==
  ASSUME TypeInv, Cardinality(Client) <= MaxNumber,
         NEW l \in Leader, NEW Q \in Net, NEW D, Sound(l, D),
         NEW home \in [Client -> Leader], NEW W \in SUBSET Client, Fit(home, W, Q, l, D),
         NEW t \in D.tickets, t.entering, home[t.client] = l, Begun(t.client, l, Q)
  PROVE  /\ ~EnterOverflows(D, t)
         /\ \E X \in SUBSET Client : Fit(home, X, Q, l, Entered(D, t))
<1> DEFINE c == t.client
           u == [t EXCEPT !.maxAsked = TRUE, !.number = LastTicket(D)]
           F == Update(D, t, u)
           m == Msg("GET_MAX_TICKET", EnteringKey(c))
           E == SendToLeaders(F, m)
<1>1. Entered(D, t) = IF t.maxAsked THEN D ELSE IF OneLeader(D) THEN MaxTicket(E, u, u.number) ELSE E
  BY DEF Entered
<1>2. t \in Ticket /\ c \in Client /\ now \in Nat
  BY DEF Sound, Context, Ticket, TypeInv, TypeOK
<1>3. LastTicket(D) \in Number /\ LastTicket(D) \in Nat /\ LastTicket(D) <= Given(W)
  <2>1. LastTicket(D) \in Number
    BY LastTicketType DEF Sound, Context
  <2>2. LastTicket(D) <= Given(W)
    BY LastFit
  <2> QED BY <2>1, <2>2, NumberAssumption DEF Number
<1>4. ~EnterOverflows(D, t)
  <2>1. ~Overflows(t, LastTicket(D))
    BY <1>3, MaxFit
  <2>2. t.number \in Nat
    BY <1>2, NumberAssumption DEF Ticket, Number
  <2> QED BY <1>3, <2>1, <2>2, NumberAssumption DEF Overflows, EnterOverflows, NextNumber
<1>5. CASE t.maxAsked
  BY <1>1, <1>4, <1>5
<1>6. CASE ~t.maxAsked
  <2>1. /\ u \in Ticket /\ u.client = c /\ u.owner = t.owner /\ u.added = t.added
        /\ u.number = LastTicket(D) /\ u.entering /\ u.listed = t.listed /\ KeyOf(u) = KeyOf(t)
    BY <1>2, <1>3 DEF Ticket, KeyOf
  <2>2. m \in Message /\ m.type = "GET_MAX_TICKET" /\ m.key.client = c
    BY <1>2, KeyTypes, MsgType DEF Msg, EnteringKey
  <2> HIDE DEF u, m
  <2>3. Sound(l, F) /\ u \in F.tickets
    BY <2>1, UpdateSound
  <2>4. Fit(home, W, Q, l, F)
    BY <1>3, <2>1, <2>3, HomeFit
  <2> HIDE DEF F
  <2>5. Sound(l, E) /\ u \in E.tickets
    BY <2>2, <2>3, SendSound
  <2>6. Fit(home, W, Q, l, E)
    BY <1>2, <2>2, <2>3, <2>4, SendFit
  <2> HIDE DEF E
  <2>7. \E X \in SUBSET Client : Fit(home, X, Q, l, MaxTicket(E, u, u.number))
    BY <1>3, <2>1, <2>5, <2>6, MaxFit
  <2> QED BY <1>1, <1>4, <1>6, <2>6, <2>7
<1> QED
  BY <1>5, <1>6

\* The leader of a client makes its ticket known.
LEMMA EnterFit ==
  ASSUME TypeInv, Cardinality(Client) <= MaxNumber,
         NEW l \in Leader, NEW Q \in Net, NEW D, Sound(l, D),
         NEW home \in [Client -> Leader], NEW W \in SUBSET Client, Fit(home, W, Q, l, D),
         NEW t \in D.tickets, t.entering, home[t.client] = l, Begun(t.client, l, Q)
  PROVE  /\ ~EnterOverflows(D, t)
         /\ \E X \in SUBSET Client : Fit(home, X, Q, l, Enter(D, t))
<1> DEFINE c == t.client
           m == [Msg("LOCK_ENTERING", EnteringKey(c)) EXCEPT !.value = t.obtention]
           E == SendToLeaders(D, m)
<1>1. Enter(D, t) = IF OneLeader(D) THEN Entered(E, t) ELSE E
  BY DEF Enter
<1>2. t \in Ticket /\ c \in Client /\ t.obtention \in Nat
  BY DEF Sound, Context, Ticket
<1>3. m \in Message /\ m.type = "LOCK_ENTERING" /\ m.key.client = c
  BY <1>2, KeyTypes, MsgType DEF Msg, EnteringKey
<1> HIDE DEF m
<1>4. Sound(l, E) /\ t \in E.tickets
  BY <1>3, SendSound
<1>5. Fit(home, W, Q, l, E)
  BY <1>2, <1>3, SendFit
<1> HIDE DEF E
<1>6. \E X \in SUBSET Client : Fit(home, X, Q, l, Entered(E, t))
  BY <1>4, <1>5, EnteredFit
<1> QED
  BY <1>1, <1>5, <1>6, EnteredFit

-----------------------------------------------------------------------------
(* A message is read.                                                      *)

\* The world that leader l finds when it has read a message or none.
LEMMA StartFit ==
  ASSUME TypeInv, NEW l \in Leader, NEW Q \in Net,
         \A c \in Client, n \in Node, d \in Leader : Fewer(c, Q[n][d], net[n][d]),
         NEW home \in [Client -> Leader], NEW W, Numbering(home, W, Now)
  PROVE  /\ Sound(l, Here(l)) /\ Fit(home, W, Q, l, Here(l))
         /\ \A c \in Client : Calmer(c, Around(Q, l, Here(l)), Now)
<1> DEFINE D == Here(l)
           w == Around(Q, l, D)
<1>1. mail \in [Client -> [Leader -> Seq(Notice)]]
  BY DEF TypeInv, TypeOK
<1>2. Sound(l, D) /\ D.tickets = tickets[l]
  BY HereSound
<1>3. D.out = [d \in Leader |-> <<>>] /\ D.mail = [c \in Client |-> <<>>]
  BY DEF Here, Start
<1>4. Surrounds(w, Q, l, D)
  BY <1>2, AroundParts
<1>5. w.tries = Now.tries
  BY DEF Around, Now
<1> HIDE DEF w, D
<1>6. \A d \in Leader : w.tickets[d] = tickets[d]
  BY <1>2, <1>4 DEF Surrounds
<1>7. \A c \in Client, d \in Leader : w.mail[c][d] = mail[c][d]
  <2> SUFFICES ASSUME NEW c \in Client, NEW d \in Leader PROVE w.mail[c][d] = mail[c][d]
    OBVIOUS
  <2>1. w.mail[c][l] = mail[c][l] \o D.mail[c] /\ \A x \in Leader \ {l} : w.mail[c][x] = mail[c][x]
    BY <1>4, Zenon DEF Surrounds
  <2>2. mail[c][l] \o D.mail[c] = mail[c][l]
    BY <1>1, <1>3, ConcatEmptySeq
  <2> QED BY <2>1, <2>2
<1>8. \A n \in Node, d \in Leader : w.net[n][d] = Q[n][d]
  <2> SUFFICES ASSUME NEW n \in Node, NEW d \in Leader PROVE w.net[n][d] = Q[n][d]
    OBVIOUS
  <2>1. w.net[n][d] = IF n = l THEN Q[n][d] \o D.out[d] ELSE Q[n][d]
    BY <1>4, Zenon DEF Surrounds
  <2>2. Q[n][d] \o D.out[d] = Q[n][d]
    BY <1>3, ConcatEmptySeq DEF Net
  <2> QED BY <2>1, <2>2
<1>9. \A c \in Client : Calmer(c, w, Now)
  BY <1>5, <1>6, <1>7, <1>8 DEF Calmer, Now, Alike
<1>10. Numbering(home, W, w)
  BY <1>9, CalmerAlways
<1> QED
  BY <1>2, <1>9, <1>10 DEF w, D, Fit

\* What is on its way once leader l has read a message of s.
Rest(s, l) == [net EXCEPT ![s][l] = Tail(@)]

LEMMA ReadFit ==
  ASSUME TypeInv, NEW s \in Node, NEW l \in Leader, net[s][l] # <<>>,
         NEW home \in [Client -> Leader], NEW W, Numbering(home, W, Now)
  PROVE  /\ Rest(s, l) \in Net /\ Sound(l, Here(l)) /\ Fit(home, W, Rest(s, l), l, Here(l))
         /\ \A c \in Client : Calmer(c, Around(Rest(s, l), l, Here(l)), Now)
<1>1. net \in Net
  BY DEF Net, TypeInv, TypeOK
<1>2. Tail(net[s][l]) \in Seq(Message)
  BY <1>1, HeadTailProperties DEF Net
<1>3. Rest(s, l) \in Net
  BY <1>1, <1>2 DEF Net, Rest
<1>4. ASSUME NEW c \in Client, NEW n \in Node, NEW d \in Leader
      PROVE  Fewer(c, Rest(s, l)[n][d], net[n][d])
  <2>1. net[n][d] \in Seq(Message)
    BY <1>1 DEF Net
  <2>2. Rest(s, l)[n][d] = IF n = s /\ d = l THEN Tail(net[n][d]) ELSE net[n][d]
    BY <1>1 DEF Net, Rest
  <2> QED BY <2>1, <2>2, FewerItself, FewerTail
<1> QED
  BY <1>3, <1>4, StartFit

\* A message that comes from the leader of its client or goes there.
LEMMA ReadVital ==
  ASSUME TypeInv, NEW s \in Node, NEW l \in Leader, NEW type \in Vital, Arrived(s, l, type),
         NEW home \in [Client -> Leader], NEW W, Numbering(home, W, Now),
         NEW c \in Client, Received(s, l).key.client = c
  PROVE  Routed(c, home[c], W, s, l, Received(s, l)) /\ Begun(c, home[c], Rest(s, l))
<1> DEFINE h == home[c]
           q == net[s][l]
           m == Received(s, l)
           Q == Rest(s, l)
<1>1. q \in Seq(Message) /\ q # <<>> /\ m = Head(q) /\ m.type = type /\ c \in Client /\ h \in Leader
  BY ReceivedType DEF Arrived, Received, TypeInv, TypeOK
<1>2. Head(q) = q[1] /\ 1 \in DOMAIN q
  BY <1>1, TailElements
<1>3. 1 \in Mine(q, c) /\ 1 \in Kind(q, c, type)
  BY <1>1, <1>2 DEF Mine, Kind
<1>4. Orderly(c, h, W, Now) /\ Now.net = net /\ Now.tries[c] = client[c].tries
  BY <1>1 DEF Numbering, Now
<1>5. Routed(c, h, W, s, l, m)
  BY <1>1, <1>2, <1>3, <1>4 DEF Orderly, Placed
<1>6. CASE type # "LOCK"
  <2>1. ~Untold(c, Now)
    BY <1>1, <1>2, <1>3, <1>4, <1>6 DEF Untold
  <2>2. ~New(c, h, Now)
    BY <1>4, <2>1 DEF Orderly, Once
  <2>3. /\ Q \in Net /\ Sound(l, Here(l)) /\ Fit(home, W, Q, l, Here(l))
        /\ Calmer(c, Around(Q, l, Here(l)), Now)
    BY <1>1, ReadFit
  <2>4. ~New(c, h, Around(Q, l, Here(l)))
    BY <1>1, <2>2, <2>3, CalmerNew
  <2>5. Begun(c, h, Q)
    BY <1>1, <2>3, <2>4, OneFit
  <2> QED BY <1>5, <2>5
<1>7. CASE type = "LOCK"
  <2>1. s = c /\ l = h
    BY <1>1, <1>5, <1>7 DEF Routed
  <2>2. /\ Kind(q, c, "LOCK") # {} /\ Kind(Tail(q), c, "LOCK") = {}
    <3>1. \A i, j \in Kind(q, c, "LOCK") : i = j
      BY <1>4, <2>1 DEF Orderly, Once
    <3>2. Head(q).key.client = c /\ Head(q).type = "LOCK"
      BY <1>1, <1>7
    <3> HIDE DEF q
    <3> QED BY <1>1, <3>1, <3>2, ReadKind
  <2>3. client[c].tries # 0
    BY <1>4, <2>1, <2>2 DEF Orderly, Once
  <2>4. Q[c][h] = Tail(q)
    BY <2>1 DEF TypeInv, TypeOK, Rest
  <2> QED BY <1>5, <2>2, <2>3, <2>4 DEF Begun
<1> QED
  BY <1>6, <1>7

\* Nobody knows a client whose LOCK is read.
LEMMA ReadLock ==
  ASSUME TypeInv, NEW s \in Node, NEW l \in Leader, Arrived(s, l, "LOCK"),
         NEW home \in [Client -> Leader], NEW W, Numbering(home, W, Now),
         NEW c \in Client, Received(s, l).key.client = c
  PROVE  /\ home[c] = l /\ Begun(c, l, Rest(s, l)) /\ c \in W
         /\ Untold(c, Around(Rest(s, l), l, Here(l)))
<1> DEFINE q == net[s][l]
           Q == Rest(s, l)
<1>1. q \in Seq(Message) /\ q # <<>> /\ c = Head(q).key.client /\ Head(q).type = "LOCK" /\ c \in Client
  BY ReceivedType DEF Arrived, Received, TypeInv, TypeOK
<1>2. Routed(c, home[c], W, s, l, Received(s, l)) /\ Begun(c, home[c], Q)
  BY ReadVital DEF Vital
<1>3. s = c /\ home[c] = l
  <2>1. Received(s, l).type = "LOCK"
    BY <1>1 DEF Received
  <2> QED BY <1>2, <2>1 DEF Routed
<1>4. Orderly(c, l, W, Now)
  BY <1>3, Zenon DEF Numbering
<1>5. Head(q) = q[1] /\ 1 \in DOMAIN q
  BY <1>1, TailElements
<1>6. Kind(q, c, "LOCK") # {}
  BY <1>1, <1>5 DEF Kind
<1>7. New(c, l, Now)
  BY <1>3, <1>6, Zenon DEF New, Now
<1>8. Untold(c, Now) /\ c \in W
  BY <1>4, <1>7, Zenon DEF Orderly, Once, Added
<1>9. Calmer(c, Around(Q, l, Here(l)), Now)
  BY <1>1, ReadFit
<1>10. Untold(c, Around(Q, l, Here(l)))
  BY <1>8, <1>9, CalmerUntold, Zenon
<1> QED
  BY <1>2, <1>3, <1>8, <1>10, Zenon

\* A leader that reads an ADD_TICKET has a ticket without a number, if any.
LEMMA ReadAdd ==
  ASSUME TypeInv, NEW s \in Node, NEW l \in Leader, Arrived(s, l, "ADD_TICKET"),
         NEW home \in [Client -> Leader], NEW W, Numbering(home, W, Now),
         NEW c \in Client, Received(s, l).key.client = c
  PROVE  /\ s = home[c] /\ s # l /\ Begun(c, s, Rest(s, l))
         /\ Received(s, l).key.number <= Given(W)
         /\ Plain(tickets[l], c) /\ Counted(tickets[s], c)
         /\ Kind(Rest(s, l)[s][l], c, "ADD_TICKET") = {}
<1> DEFINE q == net[s][l]
           m == Received(s, l)
           Q == Rest(s, l)
<1>1. /\ q \in Seq(Message) /\ q # <<>> /\ m = Head(q) /\ m.type = "ADD_TICKET" /\ c \in Client
      /\ s # l
  BY ReceivedType DEF Arrived, Received, TypeInv, TypeOK
<1>2. Routed(c, home[c], W, s, l, m) /\ Begun(c, home[c], Q)
  BY ReadVital DEF Vital
<1>3. s = home[c] /\ s \in Leader /\ m.key.number <= Given(W)
  BY <1>1, <1>2 DEF Routed
<1>4. Orderly(c, s, W, Now) /\ Now.net = net /\ Now.tickets = tickets
  BY <1>1, <1>3 DEF Numbering, Now
<1>5. Head(q) = q[1] /\ 1 \in DOMAIN q
  BY <1>1, TailElements
<1>6. Kind(q, c, "ADD_TICKET") # {}
  BY <1>1, <1>5 DEF Kind
<1>7. Counted(tickets[s], c) /\ Plain(tickets[l], c)
  BY <1>1, <1>3, <1>4, <1>6 DEF Orderly, Added
<1>8. \A i, j \in Kind(q, c, "ADD_TICKET") : i = j
  BY <1>1, <1>4 DEF Orderly, Added
<1>9. Kind(Tail(q), c, "ADD_TICKET") = {}
  <2>1. Head(q).key.client = c /\ Head(q).type = "ADD_TICKET"
    BY <1>1
  <2> HIDE DEF q
  <2> QED BY <1>1, <1>8, <2>1, ReadKind
<1>10. Q[s][l] = Tail(q)
  BY DEF TypeInv, TypeOK, Rest
<1> QED
  BY <1>1, <1>2, <1>3, <1>7, <1>9, <1>10

\* A leader that does not own the ticket is told its number.
LEMMA AwayFit ==
  ASSUME TypeInv, NEW l \in Leader, NEW Q \in Net, NEW D, Sound(l, D),
         NEW home \in [Client -> Leader], NEW W, Fit(home, W, Q, l, D),
         NEW t \in D.tickets, NEW h \in Leader, h = home[t.client], h # l, Begun(t.client, h, Q),
         Counted(tickets[h], t.client), Kind(Q[h][l], t.client, "ADD_TICKET") = {},
         NEW u, u.client = t.client, u.owner = t.owner, u.number <= Given(W),
         Sound(l, Update(D, t, u))
  PROVE  Fit(home, W, Q, l, Update(D, t, u))
<1> DEFINE E == Update(D, t, u)
           c == t.client
           v == Around(Q, l, E)
           w == Around(Q, l, D)
<1>1. c \in Client /\ Sound(l, E) /\ h \in Node
  BY DEF Sound, Context, Ticket, Node
<1>2. E.out = D.out /\ E.mail = D.mail /\ E.tickets \subseteq (D.tickets \ {t}) \cup {u}
  BY DEF Sound, Context, Update, Alive
<1>3. Orderly(c, h, W, w) /\ w.tickets[l] = D.tickets /\ ~New(c, h, w)
  BY <1>1, OneFit
<1>4. w.tickets[h] = tickets[h] /\ w.net[h][l] = Q[h][l]
  <2>1. Surrounds(w, Q, l, D)
    BY AroundParts
  <2> HIDE DEF w
  <2> QED BY <1>1, <2>1 DEF Surrounds
<1> HIDE DEF E
<1>5. Changed(v, w, l, E.tickets)
  BY <1>1, <1>2, ChangedAround
<1>6. \A x \in E.tickets : x.client # c => x \in D.tickets
  BY <1>2
<1>7. \A d \in Client \ {c} : Orderly(d, home[d], W, v)
  BY <1>1, <1>2, <1>6, OthersFit
<1> HIDE DEF v, w
<1>8. \A x \in D.tickets : x.client = c => x.owner = h /\ x.number <= Given(W)
  BY <1>3 DEF Orderly, Placed
<1>9. \A x \in E.tickets : x.client = c => x.owner = h /\ x.number <= Given(W)
  BY <1>2, <1>8
<1>10. Counted(w.tickets[h], c) /\ Kind(w.net[h][l], c, "ADD_TICKET") = {}
  BY <1>4
<1> HIDE DEF c
<1>11. Orderly(c, h, W, v)
  BY <1>1, <1>3, <1>5, <1>9, <1>10, ChangedAway
<1>12. Fit(home, W, Q, l, E)
  BY <1>1, <1>7, <1>11, JoinFit DEF v, c
<1> QED
  BY <1>12 DEF E


-----------------------------------------------------------------------------
(* The handlers.                                                           *)

\* Leader l leaves a handler.
LEMMA DoneNumbers ==
  ASSUME TypeInv, running = Leader, NEW s \in Node, NEW l \in Leader, net[s][l] # <<>>,
         NEW D, Sound(l, D), Done(s, l, D),
         NEW home \in [Client -> Leader], NEW W \in SUBSET Client, Fit(home, W, Rest(s, l), l, D)
  PROVE  NumberInv'
<1>1. Return(s, l, D)
  BY DEF Done, Sound
<1>2. TypeInv' /\ running' = Leader /\ client' = client
  BY <1>1, DoneTypes DEF Return, Leave
<1>3. s # l
  BY DEF TypeInv, NoEcho
<1>4. net' = [n \in Node |-> [d \in Leader |-> IF n = l THEN Rest(s, l)[n][d] \o D.out[d]
                                               ELSE Rest(s, l)[n][d]]]
  <2>1. \A n \in Node, d \in Leader :
          Rest(s, l)[n][d] = IF n = s /\ d = l THEN Tail(net[n][d]) ELSE net[n][d]
    BY DEF Rest, TypeInv, TypeOK
  <2>2. \A n \in Node, d \in Leader :
          (IF n = s /\ d = l THEN Tail(net[n][d])
           ELSE IF n = l THEN net[n][d] \o D.out[d] ELSE net[n][d])
          = IF n = l THEN Rest(s, l)[n][d] \o D.out[d] ELSE Rest(s, l)[n][d]
    BY <1>3, <2>1
  <2> QED BY <1>1, <2>2 DEF Return, Leave
<1>5. Now' = Around(Rest(s, l), l, D)
  BY <1>1, <1>2, <1>4 DEF Return, Leave, Now, Around
<1>6. Numbering(home, W, Now')
  BY <1>5 DEF Fit
<1> QED
  BY <1>2, <1>6 DEF NumberInv

\* A handler that makes no ticket and gives no number.
LEMMA TameNumbers ==
  ASSUME NumberInv, NEW s \in Node, NEW l \in Leader, net[s][l] # <<>>,
         NEW D, Sound(l, D), Tame(Here(l), D), Done(s, l, D)
  PROVE  NumberInv'
<1>1. PICK home \in [Client -> Leader], W \in SUBSET Client : Numbering(home, W, Now)
  BY DEF NumberInv
<1>2. TypeInv /\ running = Leader
  BY DEF NumberInv
<1>3. Rest(s, l) \in Net /\ Sound(l, Here(l)) /\ Fit(home, W, Rest(s, l), l, Here(l))
  BY <1>1, <1>2, ReadFit
<1>4. Fit(home, W, Rest(s, l), l, D)
  BY <1>2, <1>3, KeepFit
<1> QED
  BY <1>2, <1>4, DoneNumbers

LEMMA MsgUnlockNumbers ==
  ASSUME NumberInv, NEW s \in Node, NEW l \in Leader, MsgUnlock(s, l)
  PROVE  NumberInv'
<1> DEFINE c == Received(s, l).key.client
           D == Here(l)
           t == First(ListedOf(D, c))
           gone == [t EXCEPT !.listed = FALSE, !.failed = IF @ = "NONE" THEN "UNLOCKING" ELSE @]
           E == DropTicket(D, t)
           F == Update(E, t, gone)
           G == IF ListedOf(D, c) = {} THEN D ELSE ActivateFirstLock(F)
<1>1. net[s][l] # <<>> /\ Done(s, l, Cleanup(G))
  BY DEF MsgUnlock, Arrived
<1>2. Sound(l, D) /\ now \in Nat
  BY HereSound DEF NumberInv
<1>3. ASSUME ListedOf(D, c) # {} PROVE Sound(l, F) /\ Tame(D, F)
  <2>1. /\ ListedOf(D, c) \in SUBSET Ticket /\ ListedOf(D, c) \subseteq D.tickets
        /\ \A v, w \in ListedOf(D, c) : KeyOf(v) = KeyOf(w) => v = w
    BY <1>2 DEF ListedOf, Sound, Context, KeysDiffer
  <2>2. t \in D.tickets /\ t \in Ticket
    BY <1>3, <2>1, FirstExists
  <2> HIDE DEF t, D
  <2>3. gone \in Ticket /\ ~gone.listed /\ Alike(gone, t)
    BY <2>2 DEF Ticket, Alike
  <2>4. Sound(l, E) /\ t \in E.tickets /\ Tame(D, E)
    BY <1>2, <2>2, DropTicketSound, DropTicketTame
  <2> HIDE DEF gone, E
  <2>5. Sound(l, F) /\ Tame(E, F)
    BY <2>3, <2>4, UpdateSound, TameUpdate
  <2> QED BY <1>2, <2>4, <2>5, TameTwice
<1> HIDE DEF F, D
<1>4. Sound(l, G) /\ Tame(D, G)
  <2>1. CASE ListedOf(D, c) = {}
    BY <1>2, <2>1, TameItself
  <2>2. CASE ListedOf(D, c) # {}
    BY <1>2, <1>3, <2>2, ActivateFirstLockSound, ActivateFirstLockTame, TameTwice
  <2> QED BY <2>1, <2>2
<1> HIDE DEF G
<1>5. Sound(l, Cleanup(G)) /\ Tame(D, Cleanup(G))
  BY <1>2, <1>4, CleanupSound, CleanupTame, TameTwice
<1> QED
  BY <1>1, <1>5, TameNumbers DEF D

LEMMA MsgTicketAddedNumbers ==
  ASSUME NumberInv, NEW s \in Node, NEW l \in Leader, MsgTicketAdded(s, l)
  PROVE  NumberInv'
<1> DEFINE D == Here(l)
           S == ListedAs(D, Received(s, l).key)
<1>1. /\ net[s][l] # <<>>
      /\ Done(s, l, D) \/ (S # {} /\ Done(s, l, TicketAdded(D, One(S))))
  BY DEF MsgTicketAdded, Arrived
<1>2. Sound(l, D) /\ now \in Nat /\ S \subseteq D.tickets
  BY HereSound DEF ListedAs, NumberInv
<1> HIDE DEF D, S
<1>3. S # {} => /\ Sound(l, TicketAdded(D, One(S)))
                /\ Tame(D, TicketAdded(D, One(S)))
  BY <1>2, PickedTypes, TicketAddedSound, TicketAddedTame
<1> QED
  BY <1>1, <1>2, <1>3, TameItself, TameNumbers DEF D

LEMMA MsgLockExitingNumbers ==
  ASSUME NumberInv, NEW s \in Node, NEW l \in Leader, MsgLockExiting(s, l)
  PROVE  NumberInv'
BY HereSound, LockExitingSound, LockExitingTame, TameNumbers DEF MsgLockExiting, Arrived, NumberInv

LEMMA MsgTicketReadyNumbers ==
  ASSUME NumberInv, NEW s \in Node, NEW l \in Leader, MsgTicketReady(s, l)
  PROVE  NumberInv'
<1> DEFINE D == Here(l)
           S == ListedAs(D, Received(s, l).key)
           t == One(S)
           u == [t EXCEPT !.ready = TRUE]
<1>1. /\ net[s][l] # <<>>
      /\ Done(s, l, D) \/ (S # {} /\ Done(s, l, Update(D, t, u)))
  BY DEF MsgTicketReady, Arrived
<1>2. Sound(l, D) /\ S \subseteq D.tickets
  BY HereSound DEF ListedAs, NumberInv
<1> HIDE DEF D, S
<1>3. S # {} => Sound(l, Update(D, t, u)) /\ Tame(D, Update(D, t, u))
  <2> SUFFICES ASSUME S # {} PROVE Sound(l, Update(D, t, u)) /\ Tame(D, Update(D, t, u))
    OBVIOUS
  <2>1. t \in D.tickets /\ t \in Ticket
    BY <1>2, PickedTypes
  <2> HIDE DEF t
  <2>2. u \in Ticket /\ KeyOf(u) = KeyOf(t) /\ u.listed = t.listed /\ Alike(u, t)
    BY <2>1 DEF Ticket, KeyOf, Alike
  <2> HIDE DEF u
  <2> QED BY <1>2, <2>1, <2>2, UpdateSound, TameUpdate
<1> HIDE DEF u, t
<1> QED
  BY <1>1, <1>2, <1>3, TameItself, TameNumbers DEF D

LEMMA MsgActivateLockNumbers ==
  ASSUME NumberInv, NEW s \in Node, NEW l \in Leader, MsgActivateLock(s, l)
  PROVE  NumberInv'
<1> DEFINE k == Received(s, l).key
           B == Here(l)
           D == ExpireListed(B)
           none == Listed(D) = {}
           first == IF none THEN NoKey ELSE KeyOf(First(Listed(D)))
           E == IF ~none /\ first = k THEN LockActivated(D, First(Listed(D))) ELSE D
           r == [Msg("LOCK_ACTIVATED", k) EXCEPT !.other = first]
           F == Tell(E, s, r)
<1>1. Arrived(s, l, "ACTIVATE_LOCK") /\ Done(s, l, Cleanup(F))
  BY DEF MsgActivateLock, Reply
<1>2. k \in Key /\ s # l /\ s \in Leader /\ net[s][l] # <<>>
  BY <1>1, ReceivedType DEF Arrived, NumberInv
<1>3. Sound(l, B) /\ now \in Nat
  BY HereSound DEF NumberInv
<1> HIDE DEF B, k
<1>4. Sound(l, D) /\ Tame(B, D)
  BY <1>3, ExpireListedSound, ExpireListedTame
<1> HIDE DEF D
<1>5. ~none => First(Listed(D)) \in D.tickets
  BY <1>4, FirstListed
<1>6. first \in Key \cup {NoKey}
  BY <1>4, <1>5, KeyTypes DEF Sound, Context
<1>7. Sound(l, E) /\ Tame(D, E)
  BY <1>3, <1>4, <1>5, LockActivatedSound, LockActivatedTame, TameItself
<1> HIDE DEF first, E
<1>8. r \in Message /\ r \in Idle
  <2>1. r \in Message /\ r.type = "LOCK_ACTIVATED"
    BY <1>2, <1>6, MsgType DEF Msg
  <2> QED BY <2>1 DEF Idle, Vital
<1> HIDE DEF r
<1>9. Sound(l, F) /\ Tame(E, F)
  BY <1>2, <1>7, <1>8, TellSound, TameReply
<1> HIDE DEF F
<1>10. Sound(l, Cleanup(F)) /\ Tame(F, Cleanup(F))
  BY <1>3, <1>9, CleanupSound, CleanupTame
<1>11. Tame(B, Cleanup(F))
  BY <1>3, <1>4, <1>7, <1>9, <1>10, TameTwice
<1> QED
  BY <1>1, <1>2, <1>10, <1>11, TameNumbers DEF B

LEMMA MsgLockActivatedNumbers ==
  ASSUME NumberInv, NEW s \in Node, NEW l \in Leader, MsgLockActivated(s, l)
  PROVE  NumberInv'
<1> DEFINE D == Here(l)
           S == ListedAs(D, Received(s, l).key)
<1>1. /\ net[s][l] # <<>>
      /\ Done(s, l, D) \/ (S # {} /\ Done(s, l, LockActivated(D, One(S))))
  BY DEF MsgLockActivated, Arrived
<1>2. Sound(l, D) /\ now \in Nat /\ S \subseteq D.tickets
  BY HereSound DEF ListedAs, NumberInv
<1> HIDE DEF D, S
<1>3. S # {} => /\ Sound(l, LockActivated(D, One(S)))
                /\ Tame(D, LockActivated(D, One(S)))
  BY <1>2, PickedTypes, LockActivatedSound, LockActivatedTame
<1> QED
  BY <1>1, <1>2, <1>3, TameItself, TameNumbers DEF D


LEMMA MsgDropTicketNumbers ==
  ASSUME NumberInv, NEW s \in Node, NEW l \in Leader, MsgDropTicket(s, l)
  PROVE  NumberInv'
<1> DEFINE k == Received(s, l).key
           D == Here(l)
           A == {t \in D.tickets : t.listed /\ KeyOf(t) = k}
           dropped == Alive({IF t.listed /\ KeyOf(t) = k THEN [t EXCEPT !.listed = FALSE] ELSE t :
                               t \in D.tickets})
           C == [D EXCEPT !.tickets = dropped]
           E == IF Listed(D) = {} THEN D ELSE ActivateFirstLock(C)
           B == {t \in E.tickets : t.client = k.client}
           left == Alive({IF t.client = k.client THEN [t EXCEPT !.entering = FALSE] ELSE t :
                            t \in E.tickets})
           F == [E EXCEPT !.tickets = left]
<1>1. net[s][l] # <<>> /\ Done(s, l, Cleanup(F))
  BY DEF MsgDropTicket, Arrived
<1>2. Sound(l, D) /\ now \in Nat
  BY HereSound DEF NumberInv
<1> HIDE DEF D, k
<1>3. Sound(l, C) /\ Tame(D, C)
  <2>1. dropped = Alive({IF t \in A THEN [t EXCEPT !.listed = FALSE] ELSE t : t \in D.tickets})
    OBVIOUS
  <2> HIDE DEF A, dropped
  <2> QED BY <1>2, <2>1, ClearSound, ClearTame
<1> HIDE DEF C
<1>4. Sound(l, E) /\ Tame(D, E)
  <2>1. Sound(l, ActivateFirstLock(C)) /\ Tame(D, ActivateFirstLock(C))
    BY <1>2, <1>3, ActivateFirstLockSound, ActivateFirstLockTame, TameTwice
  <2> QED BY <1>2, <2>1, TameItself
<1> HIDE DEF E
<1>5. Sound(l, F) /\ Tame(E, F)
  <2>1. left = Alive({IF t \in B THEN [t EXCEPT !.entering = FALSE] ELSE t : t \in E.tickets})
    OBVIOUS
  <2> HIDE DEF B, left
  <2> QED BY <1>4, <2>1, ClearSound, ClearTame
<1> HIDE DEF F
<1>6. Sound(l, Cleanup(F)) /\ Tame(D, Cleanup(F))
  BY <1>2, <1>4, <1>5, CleanupSound, CleanupTame, TameTwice
<1> QED
  BY <1>1, <1>6, TameNumbers DEF D

LEMMA MsgLockFailedNumbers ==
  ASSUME NumberInv, NEW s \in Node, NEW l \in Leader, MsgLockFailed(s, l)
  PROVE  NumberInv'
<1> DEFINE D == Here(l)
           S == ListedAs(D, Received(s, l).key)
           t == One(S)
           u == [t EXCEPT !.listed = FALSE]
           C == Update(D, t, u)
           E == TellClient(C, t.client, Note("LOCK_FAILED"))
           F == IF S = {} THEN D ELSE IF Listed(E) = {} THEN E ELSE ActivateFirstLock(E)
<1>1. net[s][l] # <<>> /\ Done(s, l, Cleanup(F))
  BY DEF MsgLockFailed, Arrived
<1>2. Sound(l, D) /\ now \in Nat /\ S \subseteq D.tickets
  BY HereSound DEF ListedAs, NumberInv
<1> HIDE DEF D, S
<1>3. ASSUME S # {} PROVE Sound(l, E) /\ Tame(D, E)
  <2>1. t \in D.tickets /\ t \in Ticket
    BY <1>2, <1>3, PickedTypes
  <2> HIDE DEF t
  <2>2. u \in Ticket /\ ~u.listed
    BY <2>1, FlagTypes
  <2>6. Alike(u, t)
    BY <2>1 DEF Alike, Ticket
  <2> HIDE DEF u
  <2>3. Sound(l, C) /\ Tame(D, C)
    BY <1>2, <2>1, <2>2, <2>6, UpdateSound, TameUpdate
  <2>4. Note("LOCK_FAILED") \in Silent /\ Note("LOCK_FAILED") \in Notice
    BY NoteType DEF Silent, Note
  <2> HIDE DEF C
  <2>5. Sound(l, E) /\ Tame(C, E)
    BY <2>3, <2>4, TellClientSound, TameTell
  <2> QED BY <1>2, <2>3, <2>5, TameTwice
<1> HIDE DEF E
<1>4. Sound(l, F) /\ Tame(D, F)
  <2>1. CASE S = {}
    BY <1>2, <2>1, TameItself
  <2>2. CASE S # {}
    <3>1. Sound(l, ActivateFirstLock(E)) /\ Tame(D, ActivateFirstLock(E))
      BY <1>2, <1>3, <2>2, ActivateFirstLockSound, ActivateFirstLockTame, TameTwice
    <3> QED BY <1>3, <2>2, <3>1
  <2> QED BY <2>1, <2>2
<1> HIDE DEF F
<1>5. Sound(l, Cleanup(F)) /\ Tame(D, Cleanup(F))
  BY <1>2, <1>4, CleanupSound, CleanupTame, TameTwice
<1> QED
  BY <1>1, <1>5, TameNumbers DEF D

LEMMA TimerNumbers ==
  ASSUME NumberInv, NEW l \in Leader, Timer(l)
  PROVE  NumberInv'
<1> DEFINE B == Here(l)
           D == Cleanup(B)
<1>1. PICK home \in [Client -> Leader], W \in SUBSET Client : Numbering(home, W, Now)
  BY DEF NumberInv
<1>2. TypeInv /\ running = Leader /\ now \in Nat /\ net \in Net
  BY DEF NumberInv, TypeInv, TypeOK, Net
<1>3. \A c \in Client, n \in Node, d \in Leader : Fewer(c, net[n][d], net[n][d])
  BY <1>2, FewerItself DEF Net
<1>4. Sound(l, B) /\ Fit(home, W, net, l, B)
  BY <1>1, <1>2, <1>3, StartFit
<1> HIDE DEF B
<1>5. Sound(l, D) /\ Tame(B, D)
  BY <1>2, <1>4, CleanupSound, CleanupTame
<1>6. Fit(home, W, net, l, D)
  BY <1>2, <1>4, <1>5, KeepFit
<1>7. /\ tickets' = [tickets EXCEPT ![l] = D.tickets]
      /\ net' = [net EXCEPT ![l] = [d \in Leader |-> @[d] \o D.out[d]]]
      /\ mail' = Delivered(l, D)
      /\ UNCHANGED <<now, running, client, view>>
  BY <1>5 DEF Timer, Sound, B
<1> HIDE DEF D
<1>8. net' = [n \in Node |-> [d \in Leader |-> IF n = l THEN net[n][d] \o D.out[d] ELSE net[n][d]]]
  BY <1>2, <1>7 DEF Net
<1>9. Now' = Around(net, l, D)
  BY <1>7, <1>8 DEF Now, Around
<1>10. Numbering(home, W, Now')
  BY <1>6, <1>9 DEF Fit
<1>11. TypeInv'
  BY <1>2, TimerTypes
<1> QED
  BY <1>2, <1>7, <1>10, <1>11 DEF NumberInv


LEMMA MsgLockNumbers ==
  ASSUME NumberInv, Cardinality(Client) <= MaxNumber, NEW s \in Node, NEW l \in Leader, MsgLock(s, l)
  PROVE  NumberInv'
<1> DEFINE m == Received(s, l)
           c == m.key.client
           B == Here(l)
           D == Cleanup(B)
           t == NewTicket(c, l, m.value)
           limit == IF now + AliveTimeout < m.value THEN now + AliveTimeout ELSE m.value
           waiting == [t EXCEPT !.alive = limit]
           E == [D EXCEPT !.tickets = @ \cup {waiting}]
           F == [D EXCEPT !.tickets = @ \cup {t}]
           G == TellClient(E, c, Note("ALIVE"))
           H == Enter(F, t)
           N == TellClient(D, c, Note("LOCK_FAILED"))
           Q == Rest(s, l)
<1>1. TypeInv /\ running = Leader
  BY DEF NumberInv
<1>2. PICK home \in [Client -> Leader], W \in SUBSET Client : Numbering(home, W, Now)
  BY DEF NumberInv
<1>3. Arrived(s, l, "LOCK") /\ net[s][l] # <<>>
  BY DEF MsgLock, Arrived
<1>4. c \in Client /\ m.value \in Nat
  BY <1>1, <1>3, ReceivedType
<1>5. home[c] = l /\ Begun(c, l, Q) /\ c \in W /\ Untold(c, Around(Q, l, B))
  BY <1>1, <1>2, <1>3, <1>4, ReadLock
<1>6. Q \in Net /\ Sound(l, B) /\ now \in Nat /\ Fit(home, W, Q, l, B)
  BY <1>1, <1>2, <1>3, ReadFit DEF TypeInv, TypeOK
<1> HIDE DEF B
<1>7. Sound(l, D) /\ Tame(B, D)
  BY <1>6, CleanupSound, CleanupTame
<1> HIDE DEF Q
<1>8. Fit(home, W, Q, l, D) /\ Untold(c, Around(Q, l, D))
  BY <1>1, <1>4, <1>5, <1>6, <1>7, KeepFit, TameCalmer, CalmerUntold
<1>9. \/ Done(s, l, N)
      \/ Done(s, l, D)
      \/ Done(s, l, Cleanup(G))
      \/ ~EnterOverflows(D, t) /\ Done(s, l, Cleanup(H))
      \/ EnterOverflows(D, t)
  <2>1. PICK X \in Locking(D, m, CheckAlive) : Done(s, l, X)
    BY DEF MsgLock, B
  <2>2. D.me = l
    BY <1>7 DEF Sound
  <2>3. \/ X = N
        \/ X = D
        \/ X = Cleanup(G)
        \/ ~EnterOverflows(D, t) /\ X = Cleanup(H)
        \/ EnterOverflows(D, t)
    BY <2>1, <2>2, Zenon DEF Locking
  <2> HIDE DEF m, c, D, t, limit, waiting, E, F, G, H, N
  <2> QED BY <2>1, <2>3
<1>10. limit \in Nat
  BY <1>4, <1>6, NumberAssumption
<1> HIDE DEF m, c, limit
<1>11. /\ t \in Ticket /\ ~t.listed /\ t.entering /\ t.client = c /\ t.owner = l /\ t.number = 0
       /\ ~t.added
  BY <1>4, NewTicketType DEF NewTicket
<1>12. /\ waiting \in Ticket /\ ~waiting.listed /\ waiting.entering /\ waiting.client = c
       /\ waiting.owner = l /\ waiting.number = 0 /\ ~waiting.added
  BY <1>4, <1>10, NewTicketType DEF NewTicket
<1> HIDE DEF D, t, waiting
<1>13. Sound(l, N) /\ Fit(home, W, Q, l, N)
  <2>1. Note("LOCK_FAILED") \in Silent /\ Note("LOCK_FAILED") \in Notice
    BY NoteType DEF Silent, Note
  <2>2. Sound(l, N) /\ Tame(D, N)
    BY <1>7, <2>1, TellClientSound, TameTell
  <2> HIDE DEF N
  <2> QED BY <1>1, <1>6, <1>7, <1>8, <2>2, KeepFit
<1>14. Sound(l, Cleanup(G)) /\ Fit(home, W, Q, l, Cleanup(G))
  <2>1. Sound(l, E) /\ Fit(home, W, Q, l, E)
    BY <1>1, <1>5, <1>6, <1>7, <1>8, <1>12, AddSound, AddFit
  <2> HIDE DEF E
  <2>2. Sound(l, G) /\ Fit(home, W, Q, l, G)
    BY <1>1, <1>4, <1>5, <1>6, <2>1, NoteType, TellClientSound, AskFit
  <2> HIDE DEF G
  <2> QED BY <1>1, <1>6, <2>2, CleanupSound, CleanupTame, KeepFit
<1>15. /\ ~EnterOverflows(D, t) /\ Sound(l, Cleanup(H))
       /\ \E X \in SUBSET Client : Fit(home, X, Q, l, Cleanup(H))
  <2>1. /\ Sound(l, F) /\ t \in F.tickets /\ Fit(home, W, Q, l, F)
        /\ EnterOverflows(F, t) <=> EnterOverflows(D, t)
    BY <1>1, <1>5, <1>6, <1>7, <1>8, <1>11, AddSound, AddFit
  <2> HIDE DEF F
  <2>2. ~EnterOverflows(F, t) /\ \E X \in SUBSET Client : Fit(home, X, Q, l, H)
    BY <1>1, <1>5, <1>6, <1>11, <2>1, EnterFit
  <2>3. PICK X \in SUBSET Client : Fit(home, X, Q, l, H)
    BY <2>2
  <2>4. Sound(l, H)
    BY <1>6, <1>11, <2>1, <2>2, EnterSound
  <2> HIDE DEF H
  <2>5. Sound(l, Cleanup(H)) /\ Fit(home, X, Q, l, Cleanup(H))
    BY <1>1, <1>6, <2>3, <2>4, CleanupSound, CleanupTame, KeepFit
  <2> QED BY <2>1, <2>2, <2>5
<1> HIDE DEF E, F, G, H, N
<1>16. \E A, X : /\ Sound(l, A) /\ Done(s, l, A) /\ X \in SUBSET Client
                 /\ Fit(home, X, Rest(s, l), l, A)
  BY <1>7, <1>8, <1>9, <1>13, <1>14, <1>15 DEF Q
<1> QED
  BY <1>1, <1>3, <1>16, DoneNumbers

LEMMA MsgAbsolutelyNumbers ==
  ASSUME NumberInv, Cardinality(Client) <= MaxNumber, NEW s \in Node, NEW l \in Leader,
         MsgAbsolutely(s, l)
  PROVE  NumberInv'
<1> DEFINE c == Received(s, l).key.client
           D == Here(l)
           t == One(EnteringOf(D, c))
           u == [t EXCEPT !.alive = 0]
           old == [client |-> c, until |-> CurrentDate(t)]
           seen(v) == [v EXCEPT !.still =
                         {IF p = old THEN [p EXCEPT !.until = CurrentDate(u)] ELSE p : p \in @}]
           g == [v \in D.tickets |-> seen(IF v = t THEN u ELSE v)]
           S == {seen(v) : v \in (D.tickets \ {t}) \cup {u}}
           E == [D EXCEPT !.tickets = S]
           H == Enter(E, seen(u))
           Q == Rest(s, l)
<1>1. TypeInv /\ running = Leader
  BY DEF NumberInv
<1>2. PICK home \in [Client -> Leader], W \in SUBSET Client : Numbering(home, W, Now)
  BY DEF NumberInv
<1>3. Arrived(s, l, "ABSOLUTELY") /\ net[s][l] # <<>>
  BY DEF MsgAbsolutely, Arrived
<1>4. c \in Client /\ Received(s, l).type = "ABSOLUTELY"
  BY <1>1, <1>3, ReceivedType
<1>5. home[c] = l /\ Begun(c, l, Q)
  <2>1. Routed(c, home[c], W, s, l, Received(s, l)) /\ Begun(c, home[c], Q)
    BY <1>1, <1>2, <1>3, <1>4, ReadVital DEF Vital
  <2> HIDE DEF Q, c
  <2>2. home[c] = l
    BY <1>4, <2>1 DEF Routed
  <2> QED BY <2>1, <2>2
<1>6. /\ Q \in Net /\ Sound(l, D) /\ now \in Nat /\ Fit(home, W, Q, l, D) /\ D.tickets \subseteq Ticket
  BY <1>1, <1>2, <1>3, ReadFit DEF TypeInv, TypeOK, Sound, Context
<1>7. \/ Done(s, l, D)
      \/ EnteringOf(D, c) # {} /\ EnterOverflows(E, u)
      \/ EnteringOf(D, c) # {} /\ Done(s, l, H)
  BY Zenon DEF MsgAbsolutely
<1> HIDE DEF Q
<1>8. ASSUME EnteringOf(D, c) # {}
      PROVE  /\ ~EnterOverflows(E, u) /\ Sound(l, H)
             /\ \E X \in SUBSET Client : Fit(home, X, Q, l, H)
  <2>1. t \in D.tickets /\ t.entering /\ t.client = c /\ t \in Ticket
    BY <1>6, <1>8 DEF One, EnteringOf
  <2> HIDE DEF t, D, c
  <2>2. /\ u \in Ticket /\ KeyOf(u) = KeyOf(t) /\ u.listed = t.listed /\ u.entering
        /\ u.client = t.client /\ u.owner = t.owner /\ u.number = t.number /\ u.added = t.added
        /\ u.maxAsked = t.maxAsked
    BY <2>1 DEF Ticket, KeyOf
  <2>3. CurrentDate(u) \in Nat
    BY <2>2 DEF CurrentDate, Ticket
  <2> HIDE DEF u, old
  <2>4. \A v \in Ticket : /\ seen(v) \in Ticket /\ KeyOf(seen(v)) = KeyOf(v)
                          /\ seen(v).listed = v.listed /\ seen(v).entering = v.entering
                          /\ seen(v).client = v.client /\ seen(v).owner = v.owner
                          /\ seen(v).number = v.number /\ seen(v).added = v.added
                          /\ seen(v).maxAsked = v.maxAsked
    <3> SUFFICES ASSUME NEW v \in Ticket
                 PROVE  /\ seen(v) \in Ticket /\ KeyOf(seen(v)) = KeyOf(v)
                        /\ seen(v).listed = v.listed /\ seen(v).entering = v.entering
                        /\ seen(v).client = v.client /\ seen(v).owner = v.owner
                        /\ seen(v).number = v.number /\ seen(v).added = v.added
                        /\ seen(v).maxAsked = v.maxAsked
      OBVIOUS
    <3> DEFINE still == {IF p = old THEN [p EXCEPT !.until = CurrentDate(u)] ELSE p : p \in v.still}
    <3>1. still \subseteq Pending
      BY <2>3 DEF Ticket, Pending
    <3>2. seen(v) = [v EXCEPT !.still = still]
      BY Zenon
    <3> HIDE DEF still
    <3> QED BY <3>1, <3>2 DEF Ticket, KeyOf
  <2> HIDE DEF seen
  <2>5. /\ g \in [D.tickets -> Ticket]
        /\ \A v \in D.tickets : KeyOf(g[v]) = KeyOf(v) /\ (g[v].listed => v.listed)
    BY <1>6, <2>2, <2>4
  <2>6. \A v \in D.tickets : Alike(g[v], v)
    BY <1>6, <2>2, <2>4 DEF Alike
  <2>7. Range(g) = S /\ seen(u) \in S
    BY <2>1 DEF Range
  <2> HIDE DEF g, S
  <2>8. Range(g) \subseteq Ticket /\ IsFiniteSet(Range(g)) /\ KeysDiffer(Range(g))
    BY <1>6, <2>5, ImageTable DEF Sound
  <2>9. Sound(l, E) /\ E.tickets = S /\ E.out = D.out /\ E.mail = D.mail
    BY <1>6, <2>7, <2>8, TableSound DEF Sound, Context
  <2> HIDE DEF E
  <2>10. Tame(D, E)
    BY <1>6, <2>5, <2>6, <2>7, <2>9, TameTable
  <2>11. Fit(home, W, Q, l, E)
    BY <1>1, <1>6, <2>9, <2>10, KeepFit
  <2>12. seen(u).entering /\ seen(u).client = c
    BY <2>1, <2>2, <2>4
  <2>13. ~EnterOverflows(E, seen(u)) /\ \E X \in SUBSET Client : Fit(home, X, Q, l, H)
    BY <1>1, <1>5, <1>6, <2>7, <2>9, <2>11, <2>12, EnterFit
  <2>14. ~EnterOverflows(E, u)
    BY <2>2, <2>4, <2>13 DEF EnterOverflows
  <2>15. Sound(l, H)
    BY <1>6, <2>7, <2>9, <2>12, <2>13, EnterSound
  <2> QED BY <2>13, <2>14, <2>15
<1> HIDE DEF D, c, t, u, seen, S, E, H
<1>9. \E A, X : /\ Sound(l, A) /\ Done(s, l, A) /\ X \in SUBSET Client
                /\ Fit(home, X, Rest(s, l), l, A)
  BY <1>6, <1>7, <1>8 DEF Q
<1> QED
  BY <1>1, <1>3, <1>9, DoneNumbers


\* What a leader knows when it reads a message about the number of a ticket.
LEMMA ReadNumber ==
  ASSUME NumberInv, NEW s \in Node, NEW l \in Leader, NEW type \in Vital \ {"LOCK", "ABSOLUTELY"},
         Arrived(s, l, type)
  PROVE  LET m == Received(s, l)
             c == m.key.client
             Q == Rest(s, l)
         IN  /\ TypeInv /\ running = Leader /\ net[s][l] # <<>> /\ s \in Leader /\ s # l
             /\ m.key \in Key /\ c \in Client /\ m.value \in Nat /\ m.key.number \in Number
             /\ m.type = type /\ now \in Nat /\ Q \in Net /\ Sound(l, Here(l))
             /\ \E home \in [Client -> Leader], W \in SUBSET Client :
                  /\ Numbering(home, W, Now) /\ Fit(home, W, Q, l, Here(l))
                  /\ Routed(c, home[c], W, s, l, m) /\ Begun(c, home[c], Q)
<1> DEFINE m == Received(s, l)
           c == m.key.client
           Q == Rest(s, l)
<1>1. TypeInv /\ running = Leader /\ now \in Nat
  BY DEF NumberInv, TypeInv, TypeOK
<1>2. PICK home \in [Client -> Leader], W \in SUBSET Client : Numbering(home, W, Now)
  BY DEF NumberInv
<1>3. net[s][l] # <<>>
  BY DEF Arrived
<1>4. /\ s \in Leader /\ s # l /\ m.key \in Key /\ c \in Client /\ m.value \in Nat
      /\ m.key.number \in Number /\ m.type = type
  <2>1. type \notin {"LOCK", "UNLOCK", "ABSOLUTELY"}
    BY DEF Vital
  <2> QED BY <1>1, <2>1, ReceivedType
<1>5. Q \in Net /\ Sound(l, Here(l)) /\ Fit(home, W, Q, l, Here(l))
  BY <1>1, <1>2, <1>3, ReadFit
<1>6. Routed(c, home[c], W, s, l, m) /\ Begun(c, home[c], Q)
  BY <1>1, <1>2, <1>4, ReadVital
<1> HIDE DEF m, c, Q
<1>7. \E x \in [Client -> Leader], X \in SUBSET Client :
        /\ Numbering(x, X, Now) /\ Fit(x, X, Q, l, Here(l))
        /\ Routed(c, x[c], X, s, l, m) /\ Begun(c, x[c], Q)
  BY <1>2, <1>5, <1>6
<1> QED
  BY <1>1, <1>3, <1>4, <1>5, <1>7 DEF m, c, Q

LEMMA MsgLockEnteringNumbers ==
  ASSUME NumberInv, NEW s \in Node, NEW l \in Leader, MsgLockEntering(s, l)
  PROVE  NumberInv'
<1> DEFINE m == Received(s, l)
           c == m.key.client
           D == Here(l)
           t == NewTicket(c, s, m.value)
           E == IF EnteringOf(D, c) # {} THEN D ELSE [D EXCEPT !.tickets = @ \cup {t}]
           r == Msg("LOCK_ENTERED", m.key)
           F == Tell(E, s, r)
           G == IF m.value <= now \/ ~D.view.ready THEN D ELSE Cleanup(F)
           Q == Rest(s, l)
<1>1. Arrived(s, l, "LOCK_ENTERING") /\ Done(s, l, G)
  BY DEF MsgLockEntering, Reply
<1>2. /\ TypeInv /\ running = Leader /\ net[s][l] # <<>> /\ s \in Leader /\ s # l
      /\ m.key \in Key /\ c \in Client /\ m.value \in Nat
      /\ m.type = "LOCK_ENTERING" /\ now \in Nat /\ Q \in Net /\ Sound(l, D)
  BY <1>1, ReadNumber DEF Vital
<1>3. PICK home \in [Client -> Leader], W \in SUBSET Client :
        Fit(home, W, Q, l, D) /\ Routed(c, home[c], W, s, l, m) /\ Begun(c, home[c], Q)
  BY <1>1, ReadNumber DEF Vital
<1>4. r \in Message /\ r.type = "LOCK_ENTERED" /\ r.key.client = c
  BY <1>2, MsgType DEF Msg
<1> HIDE DEF m, D, c, Q, r
<1>5. home[c] = s
  BY <1>2, <1>3 DEF Routed
<1>6. /\ t \in Ticket /\ ~t.listed /\ t.entering /\ t.client = c /\ t.owner = s /\ t.number = 0
      /\ ~t.added
  BY <1>2, NewTicketType DEF NewTicket
<1> HIDE DEF t
<1>7. Sound(l, E) /\ Fit(home, W, Q, l, E)
  <2>1. /\ Sound(l, [D EXCEPT !.tickets = @ \cup {t}])
        /\ Fit(home, W, Q, l, [D EXCEPT !.tickets = @ \cup {t}])
    BY <1>2, <1>3, <1>5, <1>6, AddSound, AddFit
  <2> QED BY <1>2, <1>3, <2>1
<1> HIDE DEF E
<1>8. Sound(l, F) /\ Fit(home, W, Q, l, F)
  BY <1>2, <1>3, <1>4, <1>5, <1>7, TellSound, ReplyFit
<1> HIDE DEF F
<1>9. Sound(l, G) /\ Fit(home, W, Q, l, G)
  <2>1. Sound(l, Cleanup(F)) /\ Fit(home, W, Q, l, Cleanup(F))
    BY <1>2, <1>8, CleanupSound, CleanupTame, KeepFit
  <2> QED BY <1>2, <1>3, <2>1
<1> HIDE DEF G
<1> QED
  BY <1>1, <1>2, <1>9, DoneNumbers DEF Q

LEMMA MsgLockEnteredNumbers ==
  ASSUME NumberInv, Cardinality(Client) <= MaxNumber, NEW s \in Node, NEW l \in Leader,
         MsgLockEntered(s, l)
  PROVE  NumberInv'
<1> DEFINE m == Received(s, l)
           c == m.key.client
           D == Here(l)
           S == EnteringOf(D, c)
           E == IF S = {} THEN D ELSE Entered(D, One(S))
           Q == Rest(s, l)
<1>1. Arrived(s, l, "LOCK_ENTERED") /\ Done(s, l, E)
  BY DEF MsgLockEntered
<1>2. /\ TypeInv /\ running = Leader /\ net[s][l] # <<>> /\ s \in Leader /\ s # l
      /\ c \in Client /\ m.type = "LOCK_ENTERED" /\ now \in Nat /\ Q \in Net /\ Sound(l, D)
  BY <1>1, ReadNumber DEF Vital
<1>3. PICK home \in [Client -> Leader], W \in SUBSET Client :
        Fit(home, W, Q, l, D) /\ Routed(c, home[c], W, s, l, m) /\ Begun(c, home[c], Q)
  BY <1>1, ReadNumber DEF Vital
<1>4. S \subseteq D.tickets /\ \A t \in S : t.entering /\ t.client = c
  BY DEF EnteringOf
<1> HIDE DEF m, D, c, Q, S
<1>5. home[c] = l
  BY <1>2, <1>3 DEF Routed
<1>6. Sound(l, E) /\ \E X \in SUBSET Client : Fit(home, X, Q, l, E)
  <2>1. CASE S = {}
    BY <1>2, <1>3, <2>1
  <2>2. CASE S # {}
    <3>1. One(S) \in S /\ One(S) \in D.tickets /\ One(S).entering /\ One(S).client = c
      BY <1>2, <1>4, <2>2, PickedTypes
    <3>2. /\ ~EnterOverflows(D, One(S))
          /\ \E X \in SUBSET Client : Fit(home, X, Q, l, Entered(D, One(S)))
      BY <1>2, <1>3, <1>5, <3>1, EnteredFit
    <3> QED BY <1>2, <2>2, <3>1, <3>2, EnteredSound
  <2> QED BY <2>1, <2>2
<1> HIDE DEF E
<1> QED
  BY <1>1, <1>2, <1>6, DoneNumbers DEF Q

LEMMA MsgGetMaxTicketNumbers ==
  ASSUME NumberInv, NEW s \in Node, NEW l \in Leader, MsgGetMaxTicket(s, l)
  PROVE  NumberInv'
<1> DEFINE m == Received(s, l)
           c == m.key.client
           B == Here(l)
           D == Cleanup(B)
           r == [Msg("MAX_TICKET", m.key) EXCEPT !.value = LastTicket(D)]
           E == Tell(D, s, r)
           Q == Rest(s, l)
<1>1. Arrived(s, l, "GET_MAX_TICKET") /\ Done(s, l, E)
  BY DEF MsgGetMaxTicket, Reply
<1>2. /\ TypeInv /\ running = Leader /\ net[s][l] # <<>> /\ s \in Leader /\ s # l
      /\ m.key \in Key /\ c \in Client
      /\ m.type = "GET_MAX_TICKET" /\ now \in Nat /\ Q \in Net /\ Sound(l, B)
  BY <1>1, ReadNumber DEF Vital
<1>3. PICK home \in [Client -> Leader], W \in SUBSET Client :
        Fit(home, W, Q, l, B) /\ Routed(c, home[c], W, s, l, m) /\ Begun(c, home[c], Q)
  BY <1>1, ReadNumber DEF Vital
<1> HIDE DEF B, Q
<1>4. Sound(l, D) /\ Fit(home, W, Q, l, D)
  BY <1>2, <1>3, CleanupSound, CleanupTame, KeepFit
<1> HIDE DEF D
<1>5. LastTicket(D) \in Nat /\ LastTicket(D) <= Given(W)
  <2>1. LastTicket(D) \in Number
    BY <1>4, LastTicketType DEF Sound, Context
  <2> QED BY <1>2, <1>4, <2>1, LastFit, NumberAssumption DEF Number
<1>6. r \in Message /\ r.type = "MAX_TICKET" /\ r.key.client = c /\ r.value = LastTicket(D)
  <2>1. r \in Message
    BY <1>2, <1>5, MsgType
  <2> QED BY <2>1 DEF Msg
<1> HIDE DEF m, c, r
<1>7. home[c] = s
  BY <1>2, <1>3 DEF Routed
<1>8. Sound(l, E) /\ Fit(home, W, Q, l, E)
  BY <1>2, <1>3, <1>4, <1>5, <1>6, <1>7, TellSound, ReplyFit
<1> HIDE DEF E
<1> QED
  BY <1>1, <1>2, <1>8, DoneNumbers DEF Q

LEMMA MsgMaxTicketNumbers ==
  ASSUME NumberInv, Cardinality(Client) <= MaxNumber, NEW s \in Node, NEW l \in Leader,
         MsgMaxTicket(s, l)
  PROVE  NumberInv'
<1> DEFINE m == Received(s, l)
           c == m.key.client
           n == m.value
           D == Here(l)
           S == EnteringOf(D, c)
           t == One(S)
           E == MaxTicket(D, t, n)
           Q == Rest(s, l)
<1>1. /\ Arrived(s, l, "MAX_TICKET")
      /\ \/ S = {} /\ Done(s, l, D)
         \/ S # {} /\ Overflows(t, n)
         \/ S # {} /\ Done(s, l, E)
  BY DEF MsgMaxTicket
<1>2. /\ TypeInv /\ running = Leader /\ net[s][l] # <<>> /\ c \in Client /\ n \in Nat
      /\ m.type = "MAX_TICKET" /\ now \in Nat /\ Q \in Net /\ Sound(l, D)
  BY <1>1, ReadNumber DEF Vital
<1>3. PICK home \in [Client -> Leader], W \in SUBSET Client :
        Fit(home, W, Q, l, D) /\ Routed(c, home[c], W, s, l, m) /\ Begun(c, home[c], Q)
  BY <1>1, ReadNumber DEF Vital
<1>4. S \subseteq D.tickets /\ \A x \in S : x.client = c
  BY DEF EnteringOf
<1> HIDE DEF D, Q, S
<1>5. home[c] = l /\ n <= Given(W)
  <2>1. m.type = "MAX_TICKET" /\ Routed(c, home[c], W, s, l, m)
    BY <1>2, <1>3
  <2> HIDE DEF c
  <2> QED BY <2>1 DEF Routed
<1> HIDE DEF m, c, n
<1>6. ASSUME S # {}
      PROVE  ~Overflows(t, n) /\ Sound(l, E) /\ \E X \in SUBSET Client : Fit(home, X, Q, l, E)
  <2>1. t \in D.tickets /\ t.client = c
    BY <1>2, <1>4, <1>6, PickedTypes
  <2> HIDE DEF t
  <2>2. ~Overflows(t, n) /\ \E X \in SUBSET Client : Fit(home, X, Q, l, E)
    BY <1>2, <1>3, <1>5, <2>1, MaxFit
  <2> QED BY <1>2, <2>1, <2>2, MaxTicketSound
<1> HIDE DEF t, E
<1>7. \E A, X : /\ Sound(l, A) /\ Done(s, l, A) /\ X \in SUBSET Client
                /\ Fit(home, X, Rest(s, l), l, A)
  BY <1>1, <1>2, <1>3, <1>6 DEF Q
<1> QED
  BY <1>2, <1>7, DoneNumbers


LEMMA MsgAddTicketNumbers ==
  ASSUME NumberInv, NEW s \in Node, NEW l \in Leader, MsgAddTicket(s, l)
  PROVE  NumberInv'
<1> DEFINE m == Received(s, l)
           k == m.key
           c == k.client
           D == Here(l)
           S == EnteringOf(D, c)
           t == One(S)
           u == Numbered(t, k.number)
           E == Update(D, t, u)
           no == Msg("LOCK_FAILED", k)
           yes == Msg("TICKET_ADDED", k)
           Q == Rest(s, l)
<1>1. /\ Arrived(s, l, "ADD_TICKET")
      /\ \/ Done(s, l, Tell(D, s, no))
         \/ S # {} /\ (t.number # 0 \/ t.added)
         \/ S # {} /\ ListedAs(D, k) = {} /\ Done(s, l, Tell(E, s, yes))
  BY DEF MsgAddTicket, Reply
<1>2. /\ TypeInv /\ running = Leader /\ net[s][l] # <<>> /\ s \in Leader /\ s # l
      /\ k \in Key /\ c \in Client /\ k.number \in Number /\ now \in Nat /\ Q \in Net /\ Sound(l, D)
  BY <1>1, ReadNumber DEF Vital
<1>3. PICK home \in [Client -> Leader], W \in SUBSET Client :
        Numbering(home, W, Now) /\ Fit(home, W, Q, l, D)
  BY <1>1, ReadNumber DEF Vital
<1>4. /\ s = home[c] /\ Begun(c, s, Q) /\ k.number <= Given(W) /\ Plain(tickets[l], c)
      /\ Counted(tickets[s], c) /\ Kind(Q[s][l], c, "ADD_TICKET") = {}
  BY <1>1, <1>2, <1>3, ReadAdd
<1>5. no \in Idle /\ yes \in Idle /\ no \in Message /\ yes \in Message
  <2>1. no \in Message /\ yes \in Message
    BY <1>2, MsgType
  <2> QED BY <2>1 DEF Idle, Vital, Msg
<1>6. S \subseteq D.tickets /\ (\A x \in S : x.client = c) /\ D.tickets = tickets[l]
  BY <1>2, HereSound DEF EnteringOf
<1> HIDE DEF no, yes, D, Q, S
<1>7. ASSUME S # {}
      PROVE  t \in D.tickets /\ t \in Ticket /\ t.client = c /\ t.number = 0 /\ ~t.added
  <2>1. t \in D.tickets /\ t \in Ticket /\ t.client = c
    BY <1>2, <1>6, <1>7, PickedTypes
  <2> HIDE DEF t
  <2> QED BY <1>4, <1>6, <2>1 DEF Plain
<1>8. ASSUME S # {}, ListedAs(D, k) = {} PROVE Sound(l, E) /\ Fit(home, W, Q, l, E)
  <2>1. t \in D.tickets /\ t \in Ticket /\ t.client = c
    BY <1>7, <1>8
  <2> HIDE DEF t
  <2>2. /\ u \in Ticket /\ KeyOf(u) = k /\ u.client = t.client /\ u.owner = t.owner
        /\ u.number = k.number
    BY <1>2, <2>1 DEF Numbered, Ticket, Key, KeyOf
  <2> HIDE DEF u
  <2>3. \A v \in D.tickets : v.listed => KeyOf(v) # KeyOf(u)
    BY <1>8, <2>2 DEF ListedAs
  <2> DEFINE T == (D.tickets \ {t}) \cup {u}
  <2>4. T \subseteq Ticket /\ IsFiniteSet(T) /\ KeysDiffer(T)
    BY <1>2, <2>2, <2>3, FS_AddElement, FS_RemoveElement DEF Sound, Context, KeysDiffer
  <2>5. E = [D EXCEPT !.tickets = Alive(T)]
    BY DEF Update
  <2>6. Sound(l, E)
    <3> HIDE DEF T, E
    <3> QED BY <1>2, <2>4, <2>5, AliveTable, TableSound
  <2> HIDE DEF k, c
  <2> QED BY <1>2, <1>3, <1>4, <2>1, <2>2, <2>6, AwayFit
<1> HIDE DEF m, k, c, t, u, E
<1>9. Sound(l, Tell(D, s, no)) /\ Fit(home, W, Q, l, Tell(D, s, no))
  <2>1. Sound(l, Tell(D, s, no)) /\ Tame(D, Tell(D, s, no))
    BY <1>2, <1>5, TellSound, TameReply
  <2> QED BY <1>2, <1>3, <2>1, KeepFit
<1>10. ASSUME S # {}, ListedAs(D, k) = {}
       PROVE  Sound(l, Tell(E, s, yes)) /\ Fit(home, W, Q, l, Tell(E, s, yes))
  <2>1. Sound(l, Tell(E, s, yes)) /\ Tame(E, Tell(E, s, yes))
    BY <1>2, <1>5, <1>8, <1>10, TellSound, TameReply
  <2> QED BY <1>2, <1>3, <1>8, <1>10, <2>1, KeepFit
<1>11. \E A : Sound(l, A) /\ Done(s, l, A) /\ Fit(home, W, Rest(s, l), l, A)
  BY <1>1, <1>7, <1>9, <1>10 DEF Q
<1> QED
  BY <1>2, <1>11, DoneNumbers

LEMMA HandleNumbers ==
  ASSUME NumberInv, Cardinality(Client) <= MaxNumber, NEW s \in Node, NEW l \in Leader, Handle(s, l)
  PROVE  NumberInv'
BY MsgLockNumbers, MsgAbsolutelyNumbers, MsgUnlockNumbers, MsgLockEnteringNumbers,
   MsgLockEnteredNumbers, MsgGetMaxTicketNumbers, MsgMaxTicketNumbers, MsgAddTicketNumbers,
   MsgTicketAddedNumbers, MsgLockExitingNumbers, MsgTicketReadyNumbers, MsgActivateLockNumbers,
   MsgLockActivatedNumbers, MsgDropTicketNumbers, MsgLockFailedNumbers
DEF Handle


-----------------------------------------------------------------------------
(* The clients.                                                            *)

LEMMA NowTyped == ASSUME TypeInv PROVE Typed(Now) /\ Now.net = net /\ net \in Net
BY DEF TypeInv, TypeOK, Typed, Now, Net

LEMMA CalmNumbers ==
  ASSUME NumberInv, TypeInv', running' = running, \A c \in Client : Calmer(c, Now', Now)
  PROVE  NumberInv'
<1>1. PICK home \in [Client -> Leader], W \in SUBSET Client : Numbering(home, W, Now)
  BY DEF NumberInv
<1> HIDE DEF Now
<1>2. Numbering(home, W, Now')
  BY <1>1, CalmerAlways
<1> QED
  BY <1>2 DEF NumberInv

\* A client sends at most a message that has nothing to do with its number.
LEMMA HushNumbers ==
  ASSUME NumberInv, TypeInv', running' = running, tickets' = tickets,
         \A c \in Client : client'[c].tries = client[c].tries,
         \A c \in Client, l \in Leader : Questioned(mail'[c][l]) => Questioned(mail[c][l]),
         \/ net' = net
         \/ \E c \in Client, l \in Leader, m \in Idle : Send(c, l, m)
  PROVE  NumberInv'
<1>1. TypeInv /\ net \in Net
  BY NowTyped DEF NumberInv
<1>2. \A s \in Node, d \in Leader : Grown(net'[s][d], net[s][d], Idle)
  <2>1. \A s \in Node, d \in Leader : Grown(net[s][d], net[s][d], Idle)
    BY <1>1, GrownItself DEF Net
  <2>2. CASE net' = net
    BY <2>1, <2>2
  <2>3. ASSUME NEW c \in Client, NEW l \in Leader, NEW m \in Idle, Send(c, l, m)
        PROVE  \A s \in Node, d \in Leader : Grown(net'[s][d], net[s][d], Idle)
    <3>1. \A s \in Node, d \in Leader :
            net'[s][d] = net[s][d] \/ net'[s][d] = Append(net[s][d], m)
      BY <1>1, <2>3 DEF Send, Net
    <3>2. \A s \in Node, d \in Leader : Grown(Append(net[s][d], m), net[s][d], Idle)
      BY <1>1, GrownByOne DEF Net, Idle
    <3> QED BY <2>1, <3>1, <3>2
  <2> QED BY <2>2, <2>3
<1>3. ASSUME NEW c \in Client PROVE Calmer(c, Now', Now)
  <2>1. \A s \in Node, d \in Leader : Fewer(c, net'[s][d], net[s][d])
    BY <1>1, <1>2, FewerGrown DEF Net
  <2>2. \A l \in Leader : \A u \in tickets[l] : Alike(u, u)
    BY DEF Alike
  <2>3. Now'.tries[c] = Now.tries[c]
    BY DEF Now
  <2> QED BY <2>1, <2>2, <2>3 DEF Calmer, Now
<1> QED
  BY <1>3, CalmNumbers

LEMMA UnlockIdle == ASSUME NEW c \in Client PROVE Msg("UNLOCK", EnteringKey(c)) \in Idle
<1>1. Msg("UNLOCK", EnteringKey(c)) \in Message
  BY RequestType DEF Request
<1> QED
  BY <1>1 DEF Idle, Vital, Msg

\* Nobody but lock() counts.
LEMMA TriesKept ==
  ASSUME TypeInv, NEW c \in Client
  PROVE  /\ \A l \in Leader : SendUnlock(c, l) =>
              \A d \in Client : client'[d].tries = client[d].tries
         /\ Become(c, "IDLE", 0) => \A d \in Client : client'[d].tries = client[d].tries
         /\ \A l \in Leader : HearLocked(c, l) =>
              \A d \in Client : client'[d].tries = client[d].tries
<1>1. client \in [Client -> ClientState]
  BY DEF TypeInv, TypeOK
<1>2. ASSUME NEW l \in Leader, SendUnlock(c, l), NEW d \in Client
      PROVE  client'[d].tries = client[d].tries
  BY <1>1, <1>2 DEF SendUnlock, ClientState
<1>3. Become(c, "IDLE", 0) => \A d \in Client : client'[d].tries = client[d].tries
  BY <1>1 DEF Become, ClientState
<1>4. ASSUME NEW l \in Leader, HearLocked(c, l), NEW d \in Client
      PROVE  client'[d].tries = client[d].tries
  <2> DEFINE date == Head(mail[c][l]).date
             over == date + UnlockDuration
  <2>1. client' = [client EXCEPT ![c].state = "LOCKED", ![c].timer = date,
                                 ![c].lockDate = date, ![c].overDate = over]
    BY <1>4 DEF HearLocked
  <2> HIDE DEF date, over
  <2> QED BY <1>1, <2>1 DEF ClientState
<1> QED
  BY <1>2, <1>3, <1>4

LEMMA UnlockNumbers ==
  ASSUME NumberInv, NEW c \in Client, NEW l \in Leader, Unlock(c, l)
  PROVE  NumberInv'
<1>1. TypeInv /\ TypeInv'
  BY UnlockTypes DEF NumberInv
<1>2. \A d \in Client : client'[d].tries = client[d].tries
  BY <1>1, TriesKept DEF Unlock
<1>3. Msg("UNLOCK", EnteringKey(c)) \in Idle /\ Send(c, l, Msg("UNLOCK", EnteringKey(c)))
  BY UnlockIdle DEF Unlock, SendUnlock
<1>4. UNCHANGED <<running, tickets, mail>>
  BY DEF Unlock
<1> QED
  BY <1>1, <1>2, <1>3, <1>4, HushNumbers

LEMMA ClientTimeoutNumbers ==
  ASSUME NumberInv, NEW c \in Client, ClientTimeout(c)
  PROVE  NumberInv'
<1>1. TypeInv /\ TypeInv'
  BY ClientTimeoutTypes DEF NumberInv
<1>2. \A d \in Client : client'[d].tries = client[d].tries
  BY <1>1, TriesKept DEF ClientTimeout
<1>3. \/ net' = net
      \/ \E l \in Leader : Send(c, l, Msg("UNLOCK", EnteringKey(c)))
  BY DEF ClientTimeout, SendUnlock
<1>4. UNCHANGED <<running, tickets, mail>>
  BY DEF ClientTimeout
<1> QED
  BY <1>1, <1>2, <1>3, <1>4, UnlockIdle, HushNumbers

\* What a client read asks no more.
LEMMA ReadLess ==
  ASSUME TypeInv, NEW c \in Client, NEW l \in Leader, NEW type, Hears(c, l, type)
  PROVE  /\ \A d \in Client, x \in Leader : Questioned(mail'[d][x]) => Questioned(mail[d][x])
         /\ type = "ALIVE" => Questioned(mail[c][l])
<1>1. /\ mail[c][l] \in Seq(Notice) /\ mail[c][l] # <<>> /\ Head(mail[c][l]).type = type
      /\ mail' = [mail EXCEPT ![c][l] = Tail(@)]
      /\ mail \in [Client -> [Leader -> Seq(Notice)]]
  BY DEF Hears, TypeInv, TypeOK
<1>2. Range(Tail(mail[c][l])) \subseteq Range(mail[c][l]) /\ Head(mail[c][l]) \in Range(mail[c][l])
  <2> DEFINE q == mail[c][l]
  <2>1. q \in Seq(Notice) /\ q # <<>>
    BY <1>1
  <2> HIDE DEF q
  <2>2. \A x \in Range(Tail(q)) : x \in Range(q)
    BY <2>1 DEF Range
  <2>3. Head(q) \in Range(q)
    BY <2>1 DEF Range
  <2> QED BY <2>2, <2>3 DEF q
<1>3. Questioned(Tail(mail[c][l])) => Questioned(mail[c][l])
  BY <1>2 DEF Questioned
<1>4. ASSUME NEW d \in Client, NEW x \in Leader, Questioned(mail'[d][x])
      PROVE  Questioned(mail[d][x])
  <2>1. CASE d = c /\ x = l
    BY <1>1, <1>3, <1>4, <2>1
  <2>2. CASE ~(d = c /\ x = l)
    BY <1>1, <1>4, <2>2
  <2> QED BY <2>1, <2>2
<1>5. type = "ALIVE" => Questioned(mail[c][l])
  BY <1>1, <1>2 DEF Questioned
<1> QED
  BY <1>4, <1>5

LEMMA HearAliveNumbers ==
  ASSUME NumberInv, NEW c \in Client, NEW l \in Leader, HearAlive(c, l)
  PROVE  NumberInv'
<1> DEFINE m == Msg("ABSOLUTELY", EnteringKey(c))
<1>1. TypeInv /\ running = Leader /\ TypeInv'
  BY HearTypes DEF NumberInv, Hear
<1>2. PICK home \in [Client -> Leader], W \in SUBSET Client : Numbering(home, W, Now)
  BY DEF NumberInv
<1>3. /\ UNCHANGED <<running, tickets, client>> /\ Send(c, l, m) /\ Hears(c, l, "ALIVE")
  BY DEF HearAlive, Hears
<1>4. m \in Message /\ m.key.client = c /\ m.type = "ABSOLUTELY"
  <2>1. m \in Message
    BY RequestType DEF Request
  <2> QED BY <2>1 DEF Msg, EnteringKey
<1> HIDE DEF m
<1>5. /\ \A d \in Client, x \in Leader : Questioned(mail'[d][x]) => Questioned(mail[d][x])
      /\ Questioned(mail[c][l])
  BY <1>1, <1>3, ReadLess
<1>6. Orderly(c, home[c], W, Now) /\ Now.mail = mail
  BY <1>2 DEF Numbering, Now
<1>7. l = home[c] /\ ~New(c, home[c], Now)
  BY <1>5, <1>6 DEF Orderly, Placed, Once, Untold
<1>8. net \in Net /\ Typed(Now)
  BY <1>1, NowTyped
<1>9. ASSUME NEW s \in Node, NEW d \in Leader, net'[s][d] # net[s][d]
      PROVE  s = c /\ d = l /\ net'[s][d] = Append(net[s][d], m)
  BY <1>3, <1>8, <1>9 DEF Send, Net
<1>10. Routed(c, home[c], W, c, l, m)
  BY <1>4, <1>7 DEF Routed
<1>11. /\ Now'.tickets = Now.tickets /\ Now'.tries = Now.tries /\ Now'.mail = mail'
       /\ Now'.net = net' /\ Now.net = net
  BY <1>3 DEF Now
<1>12. m.type \in Vital \ {"LOCK"} /\ m.type # "ADD_TICKET"
  BY <1>4 DEF Vital
<1> HIDE DEF Now
<1>13. \A s \in Node, d \in Leader :
         \/ Now'.net[s][d] = Now.net[s][d]
         \/ Now'.net[s][d] = Append(Now.net[s][d], m) /\ Routed(c, home[c], W, s, d, m)
  BY <1>9, <1>10, <1>11
<1>14. \A d \in Client, x \in Leader : Questioned(Now'.mail[d][x]) => Questioned(Now.mail[d][x])
  BY <1>5, <1>6, <1>11
<1>15. Numbering(home, W, Now')
  BY <1>2, <1>4, <1>7, <1>8, <1>11, <1>12, <1>13, <1>14, SayNumbering
<1> QED
  BY <1>1, <1>3, <1>15 DEF NumberInv

LEMMA HearNumbers ==
  ASSUME NumberInv, NEW c \in Client, NEW l \in Leader, Hear(c, l)
  PROVE  NumberInv'
<1>1. TypeInv /\ TypeInv'
  BY HearTypes DEF NumberInv
<1>2. CASE HearAlive(c, l)
  BY <1>2, HearAliveNumbers
<1>3. CASE ~HearAlive(c, l)
  <2>1. \E type : Hears(c, l, type)
    BY <1>3, Zenon DEF Hear, Deaf, HearLocked, HearLockFailed, HearUnlocked, HearUnlocking
  <2>2. \A d \in Client : client'[d].tries = client[d].tries
    BY <1>1, <1>3, TriesKept, Zenon DEF Hear, Deaf, HearLockFailed, HearUnlocked, HearUnlocking
  <2>3. net' = net \/ \E d \in Leader : SendUnlock(c, d)
    BY <1>3, Zenon DEF Hear, Deaf, HearLocked, HearLockFailed, HearUnlocked, HearUnlocking
  <2>4. net' = net \/ \E d \in Leader : Send(c, d, Msg("UNLOCK", EnteringKey(c)))
    BY <2>3 DEF SendUnlock
  <2>5. \A d \in Client, x \in Leader : Questioned(mail'[d][x]) => Questioned(mail[d][x])
    BY <1>1, <2>1, ReadLess
  <2>6. UNCHANGED <<running, tickets>>
    BY <2>1 DEF Hears
  <2> QED BY <1>1, <2>2, <2>4, <2>5, <2>6, UnlockIdle, HushNumbers
<1> QED
  BY <1>2, <1>3


\* A client locks for the first time: nobody knows of it.
LEMMA LockNumbers ==
  ASSUME NumberInv, MaxTries <= 1, NEW c \in Client, NEW l \in Leader, Lock(c, l)
  PROVE  NumberInv'
<1> DEFINE m == [Msg("LOCK", EnteringKey(c)) EXCEPT !.value = now + Obtention]
           n == client[c].tries + 1
           v == Now'
           w == Now
           q == net[c][l]
<1>1. TypeInv /\ running = Leader /\ TypeInv'
  BY LockTypes DEF NumberInv
<1>2. PICK home \in [Client -> Leader], W \in SUBSET Client : Numbering(home, W, w)
  BY DEF NumberInv
<1> DEFINE to == [home EXCEPT ![c] = l]
<1>3. /\ Send(c, l, m) /\ UNCHANGED <<running, tickets, mail>>
      /\ client' = [client EXCEPT ![c].state = "LOCKING", ![c].timer = now + Obtention,
                                  ![c].tries = n]
      /\ client[c].tries < MaxTries
  BY DEF Lock
<1>4. m \in Message /\ m.key.client = c /\ m.type = "LOCK"
  <2>1. now + Obtention \in Nat
    BY <1>1, BakeryAssumption DEF TypeInv, TypeOK
  <2>2. m \in Message
    BY <2>1, RequestType DEF Request
  <2> QED BY <2>2 DEF Msg, EnteringKey
<1>5. client[c].tries = 0 /\ n = 1
  <2>1. client[c].tries \in Nat
    BY <1>1 DEF TypeInv, TypeOK, ClientState
  <2> QED BY <1>3, <2>1, BakeryAssumption
<1>6. \A d \in Client : client'[d].tries = IF d = c THEN 1 ELSE client[d].tries
  <2>1. client \in [Client -> ClientState]
    BY <1>1 DEF TypeInv, TypeOK
  <2> HIDE DEF n
  <2> QED BY <1>3, <1>5, <2>1 DEF ClientState
<1> HIDE DEF m
<1>7. /\ w.tickets = tickets /\ v.tickets = tickets /\ w.mail = mail /\ v.mail = mail
      /\ w.net = net /\ v.net = net'
      /\ \A d \in Client : w.tries[d] = client[d].tries /\ v.tries[d] = client'[d].tries
  BY <1>3 DEF Now
<1>8. net \in Net /\ Typed(w) /\ c \in Node /\ q \in Seq(Message)
  BY <1>1, NowTyped DEF Net, Node
<1>9. /\ net'[c][l] = Append(q, m)
      /\ \A s \in Node, d \in Leader : s # c \/ d # l => net'[s][d] = net[s][d]
  BY <1>3, <1>8 DEF Send, Net
<1> HIDE DEF v, w, n
<1>10. Orderly(c, home[c], W, w) /\ w.tries[c] = 0
  BY <1>2, <1>5, <1>7 DEF Numbering
<1>11. /\ Untold(c, w) /\ c \in W
       /\ \A s \in Node, d \in Leader : Mine(net[s][d], c) = {}
  <2>1. Untold(c, w) /\ c \in W /\ Kind(net[c][home[c]], c, "LOCK") = {}
    BY <1>7, <1>10 DEF Orderly, Once, Added, New
  <2>2. ASSUME NEW s \in Node, NEW d \in Leader, NEW i \in Mine(net[s][d], c) PROVE FALSE
    <3>1. net[s][d][i].type = "LOCK"
      BY <1>7, <2>1, <2>2 DEF Untold
    <3>2. s = c /\ d = home[c]
      BY <1>7, <1>10, <2>2, <3>1 DEF Orderly, Placed, Routed
    <3>3. i \in Kind(net[c][home[c]], c, "LOCK")
      BY <2>2, <3>1, <3>2 DEF Mine, Kind
    <3> QED BY <2>1, <3>3
  <2> QED BY <2>1, <2>2
<1>12. ASSUME NEW d \in Client, d # c PROVE Orderly(d, to[d], W, v)
  <2>1. \A s \in Node, x \in Leader : Fewer(d, net'[s][x], net[s][x])
    <3>1. Fewer(d, Append(q, m), q)
      BY <1>4, <1>8, <1>12, AppendElements
    <3>2. \A s \in Node, x \in Leader : Fewer(d, net[s][x], net[s][x])
      BY <1>8, FewerItself DEF Net
    <3> QED BY <1>9, <3>1, <3>2
  <2>2. Calmer(d, v, w)
    BY <1>6, <1>7, <1>12, <2>1 DEF Calmer, Alike
  <2>3. to[d] = home[d] /\ home[d] \in Leader
    BY <1>12
  <2> QED BY <1>2, <2>2, <2>3, CalmerOrderly DEF Numbering
<1>13. \A s \in Node, d \in Leader : \A i \in Mine(net'[s][d], c) :
         s = c /\ d = l /\ i = Len(q) + 1 /\ net'[s][d][i] = m
  <2> SUFFICES ASSUME NEW s \in Node, NEW d \in Leader, NEW i \in Mine(net'[s][d], c)
               PROVE  s = c /\ d = l /\ i = Len(q) + 1 /\ net'[s][d][i] = m
    OBVIOUS
  <2>1. s = c /\ d = l
    BY <1>9, <1>11
  <2>2. i \in Mine(Append(q, m), c)
    BY <1>9, <2>1
  <2> DEFINE r == Append(q, m)
  <2> HIDE DEF q
  <2>4. Mine(r, c) \subseteq Mine(q, c) \cup {Len(q) + 1} /\ r[Len(q) + 1] = m
    BY <1>4, <1>8, AppendElements
  <2> HIDE DEF r
  <2>5. i \in Mine(r, c)
    BY <2>2 DEF r
  <2>6. Mine(q, c) = {}
    BY <1>8, <1>11 DEF q
  <2>3. i = Len(q) + 1 /\ r[i] = m
    BY <2>4, <2>5, <2>6
  <2> QED BY <1>9, <2>1, <2>3 DEF r
<1>14. /\ \A s \in Node, d \in Leader : Kind(net'[s][d], c, "ADD_TICKET") = {}
       /\ \A i, j \in Kind(net'[c][l], c, "LOCK") : i = j
  <2>1. \A s \in Node, d \in Leader : \A type \in Vital :
          Kind(net'[s][d], c, type) \subseteq Mine(net'[s][d], c)
    BY DEF Kind, Mine
  <2>2. "ADD_TICKET" \in Vital /\ "LOCK" \in Vital
    BY DEF Vital
  <2>3. \A s \in Node, d \in Leader : Kind(net'[s][d], c, "ADD_TICKET") = {}
    <3> SUFFICES ASSUME NEW s \in Node, NEW d \in Leader, NEW i \in Kind(net'[s][d], c, "ADD_TICKET")
                 PROVE  FALSE
      OBVIOUS
    <3>1. net'[s][d][i] = m
      BY <1>13, <2>1, <2>2
    <3> QED BY <1>4, <3>1 DEF Kind
  <2>4. \A i \in Kind(net'[c][l], c, "LOCK") : i = Len(q) + 1
    <3> SUFFICES ASSUME NEW i \in Kind(net'[c][l], c, "LOCK") PROVE i = Len(q) + 1
      OBVIOUS
    <3>1. i \in Mine(net'[c][l], c)
      BY <1>8, <2>1, <2>2
    <3> QED BY <1>8, <1>13, <3>1
  <2> HIDE DEF q
  <2> QED BY <2>3, <2>4
<1>15. Orderly(c, l, W, v)
  <2>1. /\ \A d \in Leader : /\ ~Questioned(v.mail[c][d])
                             /\ \A t \in v.tickets[d] : t.client # c
        /\ \A s \in Node, d \in Leader : \A i \in Mine(v.net[s][d], c) : v.net[s][d][i].type = "LOCK"
    BY <1>4, <1>7, <1>11, <1>13 DEF Untold
  <2>2. Routed(c, l, W, c, l, m)
    BY <1>4 DEF Routed
  <2>3. Placed(c, l, W, v)
    BY <1>7, <1>13, <2>1, <2>2 DEF Placed, Single
  <2>4. Once(c, l, v)
    BY <1>6, <1>7, <1>14, <2>1 DEF Once, Untold
  <2>5. Added(c, l, W, v)
    BY <1>7, <1>8, <1>11, <1>14, <2>1 DEF Added, Counted, Plain, Node
  <2> QED BY <2>3, <2>4, <2>5 DEF Orderly
<1>16. to \in [Client -> Leader] /\ Numbering(to, W, v)
  BY <1>12, <1>15 DEF Numbering
<1> HIDE DEF to
<1>17. \E x \in [Client -> Leader], X \in SUBSET Client : Numbering(x, X, Now')
  BY <1>16 DEF v
<1> QED
  BY <1>1, <1>3, <1>17 DEF NumberInv

-----------------------------------------------------------------------------
LEMMA InitNumbers == Init => NumberInv
<1> SUFFICES ASSUME Init PROVE NumberInv
  OBVIOUS
<1>1. TypeInv /\ running = Leader
  BY InitTypes DEF Init
<1>2. PICK l \in Leader : TRUE
  BY LeaderAssumption
<1> DEFINE home == [c \in Client |-> l]
<1>3. ASSUME NEW c \in Client PROVE Orderly(c, l, Client, Now)
  <2>1. /\ Now.tries[c] = 0 /\ c \in Node /\ l \in Node
        /\ \A s \in Node, d \in Leader : Now.net[s][d] = <<>>
        /\ \A d \in Leader : Now.tickets[d] = {} /\ Now.mail[c][d] = <<>>
    BY DEF Init, Now, Node
  <2>2. \A s \in Node, d \in Leader :
          Mine(Now.net[s][d], c) = {} /\ \A type : Kind(Now.net[s][d], c, type) = {}
    BY <2>1 DEF Mine, Kind
  <2>3. \A d \in Leader : ~Questioned(Now.mail[c][d])
    BY <2>1 DEF Questioned, Range
  <2> QED BY <2>1, <2>2, <2>3 DEF Orderly, Placed, Once, Added, Untold, Single, Plain
<1>4. home \in [Client -> Leader] /\ Numbering(home, Client, Now)
  BY <1>3 DEF Numbering
<1> QED
  BY <1>1, <1>4 DEF NumberInv

LEMMA NextNumbers ==
  ASSUME NumberInv, Cardinality(Client) <= MaxNumber, MaxTries <= 1, [Next]_vars
  PROVE  NumberInv'
<1>1. ASSUME NEW s \in Node, NEW l \in Leader, Handle(s, l) PROVE NumberInv'
  BY <1>1, HandleNumbers
<1>2. ASSUME NEW l \in Leader, Timer(l) PROVE NumberInv'
  BY <1>2, TimerNumbers
<1>3. ASSUME NEW c \in Client, NEW l \in Leader, Lock(c, l) \/ Unlock(c, l) \/ Hear(c, l)
      PROVE  NumberInv'
  BY <1>3, LockNumbers, UnlockNumbers, HearNumbers
<1>4. ASSUME NEW c \in Client, ClientTimeout(c) PROVE NumberInv'
  BY <1>4, ClientTimeoutNumbers
<1>5. CASE UNCHANGED <<running, tickets, net, mail, client>>
  <2>1. TypeInv'
    BY NextTypes DEF NumberInv
  <2>2. UNCHANGED <<running, tickets, net, mail>> /\ \A c \in Client : client'[c].tries = client[c].tries
    BY <1>5
  <2> QED BY <2>1, <2>2, HushNumbers
<1> QED
  BY <1>1, <1>2, <1>3, <1>4, <1>5 DEF Next, Tick, vars

\* No exception of ticket.cpp stops a leader, whatever the number of leaders and clients, as long
\* as a client locks once and there are at least as many numbers as clients: no ticket gets a
\* second number, which set_ticket_number() refuses, and no number wraps around, which
\* max_ticket() refuses.
THEOREM NoExceptionStopsALeader ==
  ASSUME MaxTries <= 1, Cardinality(Client) <= MaxNumber
  PROVE  Spec => []LeadersKeepRunning
<1>1. NumberInv => LeadersKeepRunning
  BY DEF NumberInv, LeadersKeepRunning
<1>2. NumberInv /\ [Next]_vars => NumberInv'
  BY NextNumbers
<1> QED
  BY <1>1, <1>2, InitNumbers, PTL DEF Spec


=============================================================================
