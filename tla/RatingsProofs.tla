--------------------------- MODULE RatingsProofs ---------------------------
(***************************************************************************)
(* Proofs about Ratings: no rating is lost, the server sees the ratings in  *)
(* the order they were given, and every rating has a key of its own.        *)
(***************************************************************************)
EXTENDS Ratings, FiniteSetTheorems, WellFoundedInduction, TLAPS

-----------------------------------------------------------------------------
\* The inductive invariant.

Indexes == Nat \ {0}
Requests == [n : Nat, kind : {"put", "auth"}, index : Nat]

LinkType ==
    [state : {"disconnected", "getting_token", "connecting", "authenticating", "connected"},
     reasons : SUBSET {"waiting_for_open", "server_kill"}, retry : BOOLEAN, fetching : BOOLEAN,
     authToken : BOOLEAN, requestNumber : Nat, sent : Seq(Requests),
     answers : Seq([n : Nat, ok : BOOLEAN]), callbacks : SUBSET Requests]

Chars == [1 .. PushChars -> 0 .. PushBase - 1]
Keys == [time : Nat, chars : Chars]

RatingTypeOK ==
    /\ stars \in Int /\ push \in Keys
    /\ given \in Seq([key : Keys, stars : Int])
    /\ blocks \in Seq(Nat) /\ server \in Seq(Nat)
    /\ link \in LinkType
    /\ orphans \subseteq Seq(Requests)

\* The ratings whose update the queue has come to.
Updated == Len(given) - Len(blocks)

\* Ratings wait on the queue in their order.
QueueOK == Len(blocks) <= Len(given) /\ \A k \in 1 .. Len(blocks) : blocks[k] = Updated + k

\* The server has seen the ratings in their order.
ServerOK == \A k \in 1 .. Len(server) : server[k] = k

\* The puts of the ratings after b, one after the other.
PutsAfter(o, b) == \A k \in 1 .. Len(o) : o[k].kind = "put" /\ o[k].index = b + k

\* What is on its way of a lost connection: the token, or puts one after the other, the first
\* of which the server may take.
OrphanOK(o) ==
    /\ Len(o) > 0
    /\ \/ Len(o) = 1 /\ o[1].kind = "auth"
       \/ \E b \in 0 .. Len(server) : PutsAfter(o, b)

Put(n, index) == [n |-> n, kind |-> "put", index |-> index]
Auth(n) == [n |-> n, kind |-> "auth", index |-> 0]

\* Nothing is under way.
Quiet == link.sent = <<>> /\ link.answers = <<>> /\ link.callbacks = {}

\* The token was sent or answered.
Authenticating ==
    LET auth == Auth(link.requestNumber - 1)
    IN  /\ link.requestNumber > 0 /\ link.callbacks = {auth}
        /\ \/ link.sent = <<auth>> /\ link.answers = <<>>
           \/ link.sent = <<>> /\ Len(link.answers) = 1 /\ link.answers[1].n = auth.n

\* The puts that are outstanding, those after a up to h, were sent one after the other and are
\* answered so; rn is the next number of a request.  The server has handled v ratings.
Window(sent, answers, callbacks, rn, h, a, v) ==
    /\ Len(answers) + Len(sent) = h - a /\ h - Len(sent) <= v /\ h - a <= rn
    /\ \A k \in 1 .. Len(sent) : sent[k] = Put(rn - Len(sent) + k - 1, h - Len(sent) + k)
    /\ \A k \in 1 .. Len(answers) : answers[k].n = rn - (h - a) + k - 1
    /\ callbacks = {Put(rn - h + i - 1, i) : i \in a + 1 .. h}

Connected(a) ==
    Window(link.sent, link.answers, link.callbacks, link.requestNumber, Updated, a, Len(server))

LinkOK(a) ==
    /\ link.state \in {"disconnected", "getting_token", "connecting"} => Quiet
    /\ link.state = "authenticating" => Authenticating
    /\ link.state = "connected" => Connected(a)
    /\ link.retry => link.state = "disconnected"
    /\ link.fetching => link.state = "getting_token"

\* The outstanding puts are those of the ratings after a, which the server has handled.
PutsOK(a) == a <= Updated /\ a <= Len(server) /\ DOMAIN puts = a + 1 .. Updated

\* Keys grow: by their time, then by their characters.
LexLess(c, d) == \E i \in 1 .. PushChars : c[i] < d[i] /\ \A j \in 1 .. i - 1 : c[j] = d[j]
Before(k, m) == k.time < m.time \/ (k.time = m.time /\ LexLess(k.chars, m.chars))

KeysOK ==
    /\ \A i \in 1 .. Len(given) : given[i].key = push \/ Before(given[i].key, push)
    /\ \A i, j \in 1 .. Len(given) : i # j => given[i].key # given[j].key

RatingInv ==
    /\ RatingTypeOK /\ QueueOK /\ ServerOK /\ KeysOK
    /\ \A o \in orphans : OrphanOK(o)
    /\ \E a \in 0 .. Updated : PutsOK(a) /\ LinkOK(a)
-----------------------------------------------------------------------------
\* Numbers.

LEMMA LeastOf ==
    ASSUME NEW S, S \subseteq Nat, S # {}
    PROVE  \E m \in S : \A x \in S : m <= x
<1> DEFINE R == OpToRel(<, Nat)
<1>1. \A x, y \in Nat : <<x, y>> \in R <=> x < y
  BY DEF OpToRel
<1>2. IsWellFoundedOn(R, Nat)
  BY Zenon, NatLessThanWellFounded
<1> HIDE DEF R
<1>3. PICK m \in S : \A y \in S : ~(<<y, m>> \in R)
  BY <1>2, WFMin
<1>4. ASSUME NEW x \in S PROVE m <= x
  <2>1. x \in Nat /\ m \in Nat
    OBVIOUS
  <2>2. ~(x < m)
    BY <1>1, <1>3, <2>1
  <2> QED BY <2>1, <2>2
<1> QED BY <1>4

LEMMA GreatestOf ==
    ASSUME NEW n \in Nat, NEW S, S \subseteq 1 .. n, S # {}
    PROVE  \E m \in S : \A x \in S : m >= x
<1> DEFINE T == {n - x : x \in S}
<1>1. T \subseteq Nat /\ T # {}
  <2>1. \A x \in S : n - x \in Nat
    OBVIOUS
  <2>2. PICK x \in S : TRUE
    OBVIOUS
  <2>3. n - x \in T
    OBVIOUS
  <2> QED BY <2>1, <2>3
<1>2. PICK t \in T : \A y \in T : t <= y
  BY <1>1, LeastOf
<1>3. PICK m \in S : t = n - m
  OBVIOUS
<1>4. ASSUME NEW x \in S PROVE m >= x
  <2>1. n - x \in T /\ n - m <= n - x
    BY <1>2, <1>3
  <2>2. m \in Nat /\ x \in Nat
    OBVIOUS
  <2> QED BY <2>1, <2>2
<1> QED BY <1>4

LEMMA ElementOf ==
    ASSUME NEW S, NEW s \in Seq(S), NEW i \in 1 .. Len(s)
    PROVE  s[i] \in S
OBVIOUS

\* The order of an interval.
LEMMA NthOfInterval ==
    ASSUME NEW a \in Nat, NEW h \in Nat, a <= h
    PROVE  /\ Cardinality(a + 1 .. h) = h - a
           /\ \A k \in 1 .. h - a : Nth(a + 1 .. h, k) = a + k
<1>1. Cardinality(a + 1 .. h) = h - a
  <2>1. a + 1 \in Int /\ h \in Int
    OBVIOUS
  <2>2. Cardinality(a + 1 .. h) = IF a + 1 > h THEN 0 ELSE h - (a + 1) + 1
    BY <2>1, FS_Interval
  <2> QED BY <2>2
<1>2. ASSUME NEW k \in 1 .. h - a PROVE Nth(a + 1 .. h, k) = a + k
  <2>1. ASSUME NEW i \in a + 1 .. h
        PROVE  Cardinality({j \in a + 1 .. h : j <= i}) = i - a
    <3>1. {j \in a + 1 .. h : j <= i} = a + 1 .. i
      OBVIOUS
    <3>2. a + 1 \in Int /\ i \in Int
      OBVIOUS
    <3>3. Cardinality(a + 1 .. i) = IF a + 1 > i THEN 0 ELSE i - (a + 1) + 1
      BY <3>2, FS_Interval
    <3>4. Cardinality(a + 1 .. i) = i - a
      <4>1. i \in Nat /\ ~(a + 1 > i) /\ i - (a + 1) + 1 = i - a
        OBVIOUS
      <4> QED BY <3>3, <4>1
    <3> QED BY <3>1, <3>4
  <2>2. a + k \in a + 1 .. h /\ \A i \in a + 1 .. h : i - a = k <=> i = a + k
    OBVIOUS
  <2>3. \A i \in a + 1 .. h : Cardinality({j \in a + 1 .. h : j <= i}) = k <=> i = a + k
    BY <2>1, <2>2
  <2> QED BY <2>2, <2>3 DEF Nth
<1> QED BY <1>1, <1>2

-----------------------------------------------------------------------------
\* Keys.

\* One more is greater.
LEMMA IncrementGrows ==
    ASSUME NEW c \in Chars, c # [j \in 1 .. PushChars |-> PushBase - 1]
    PROVE  Increment(c) \in Chars /\ LexLess(c, Increment(c))
<1> DEFINE S == {j \in DOMAIN c : c[j] # PushBase - 1}
           i == Max(S)
<1>1. DOMAIN c = 1 .. PushChars /\ \A j \in 1 .. PushChars : c[j] \in 0 .. PushBase - 1
  BY DEF Chars
<1>2. PushChars \in Nat /\ PushBase \in Nat \ {0}
  BY RatingAssumption
<1>3. S \subseteq 1 .. PushChars /\ S # {}
  <2>1. PICK j \in 1 .. PushChars : c[j] # PushBase - 1
    BY <1>1 DEF Chars
  <2> QED BY <1>1, <2>1
<1>4. \E m \in S : \A x \in S : m >= x
  BY <1>2, <1>3, GreatestOf
<1>5. i \in S
  BY <1>4 DEF Max
<1>6. i \in 1 .. PushChars /\ c[i] # PushBase - 1
  BY <1>1, <1>5
<1>7. Increment(c) = [j \in 1 .. PushChars |-> IF j > i THEN 0 ELSE IF j = i THEN c[j] + 1 ELSE c[j]]
  BY <1>1 DEF Increment
<1> HIDE DEF i, S
<1>8. c[i] + 1 \in 0 .. PushBase - 1 /\ c[i] < c[i] + 1
  BY <1>1, <1>2, <1>6
<1>9. Increment(c) \in Chars
  BY <1>1, <1>2, <1>7, <1>8 DEF Chars
<1>10. c[i] < Increment(c)[i] /\ \A j \in 1 .. i - 1 : c[j] = Increment(c)[j]
  BY <1>1, <1>2, <1>6, <1>7, <1>8
<1> QED BY <1>6, <1>9, <1>10 DEF LexLess

LEMMA LexLessTransitive ==
    ASSUME NEW c \in Chars, NEW d \in Chars, NEW e \in Chars, LexLess(c, d), LexLess(d, e)
    PROVE  LexLess(c, e)
<1>1. PICK i \in 1 .. PushChars : c[i] < d[i] /\ \A j \in 1 .. i - 1 : c[j] = d[j]
  BY DEF LexLess
<1>2. PICK k \in 1 .. PushChars : d[k] < e[k] /\ \A j \in 1 .. k - 1 : d[j] = e[j]
  BY DEF LexLess
<1>3. \A j \in 1 .. PushChars : c[j] \in Nat /\ d[j] \in Nat /\ e[j] \in Nat
  BY RatingAssumption DEF Chars
<1>4. PushChars \in Nat
  BY RatingAssumption
<1>5. CASE i <= k
  <2>1. c[i] < e[i]
    <3>1. CASE i = k
      BY <1>1, <1>2, <1>3, <3>1
    <3>2. CASE i < k
      BY <1>1, <1>2, <1>3, <1>4, <3>2
    <3> QED BY <1>4, <1>5, <3>1, <3>2
  <2>2. \A j \in 1 .. i - 1 : c[j] = e[j]
    BY <1>1, <1>2, <1>4, <1>5
  <2> QED BY <2>1, <2>2 DEF LexLess
<1>6. CASE k < i
  <2>1. c[k] < e[k]
    BY <1>1, <1>2, <1>3, <1>4, <1>6
  <2>2. \A j \in 1 .. k - 1 : c[j] = e[j]
    BY <1>1, <1>2, <1>4, <1>6
  <2> QED BY <2>1, <2>2 DEF LexLess
<1> QED BY <1>4, <1>5, <1>6

LEMMA LexLessStrict ==
    ASSUME NEW c \in Chars
    PROVE  ~LexLess(c, c)
BY RatingAssumption DEF LexLess, Chars

LEMMA BeforeFacts ==
    ASSUME NEW k \in Keys, NEW m \in Keys, NEW p \in Keys
    PROVE  /\ ~Before(k, k)
           /\ Before(k, m) /\ Before(m, p) => Before(k, p)
<1>1. k.time \in Nat /\ m.time \in Nat /\ p.time \in Nat /\ k.chars \in Chars /\ m.chars \in Chars /\ p.chars \in Chars
  BY DEF Keys
<1>2. ~Before(k, k)
  BY <1>1, LexLessStrict DEF Before
<1>3. ASSUME Before(k, m), Before(m, p) PROVE Before(k, p)
  BY <1>1, <1>3, LexLessTransitive DEF Before
<1> QED BY <1>2, <1>3

\* A new key is after the last one.
LEMMA NextPushIdGrows ==
    ASSUME push \in Keys, NEW now \in {push.time, push.time + 1}, NEW chars \in NextPushId(now)
    PROVE  /\ [time |-> now, chars |-> chars] \in Keys
           /\ Before(push, [time |-> now, chars |-> chars])
<1>1. push.time \in Nat /\ push.chars \in Chars
  BY DEF Keys
<1>2. CASE now # push.time
  BY <1>1, <1>2 DEF NextPushId, Chars, Keys, Before
<1>3. CASE now = push.time
  <2>1. push.chars # [j \in 1 .. PushChars |-> PushBase - 1] /\ chars = Increment(push.chars)
    BY <1>3 DEF NextPushId
  <2>2. chars \in Chars /\ LexLess(push.chars, chars)
    BY <1>1, <2>1, IncrementGrows
  <2> QED BY <1>1, <1>3, <2>2 DEF Keys, Before
<1> QED BY <1>2, <1>3
-----------------------------------------------------------------------------
\* The parts of the invariant that a step leaves alone.

LEMMA LinkFields ==
    ASSUME link \in LinkType
    PROVE  /\ link.state \in {"disconnected", "getting_token", "connecting", "authenticating", "connected"}
           /\ link.reasons \subseteq {"waiting_for_open", "server_kill"} /\ link.retry \in BOOLEAN
           /\ link.fetching \in BOOLEAN /\ link.authToken \in BOOLEAN /\ link.requestNumber \in Nat
           /\ link.sent \in Seq(Requests) /\ link.answers \in Seq([n : Nat, ok : BOOLEAN])
           /\ link.callbacks \subseteq Requests
           /\ Len(link.sent) \in Nat /\ Len(link.answers) \in Nat
BY DEF LinkType

LEMMA Counts ==
    ASSUME RatingTypeOK, QueueOK
    PROVE  /\ Len(given) \in Nat /\ Len(blocks) \in Nat /\ Len(server) \in Nat
           /\ Updated \in Nat /\ Updated <= Len(given) /\ Updated = Len(given) - Len(blocks)
<1>1. Len(given) \in Nat /\ Len(blocks) \in Nat /\ Len(server) \in Nat
  BY DEF RatingTypeOK
<1>2. Len(blocks) <= Len(given)
  BY DEF QueueOK
<1> QED BY <1>1, <1>2 DEF Updated

LEMMA OrphanStays ==
    ASSUME NEW o, OrphanOK(o), Len(server) \in Nat, Len(server') \in Nat, Len(server) <= Len(server')
    PROVE  OrphanOK(o)'
<1>1. 0 .. Len(server) \subseteq 0 .. Len(server')
  OBVIOUS
<1> QED BY <1>1 DEF OrphanOK

LEMMA WindowStays ==
    ASSUME NEW sent, NEW answers, NEW callbacks, NEW rn, NEW h \in Nat, NEW a, NEW v \in Nat,
           NEW w \in Nat, Window(sent, answers, callbacks, rn, h, a, v), v <= w, Len(sent) \in Nat
    PROVE  Window(sent, answers, callbacks, rn, h, a, w)
<1>1. h - Len(sent) <= w
  BY DEF Window
<1> QED BY <1>1 DEF Window

LEMMA ConnectedStays ==
    ASSUME NEW a, Connected(a), Updated' = Updated, Updated \in Nat, link \in LinkType,
           Len(server) \in Nat, Len(server') \in Nat, Len(server) <= Len(server'),
           link'.sent = link.sent, link'.answers = link.answers,
           link'.callbacks = link.callbacks, link'.requestNumber = link.requestNumber
    PROVE  Connected(a)'
BY LinkFields, WindowStays DEF Connected

LEMMA LinkStays ==
    ASSUME NEW a, LinkOK(a), Updated' = Updated, Updated \in Nat, link \in LinkType,
           Len(server) \in Nat, Len(server') \in Nat, Len(server) <= Len(server'), UNCHANGED link
    PROVE  LinkOK(a)'
<1>1. Connected(a) => Connected(a)'
  BY ConnectedStays
<1>2. (Quiet => Quiet') /\ (Authenticating => Authenticating')
  BY DEF Quiet, Authenticating
<1> QED BY <1>1, <1>2 DEF LinkOK

\* The parts that do not depend on the connection, when a step leaves what they are about.
LEMMA RatingParts ==
    ASSUME RatingInv
    PROVE  /\ RatingTypeOK /\ QueueOK /\ ServerOK /\ KeysOK /\ link \in LinkType
           /\ \A o \in orphans : OrphanOK(o)
           /\ \E a \in 0 .. Updated : PutsOK(a) /\ LinkOK(a)
BY DEF RatingInv, RatingTypeOK

LEMMA SameQueue ==
    ASSUME UNCHANGED <<given, blocks, server>>
    PROVE  /\ Updated' = Updated /\ (QueueOK => QueueOK') /\ (ServerOK => ServerOK')
           /\ \A o : OrphanOK(o) => OrphanOK(o)'
BY DEF Updated, QueueOK, ServerOK, OrphanOK

\* Steps of the connection while nothing is under way, and steps that end it.
LEMMA QuietStep ==
    ASSUME RatingInv, UNCHANGED <<push, given, blocks, puts, server>>, stars' = stars,
           link' \in LinkType, Quiet',
           link'.state \in {"disconnected", "getting_token", "connecting"},
           link'.retry => link'.state = "disconnected",
           link'.fetching => link'.state = "getting_token",
           orphans' \subseteq Seq(Requests), \A o \in orphans' : OrphanOK(o)
    PROVE  RatingInv'
<1>1. PICK a \in 0 .. Updated : PutsOK(a) /\ LinkOK(a)
  BY RatingParts
<1>2. Updated' = Updated /\ QueueOK' /\ ServerOK' /\ \A o \in orphans' : OrphanOK(o)'
  BY RatingParts, SameQueue
<1>3. RatingTypeOK'
  BY RatingParts DEF RatingTypeOK
<1>4. KeysOK'
  BY RatingParts DEF KeysOK
<1>5. PutsOK(a)' /\ a \in 0 .. Updated'
  BY <1>1, <1>2 DEF PutsOK
<1>6. LinkOK(a)'
  BY DEF LinkOK
<1> QED BY <1>2, <1>3, <1>4, <1>5, <1>6 DEF RatingInv

\* In these states nothing is under way.
LEMMA QuietStates ==
    ASSUME RatingInv, link.state \in {"disconnected", "getting_token", "connecting"}
    PROVE  Quiet
BY RatingParts DEF LinkOK

LEMMA RatingInitOK == RatingInit => RatingInv
<1> SUFFICES ASSUME RatingInit PROVE RatingInv
  OBVIOUS
<1>1. push \in Keys
  <2>1. [i \in 1 .. PushChars |-> 0] \in Chars
    BY RatingAssumption DEF Chars
  <2> QED BY <2>1 DEF RatingInit, Keys
<1>2. link \in LinkType
  <2>1. <<>> \in Seq(Requests) /\ <<>> \in Seq([n : Nat, ok : BOOLEAN])
    OBVIOUS
  <2> QED BY <2>1 DEF RatingInit, LinkType
<1>3. given = <<>> /\ blocks = <<>> /\ server = <<>> /\ puts = <<>> /\ orphans = {} /\ stars \in Int
  BY DEF RatingInit
<1>4. RatingTypeOK
  BY <1>1, <1>2, <1>3 DEF RatingTypeOK
<1>5. Len(given) = 0 /\ Len(blocks) = 0 /\ Len(server) = 0 /\ Updated = 0 /\ DOMAIN puts = 1 .. 0
  BY <1>3 DEF Updated
<1>6. QueueOK /\ ServerOK /\ KeysOK
  BY <1>5 DEF QueueOK, ServerOK, KeysOK
<1>7. PutsOK(0)
  BY <1>5 DEF PutsOK
<1>8. LinkOK(0)
  BY DEF RatingInit, LinkOK, Quiet
<1>9. 0 \in 0 .. Updated
  BY <1>5
<1> QED BY <1>3, <1>4, <1>6, <1>7, <1>8, <1>9 DEF RatingInv
-----------------------------------------------------------------------------
\* The screen and the queue.

LEMMA ScreenKeeps ==
    ASSUME RatingInv, ShowDetails \/ Touch
    PROVE  RatingInv'
<1>1. UNCHANGED <<push, given, blocks, puts, link, server, orphans>> /\ stars' \in Int
  BY RatingAssumption DEF ShowDetails, Touch
<1>2. PICK a \in 0 .. Updated : PutsOK(a) /\ LinkOK(a)
  BY RatingParts
<1>3. Updated' = Updated /\ QueueOK' /\ ServerOK' /\ \A o \in orphans' : OrphanOK(o)'
  BY <1>1, RatingParts, SameQueue
<1>4. RatingTypeOK' /\ KeysOK'
  BY <1>1, RatingParts DEF RatingTypeOK, KeysOK
<1>5. PutsOK(a)'
  BY <1>1, <1>2, <1>3 DEF PutsOK
<1>6. LinkOK(a)'
  BY <1>1, <1>2, <1>3 DEF LinkOK, Quiet, Authenticating, Connected
<1> QED BY <1>2, <1>3, <1>4, <1>5, <1>6 DEF RatingInv

LEMMA LeaveKeeps ==
    ASSUME RatingInv, LeaveDetails
    PROVE  RatingInv'
<1>1. UNCHANGED <<puts, link, server, orphans>> /\ stars' = -1 /\ stars \in Int
  BY RatingParts DEF LeaveDetails, RatingTypeOK
<1>2. PICK a \in 0 .. Updated : PutsOK(a) /\ LinkOK(a)
  BY RatingParts
<1>3. /\ Len(given) \in Nat /\ Len(blocks) \in Nat /\ Len(server) \in Nat
      /\ Updated \in Nat /\ Updated = Len(given) - Len(blocks)
  BY RatingParts, Counts
<1>4. CASE UNCHANGED <<push, given, blocks>>
  <2>1. Updated' = Updated /\ QueueOK' /\ ServerOK' /\ \A o \in orphans' : OrphanOK(o)'
    BY <1>1, <1>4, RatingParts, SameQueue
  <2>2. RatingTypeOK' /\ KeysOK'
    BY <1>1, <1>4, RatingParts DEF RatingTypeOK, KeysOK
  <2>3. PutsOK(a)' /\ LinkOK(a)'
    BY <1>1, <1>2, <1>3, <2>1, RatingParts, LinkStays DEF PutsOK
  <2> QED BY <1>2, <2>1, <2>2, <2>3 DEF RatingInv
<1>5. ASSUME NEW now \in {push.time, push.time + 1}, NEW chars \in NextPushId(now),
             push' = [time |-> now, chars |-> chars],
             given' = Append(given, [key |-> push', stars |-> stars]),
             blocks' = Append(blocks, Len(given) + 1)
      PROVE  RatingInv'
  <2>1. push' \in Keys /\ Before(push, push') /\ push \in Keys
    BY <1>5, RatingParts, NextPushIdGrows DEF RatingTypeOK
  <2> DEFINE g == [key |-> push', stars |-> stars]
  <2>2. g \in [key : Keys, stars : Int] /\ g.key = push'
    BY <1>1, <2>1
  <2>3. given' = Append(given, g)
    BY <1>5
  <2> HIDE DEF g
  <2>4. given \in Seq([key : Keys, stars : Int]) /\ blocks \in Seq(Nat)
    BY RatingParts DEF RatingTypeOK
  <2>5. /\ given' \in Seq([key : Keys, stars : Int]) /\ Len(given') = Len(given) + 1
        /\ given'[Len(given) + 1] = g /\ \A i \in 1 .. Len(given) : given'[i] = given[i]
    BY <2>2, <2>3, <2>4
  <2>6. /\ blocks' \in Seq(Nat) /\ Len(blocks') = Len(blocks) + 1
        /\ blocks'[Len(blocks) + 1] = Len(given) + 1
        /\ \A i \in 1 .. Len(blocks) : blocks'[i] = blocks[i]
    <3>1. Len(given) + 1 \in Nat
      BY <1>3
    <3> QED BY <1>5, <2>4, <3>1
  <2>7. Updated' = Updated
    BY <1>3, <2>5, <2>6 DEF Updated
  <2>8. RatingTypeOK'
    BY <1>1, <2>1, <2>5, <2>6, RatingParts DEF RatingTypeOK
  <2>9. QueueOK'
    <3>1. Len(blocks') <= Len(given')
      BY <1>3, <2>5, <2>6
    <3>2. ASSUME NEW k \in 1 .. Len(blocks') PROVE blocks'[k] = Updated' + k
      <4>1. CASE k = Len(blocks) + 1
        BY <1>3, <2>6, <2>7, <4>1
      <4>2. CASE k \in 1 .. Len(blocks)
        BY <2>6, <2>7, <4>2, RatingParts DEF QueueOK
      <4> QED BY <1>3, <2>6, <4>1, <4>2
    <3> QED BY <3>1, <3>2 DEF QueueOK
  <2>10. KeysOK'
    <3>1. ASSUME NEW i \in 1 .. Len(given) PROVE given[i].key \in Keys /\ Before(given[i].key, push')
      <4>1. given[i] \in [key : Keys, stars : Int]
        BY <2>4, ElementOf
      <4>2. given[i].key \in Keys /\ (given[i].key = push \/ Before(given[i].key, push))
        BY <4>1, RatingParts DEF KeysOK
      <4> QED BY <2>1, <4>2, BeforeFacts
    <3>2. ASSUME NEW i \in 1 .. Len(given) PROVE given[i].key # push'
      BY <2>1, <3>1, BeforeFacts
    <3>3. \A i \in 1 .. Len(given') : i \in 1 .. Len(given) \/ i = Len(given) + 1
      BY <1>3, <2>5
    <3>4. \A i \in 1 .. Len(given') : given'[i].key = push' \/ Before(given'[i].key, push')
      BY <2>2, <2>5, <3>1, <3>3
    <3>5. \A i, j \in 1 .. Len(given) : i # j => given[i].key # given[j].key
      BY RatingParts DEF KeysOK
    <3>6. ASSUME NEW i \in 1 .. Len(given'), NEW j \in 1 .. Len(given'), i # j
          PROVE  given'[i].key # given'[j].key
      <4>1. CASE i = Len(given) + 1
        BY <2>2, <2>5, <3>2, <3>3, <3>6, <4>1
      <4>2. CASE j = Len(given) + 1
        BY <2>2, <2>5, <3>2, <3>3, <3>6, <4>2
      <4>3. CASE i \in 1 .. Len(given) /\ j \in 1 .. Len(given)
        BY <2>5, <3>5, <3>6, <4>3
      <4> QED BY <3>3, <4>1, <4>2, <4>3
    <3> QED BY <3>4, <3>6 DEF KeysOK
  <2>11. ServerOK' /\ \A o \in orphans' : OrphanOK(o)'
    BY <1>1, RatingParts DEF ServerOK, OrphanOK
  <2>12. PutsOK(a)' /\ LinkOK(a)'
    BY <1>1, <1>2, <1>3, <2>7, RatingParts, LinkStays DEF PutsOK
  <2> QED BY <1>2, <2>7, <2>8, <2>9, <2>10, <2>11, <2>12 DEF RatingInv
<1> QED BY <1>4, <1>5 DEF LeaveDetails

-----------------------------------------------------------------------------
\* The connection while nothing is under way.

LEMMA Scheduled ==
    ASSUME NEW l \in LinkType
    PROVE  LET t == TryScheduleReconnect(l)
           IN  /\ t \in LinkType /\ t.sent = l.sent /\ t.answers = l.answers
               /\ t.callbacks = l.callbacks /\ t.state = l.state /\ t.fetching = l.fetching
BY DEF TryScheduleReconnect, LinkType

LEMMA QuietSteps ==
    ASSUME RatingInv, Open \/ RetryFires \/ TokenFetched \/ TokenFails \/ Reachable
    PROVE  RatingInv'
<1>1. /\ link \in LinkType /\ (link.retry => link.state = "disconnected")
      /\ (link.fetching => link.state = "getting_token")
  BY RatingParts DEF LinkOK
<1>2. UNCHANGED <<push, given, blocks, puts, server, orphans, stars>>
  BY Zenon DEF Open, RetryFires, TokenFetched, TokenFails, Reachable
<1>3. orphans' \subseteq Seq(Requests) /\ \A o \in orphans' : OrphanOK(o)
  BY <1>2, RatingParts DEF RatingTypeOK
<1>4. ASSUME Quiet, link' \in LinkType,
             link'.sent = link.sent, link'.answers = link.answers, link'.callbacks = link.callbacks,
             link'.state \in {"disconnected", "getting_token", "connecting"},
             link'.retry => link'.state = "disconnected",
             link'.fetching => link'.state = "getting_token"
      PROVE  RatingInv'
  <2>1. Quiet'
    BY <1>4 DEF Quiet
  <2> QED BY <1>2, <1>3, <1>4, <2>1, QuietStep
<1>6. CASE RetryFires
  <2>1. Quiet
    BY <1>1, <1>6, QuietStates DEF RetryFires
  <2>2. link' = [link EXCEPT !.retry = FALSE, !.state = "getting_token", !.fetching = TRUE]
    BY <1>6 DEF RetryFires
  <2>3. /\ link' \in LinkType /\ link'.sent = link.sent /\ link'.answers = link.answers
        /\ link'.callbacks = link.callbacks /\ link'.state = "getting_token" /\ link'.retry = FALSE
    BY <1>1, <2>2 DEF LinkType
  <2> QED BY <1>4, <2>1, <2>3
<1>7. CASE TokenFetched
  <2>1. Quiet /\ ~link.retry
    BY Zenon, <1>1, <1>7, QuietStates DEF TokenFetched
  <2>2. PICK token \in BOOLEAN :
           link' = [link EXCEPT !.fetching = FALSE, !.authToken = token, !.state = "connecting"]
    BY Zenon, <1>7 DEF TokenFetched
  <2>3. /\ link' \in LinkType /\ link'.sent = link.sent /\ link'.answers = link.answers
        /\ link'.callbacks = link.callbacks /\ link'.state = "connecting"
        /\ link'.retry = link.retry /\ link'.fetching = FALSE
    BY <1>1, <2>2 DEF LinkType
  <2> QED BY <1>4, <2>1, <2>3
<1>8. CASE TokenFails
  <2> DEFINE l == [link EXCEPT !.fetching = FALSE, !.state = "disconnected"]
  <2>1. Quiet /\ link' = TryScheduleReconnect(l)
    BY <1>1, <1>8, QuietStates DEF TokenFails
  <2>2. /\ l \in LinkType /\ l.sent = link.sent /\ l.answers = link.answers /\ l.callbacks = link.callbacks
        /\ l.state = "disconnected" /\ l.fetching = FALSE
    BY <1>1 DEF LinkType
  <2> HIDE DEF l
  <2>3. /\ link' \in LinkType /\ link'.sent = link.sent /\ link'.answers = link.answers
        /\ link'.callbacks = link.callbacks /\ link'.state = "disconnected" /\ link'.fetching = FALSE
    BY Scheduled, <2>1, <2>2
  <2> QED BY <1>4, <2>1, <2>3
<1>9. CASE Reachable
  <2>1. Quiet /\ link' = TryScheduleReconnect(link) /\ link.state = "disconnected"
    BY <1>9, QuietStates DEF Reachable
  <2>2. /\ link' \in LinkType /\ link'.sent = link.sent /\ link'.answers = link.answers
        /\ link'.callbacks = link.callbacks /\ link'.state = "disconnected" /\ link'.fetching = link.fetching
    BY Scheduled, <1>1, <2>1
  <2> QED BY <1>1, <1>4, <2>1, <2>2
<1>10. CASE Open
  <2> DEFINE l == [link EXCEPT !.reasons = @ \ {"waiting_for_open"}]
  <2>1. link' = IF l.state = "disconnected" THEN TryScheduleReconnect(l) ELSE l
    BY <1>10 DEF Open
  <2>2. /\ l \in LinkType /\ l.sent = link.sent /\ l.answers = link.answers /\ l.callbacks = link.callbacks
        /\ l.state = link.state /\ l.fetching = link.fetching /\ l.retry = link.retry
        /\ l.requestNumber = link.requestNumber
    BY <1>1 DEF LinkType
  <2> HIDE DEF l
  <2>3. CASE link.state = "disconnected"
    <3>1. Quiet /\ link' = TryScheduleReconnect(l)
      BY <2>1, <2>2, <2>3, QuietStates
    <3>2. /\ link' \in LinkType /\ link'.sent = link.sent /\ link'.answers = link.answers
          /\ link'.callbacks = link.callbacks /\ link'.state = "disconnected" /\ link'.fetching = link.fetching
      BY Scheduled, <2>2, <2>3, <3>1
    <3> QED BY <1>1, <1>4, <2>3, <3>1, <3>2
  <2>4. CASE link.state # "disconnected"
    <3>1. link' = l
      BY <2>1, <2>2, <2>4
    <3>2. PICK a \in 0 .. Updated : PutsOK(a) /\ LinkOK(a)
      BY RatingParts
    <3>3. Updated' = Updated /\ QueueOK' /\ ServerOK' /\ \A o \in orphans' : OrphanOK(o)'
      BY <1>2, <1>3, RatingParts, SameQueue
    <3>4. RatingTypeOK' /\ KeysOK'
      BY <1>2, <2>2, <3>1, RatingParts DEF RatingTypeOK, KeysOK
    <3>5. Len(server) \in Nat /\ Updated \in Nat /\ Len(server) <= Len(server') /\ Len(server') \in Nat
      BY <1>2, RatingParts, Counts
    <3>6. Connected(a) => Connected(a)'
      BY <1>1, <2>2, <3>1, <3>3, <3>5, ConnectedStays
    <3>7. (Quiet => Quiet') /\ (Authenticating => Authenticating')
      BY <2>2, <3>1 DEF Quiet, Authenticating
    <3>8. LinkOK(a)'
      BY <2>2, <3>1, <3>2, <3>6, <3>7 DEF LinkOK
    <3>9. PutsOK(a)' /\ a \in 0 .. Updated'
      BY <1>2, <3>2, <3>3 DEF PutsOK
    <3> QED BY <3>3, <3>4, <3>8, <3>9 DEF RatingInv
  <2> QED BY <2>3, <2>4
<1> QED BY <1>6, <1>7, <1>8, <1>9, <1>10
-----------------------------------------------------------------------------
\* Sending.

\* What a request does to the connection.
LEMMA Sent ==
    ASSUME NEW l \in LinkType, NEW kind \in {"put", "auth"}, NEW index \in Nat
    PROVE  LET r == [n |-> l.requestNumber, kind |-> kind, index |-> index]
               m == SendAction(l, kind, index)
           IN  /\ m \in LinkType /\ m.state = l.state /\ m.retry = l.retry /\ m.fetching = l.fetching
               /\ m.answers = l.answers /\ m.requestNumber = l.requestNumber + 1
               /\ m.callbacks = l.callbacks \cup {r} /\ m.sent = Append(l.sent, r)
<1> DEFINE r == [n |-> l.requestNumber, kind |-> kind, index |-> index]
           sent == Append(l.sent, r)
           callbacks == l.callbacks \cup {r}
           number == l.requestNumber + 1
<1>1. /\ l.sent \in Seq(Requests) /\ l.callbacks \subseteq Requests /\ l.requestNumber \in Nat
  BY DEF LinkType
<1>2. r \in Requests
  BY <1>1 DEF Requests
<1>3. SendAction(l, kind, index) = [l EXCEPT !.requestNumber = number, !.sent = sent, !.callbacks = callbacks]
  BY DEF SendAction, Request
<1> HIDE DEF r
<1>4. sent \in Seq(Requests) /\ callbacks \subseteq Requests /\ number \in Nat
  BY <1>1, <1>2
<1>5. number = l.requestNumber + 1 /\ sent = Append(l.sent, r) /\ callbacks = l.callbacks \cup {r}
  OBVIOUS
<1> HIDE DEF sent, callbacks, number
<1>6. /\ SendAction(l, kind, index) \in LinkType /\ SendAction(l, kind, index).state = l.state
      /\ SendAction(l, kind, index).retry = l.retry /\ SendAction(l, kind, index).fetching = l.fetching
      /\ SendAction(l, kind, index).answers = l.answers
      /\ SendAction(l, kind, index).requestNumber = number
      /\ SendAction(l, kind, index).callbacks = callbacks /\ SendAction(l, kind, index).sent = sent
  BY ZenonT(60), <1>3, <1>4 DEF LinkType
<1> QED BY <1>5, <1>6 DEF r

LEMMA AppendFacts ==
    ASSUME NEW S, NEW s \in Seq(S), NEW e \in S
    PROVE  /\ Append(s, e) \in Seq(S) /\ Len(Append(s, e)) = Len(s) + 1
           /\ Append(s, e)[Len(s) + 1] = e /\ \A i \in 1 .. Len(s) : Append(s, e)[i] = s[i]
OBVIOUS

LEMMA TailFacts ==
    ASSUME NEW S, NEW s \in Seq(S), s # <<>>
    PROVE  /\ Tail(s) \in Seq(S) /\ Len(s) \in Nat \ {0} /\ Len(Tail(s)) = Len(s) - 1
           /\ Head(s) = s[1] /\ Head(s) \in S
           /\ \A i \in 1 .. Len(s) - 1 : Tail(s)[i] = s[i + 1]
OBVIOUS

LEMMA TailOfOne ==
    ASSUME NEW S, NEW s \in Seq(S), Len(s) = 1
    PROVE  Tail(s) = <<>>
<1> DEFINE t == Tail(s)
<1>1. s # <<>>
  OBVIOUS
<1>2. t \in Seq(S) /\ Len(t) = Len(s) - 1
  BY <1>1, TailFacts
<1> HIDE DEF t
<1>3. Len(t) = 0
  BY <1>2
<1>4. t = <<>>
  BY <1>2, <1>3
<1> QED BY <1>4 DEF t

LEMMA WindowSends ==
    ASSUME NEW sent \in Seq(Requests), NEW answers, NEW callbacks, NEW rn \in Nat, NEW h \in Nat,
           NEW a \in Nat, NEW v \in Nat, a <= h, Len(answers) \in Nat,
           Window(sent, answers, callbacks, rn, h, a, v)
    PROVE  Window(Append(sent, Put(rn, h + 1)), answers, callbacks \cup {Put(rn, h + 1)},
                  rn + 1, h + 1, a, v)
<1> DEFINE s == Len(sent)
           m == Len(answers)
           r == Put(rn, h + 1)
           sent2 == Append(sent, r)
<1>1. s \in Nat /\ m \in Nat
  OBVIOUS
<1>2. /\ m + s = h - a /\ h - s <= v /\ h - a <= rn
      /\ \A k \in 1 .. s : sent[k] = Put(rn - s + k - 1, h - s + k)
      /\ \A k \in 1 .. m : answers[k].n = rn - (h - a) + k - 1
      /\ callbacks = {Put(rn - h + i - 1, i) : i \in a + 1 .. h}
  BY DEF Window
<1>3. r \in Requests
  BY DEF Put, Requests
<1> HIDE DEF r
<1>4. Len(sent2) = s + 1 /\ sent2[s + 1] = r /\ \A k \in 1 .. s : sent2[k] = sent[k]
  BY <1>3, AppendFacts
<1> HIDE DEF s, m, sent2
<1>5. m + (s + 1) = (h + 1) - a /\ (h + 1) - (s + 1) <= v /\ (h + 1) - a <= rn + 1
  BY <1>1, <1>2
<1>6. ASSUME NEW k \in 1 .. s + 1
      PROVE  sent2[k] = Put((rn + 1) - (s + 1) + k - 1, (h + 1) - (s + 1) + k)
  <2>1. CASE k = s + 1
    <3>1. (rn + 1) - (s + 1) + k - 1 = rn /\ (h + 1) - (s + 1) + k = h + 1
      BY <1>1, <2>1
    <3> QED BY <1>4, <2>1, <3>1 DEF r
  <2>2. CASE k \in 1 .. s
    <3>1. (rn + 1) - (s + 1) + k - 1 = rn - s + k - 1 /\ (h + 1) - (s + 1) + k = h - s + k
      BY <1>1
    <3> QED BY <1>2, <1>4, <2>2, <3>1
  <2> QED BY <1>1, <2>1, <2>2
<1>7. ASSUME NEW k \in 1 .. m PROVE answers[k].n = (rn + 1) - ((h + 1) - a) + k - 1
  <2>1. (rn + 1) - ((h + 1) - a) + k - 1 = rn - (h - a) + k - 1
    BY <1>1
  <2> QED BY <1>2, <2>1
<1>8. callbacks \cup {r} = {Put((rn + 1) - (h + 1) + i - 1, i) : i \in a + 1 .. h + 1}
  <2>1. \A i \in a + 1 .. h : (rn + 1) - (h + 1) + i - 1 = rn - h + i - 1
    OBVIOUS
  <2>2. (rn + 1) - (h + 1) + (h + 1) - 1 = rn
    OBVIOUS
  <2>3. a + 1 .. h + 1 = (a + 1 .. h) \cup {h + 1}
    OBVIOUS
  <2>4. \A x \in callbacks : \E i \in a + 1 .. h + 1 : x = Put((rn + 1) - (h + 1) + i - 1, i)
    BY <1>2, <2>1, <2>3
  <2>5. r = Put((rn + 1) - (h + 1) + (h + 1) - 1, h + 1)
    BY <2>2 DEF r
  <2>6. \A i \in a + 1 .. h : Put((rn + 1) - (h + 1) + i - 1, i) \in callbacks
    BY <1>2, <2>1
  <2> QED BY <2>3, <2>4, <2>5, <2>6
<1> QED BY <1>4, <1>5, <1>6, <1>7, <1>8 DEF Window, s, m, sent2, r

LEMMA UpdateKeeps ==
    ASSUME RatingInv, Update
    PROVE  RatingInv'
<1> DEFINE h == Updated
           index == Head(blocks)
           send == link.state = "connected"
<1>1. /\ UNCHANGED <<stars, push, given, server, orphans>> /\ blocks' = Tail(blocks) /\ blocks # <<>>
      /\ puts' = [i \in DOMAIN puts \cup {index} |-> IF i = index THEN send ELSE puts[i]]
      /\ link' = IF send THEN SendPut(link, index) ELSE link
  BY DEF Update
<1>2. PICK a \in 0 .. Updated : PutsOK(a) /\ LinkOK(a)
  BY RatingParts
<1>3. /\ Len(given) \in Nat /\ Len(blocks) \in Nat /\ Len(server) \in Nat
      /\ h \in Nat /\ h = Len(given) - Len(blocks) /\ link \in LinkType
  BY RatingParts, Counts
<1>4. /\ blocks' \in Seq(Nat) /\ Len(blocks) \in Nat \ {0} /\ Len(blocks') = Len(blocks) - 1
      /\ index = blocks[1] /\ \A i \in 1 .. Len(blocks) - 1 : blocks'[i] = blocks[i + 1]
  BY <1>1, RatingParts, TailFacts DEF RatingTypeOK
<1>5. \A k \in 1 .. Len(blocks) : blocks[k] = h + k
  BY RatingParts DEF QueueOK
<1>6. index = h + 1 /\ index \in Nat
  BY <1>3, <1>4, <1>5
<1>7. Updated' = h + 1
  BY <1>1, <1>3, <1>4 DEF Updated
<1> HIDE DEF h, index
<1>8. QueueOK'
  <2>1. Len(blocks') <= Len(given)
    BY <1>3, <1>4
  <2>2. ASSUME NEW k \in 1 .. Len(blocks') PROVE blocks'[k] = Updated' + k
    <3>1. k \in 1 .. Len(blocks) - 1 /\ k + 1 \in 1 .. Len(blocks)
      BY <1>4
    <3>2. blocks'[k] = h + (k + 1)
      BY <1>4, <1>5, <3>1
    <3> QED BY <1>3, <1>7, <3>1, <3>2
  <2> QED BY <1>1, <2>1, <2>2 DEF QueueOK
<1>9. ServerOK' /\ KeysOK' /\ \A o \in orphans' : OrphanOK(o)'
  BY <1>1, RatingParts DEF ServerOK, OrphanOK, KeysOK
<1>10. PutsOK(a)' /\ a \in 0 .. Updated'
  <2>1. a \in Nat /\ a <= h /\ a <= Len(server) /\ DOMAIN puts = a + 1 .. h
    BY <1>2, <1>3 DEF PutsOK, h
  <2>2. DOMAIN puts' = (a + 1 .. h) \cup {h + 1}
    BY <1>1, <1>6, <2>1
  <2>3. (a + 1 .. h) \cup {h + 1} = a + 1 .. h + 1
    BY <1>3, <2>1
  <2> QED BY <1>1, <1>3, <1>7, <2>1, <2>2, <2>3 DEF PutsOK
<1>11. link' \in LinkType /\ LinkOK(a)'
  <2>1. CASE ~send
    <3>1. link' = link
      BY <1>1, <2>1
    <3>2. (Quiet => Quiet') /\ (Authenticating => Authenticating')
      BY <3>1 DEF Quiet, Authenticating
    <3> QED BY <1>2, <1>3, <2>1, <3>1, <3>2 DEF LinkOK
  <2>2. CASE send
    <3> DEFINE rn == link.requestNumber
               r == Put(rn, index)
    <3>1. /\ link' \in LinkType /\ link'.state = "connected" /\ link'.retry = link.retry
          /\ link'.fetching = link.fetching /\ link'.answers = link.answers
          /\ link'.requestNumber = rn + 1 /\ link'.callbacks = link.callbacks \cup {r}
          /\ link'.sent = Append(link.sent, r)
      BY SMTT(30), <1>1, <1>3, <1>6, <2>2, Sent DEF SendPut, Put
    <3>2. link.sent \in Seq(Requests) /\ Len(link.answers) \in Nat /\ rn \in Nat
      BY <1>3, LinkFields
    <3>3. a \in Nat /\ a <= h
      BY <1>2, <1>3 DEF h
    <3>4. Window(link.sent, link.answers, link.callbacks, rn, h, a, Len(server))
      BY <1>2, <2>2 DEF LinkOK, Connected, h
    <3> HIDE DEF rn
    <3>5. Window(Append(link.sent, Put(rn, h + 1)), link.answers, link.callbacks \cup {Put(rn, h + 1)},
                 rn + 1, h + 1, a, Len(server))
      BY <1>3, <3>2, <3>3, <3>4, WindowSends
    <3>6. Connected(a)'
      BY <1>1, <1>6, <1>7, <3>1, <3>5 DEF Connected
    <3> QED BY <1>2, <2>2, <3>1, <3>6 DEF LinkOK
  <2> QED BY <2>1, <2>2
<1>12. RatingTypeOK'
  BY <1>1, <1>4, <1>11, RatingParts DEF RatingTypeOK
<1> QED BY <1>8, <1>9, <1>10, <1>11, <1>12 DEF RatingInv
\* The server handles the first request under way and answers it.
LEMMA WindowServes ==
    ASSUME NEW sent \in Seq(Requests), NEW answers \in Seq([n : Nat, ok : BOOLEAN]), NEW callbacks,
           NEW rn \in Nat, NEW h \in Nat, NEW a \in Nat, NEW v \in Nat, NEW w \in Nat, a <= h,
           sent # <<>>, NEW ok \in BOOLEAN, Window(sent, answers, callbacks, rn, h, a, v),
           v <= w, h - Len(sent) + 1 <= w
    PROVE  Window(Tail(sent), Append(answers, [n |-> Head(sent).n, ok |-> ok]), callbacks, rn, h, a, w)
<1> DEFINE s == Len(sent)
           m == Len(answers)
           x == [n |-> Head(sent).n, ok |-> ok]
           sent2 == Tail(sent)
           answers2 == Append(answers, x)
<1>1. m \in Nat /\ h - s + 1 <= w
  OBVIOUS
<1>2. /\ m + s = h - a /\ h - s <= v /\ h - a <= rn
      /\ \A k \in 1 .. s : sent[k] = Put(rn - s + k - 1, h - s + k)
      /\ \A k \in 1 .. m : answers[k].n = rn - (h - a) + k - 1
      /\ callbacks = {Put(rn - h + i - 1, i) : i \in a + 1 .. h}
  BY DEF Window
<1>3. /\ s \in Nat \ {0} /\ Len(sent2) = s - 1 /\ Head(sent) = sent[1] /\ Head(sent) \in Requests
      /\ \A i \in 1 .. s - 1 : sent2[i] = sent[i + 1]
  BY TailFacts
<1>4. x \in [n : Nat, ok : BOOLEAN] /\ x.n = Head(sent).n
  BY <1>3 DEF Requests
<1> HIDE DEF x
<1>5. Len(answers2) = m + 1 /\ answers2[m + 1] = x /\ \A i \in 1 .. m : answers2[i] = answers[i]
  BY <1>4, AppendFacts
<1> HIDE DEF s, m, sent2, answers2
<1>6. x.n = rn - s
  <2>1. sent[1] = Put(rn - s + 1 - 1, h - s + 1)
    BY <1>2, <1>3
  <2>2. sent[1].n = rn - s + 1 - 1
    BY <2>1 DEF Put
  <2> QED BY <1>3, <1>4, <2>2
<1>7. (m + 1) + (s - 1) = h - a /\ h - (s - 1) <= w /\ h - a <= rn
  BY <1>1, <1>2, <1>3
<1>8. ASSUME NEW k \in 1 .. s - 1 PROVE sent2[k] = Put(rn - (s - 1) + k - 1, h - (s - 1) + k)
  <2>1. k + 1 \in 1 .. s
    BY <1>3
  <2>2. rn - s + (k + 1) - 1 = rn - (s - 1) + k - 1 /\ h - s + (k + 1) = h - (s - 1) + k
    BY <1>3
  <2> QED BY <1>2, <1>3, <2>1, <2>2
<1>9. ASSUME NEW k \in 1 .. m + 1 PROVE answers2[k].n = rn - (h - a) + k - 1
  <2>1. CASE k = m + 1
    <3>1. rn - (h - a) + k - 1 = rn - s
      BY <1>1, <1>2, <1>3, <2>1
    <3> QED BY <1>5, <1>6, <2>1, <3>1
  <2>2. CASE k \in 1 .. m
    BY <1>2, <1>5, <2>2
  <2> QED BY SMTT(30), <1>1, <2>1, <2>2 DEF m
<1> QED BY <1>2, <1>3, <1>5, <1>7, <1>8, <1>9 DEF Window, sent2, answers2, x

\* An answer to a put is for the first outstanding one, which the server has handled.
LEMMA WindowAnswered ==
    ASSUME NEW sent \in Seq(Requests), NEW answers \in Seq([n : Nat, ok : BOOLEAN]), NEW callbacks,
           NEW rn \in Nat, NEW h \in Nat, NEW a \in Nat, NEW v \in Nat, a <= h,
           answers # <<>>, Window(sent, answers, callbacks, rn, h, a, v)
    PROVE  /\ a + 1 <= h /\ a + 1 <= v
           /\ \A r \in callbacks : r.n = Head(answers).n => r.kind = "put" /\ r.index = a + 1
           /\ Window(sent, Tail(answers), {r \in callbacks : r.n # Head(answers).n}, rn, h, a + 1, v)
<1> DEFINE s == Len(sent)
           m == Len(answers)
           answers2 == Tail(answers)
           callbacks2 == {r \in callbacks : r.n # Head(answers).n}
<1>1. s \in Nat
  OBVIOUS
<1>2. /\ m + s = h - a /\ h - s <= v /\ h - a <= rn
      /\ \A k \in 1 .. s : sent[k] = Put(rn - s + k - 1, h - s + k)
      /\ \A k \in 1 .. m : answers[k].n = rn - (h - a) + k - 1
      /\ callbacks = {Put(rn - h + i - 1, i) : i \in a + 1 .. h}
  BY DEF Window
<1>3. /\ m \in Nat \ {0} /\ Len(answers2) = m - 1 /\ Head(answers) = answers[1]
      /\ \A i \in 1 .. m - 1 : answers2[i] = answers[i + 1]
  BY TailFacts
<1> HIDE DEF s, m, answers2
<1>4. Head(answers).n = rn - h + (a + 1) - 1
  <2>1. answers[1].n = rn - (h - a) + 1 - 1
    BY <1>2, <1>3
  <2>2. rn - (h - a) + 1 - 1 = rn - h + (a + 1) - 1
    OBVIOUS
  <2> QED BY <1>3, <2>1, <2>2
<1>5. a + 1 <= h /\ a + 1 <= v
  BY <1>1, <1>2, <1>3
<1>6. ASSUME NEW i \in a + 1 .. h
      PROVE  /\ Put(rn - h + i - 1, i).n = Head(answers).n <=> i = a + 1
             /\ Put(rn - h + i - 1, i).kind = "put" /\ Put(rn - h + i - 1, i).index = i
  <2>1. Put(rn - h + i - 1, i).n = rn - h + i - 1
    BY DEF Put
  <2>2. rn - h + i - 1 = rn - h + (a + 1) - 1 <=> i = a + 1
    OBVIOUS
  <2> QED BY <1>4, <2>1, <2>2 DEF Put
<1>7. \A r \in callbacks : r.n = Head(answers).n => r.kind = "put" /\ r.index = a + 1
  BY SMTT(30), <1>2, <1>6
<1>8. callbacks2 = {Put(rn - h + i - 1, i) : i \in (a + 1) + 1 .. h}
  <2>1. (a + 1) + 1 .. h = (a + 1 .. h) \ {a + 1}
    BY <1>5
  <2>2. ASSUME NEW r \in callbacks2 PROVE \E i \in (a + 1) + 1 .. h : r = Put(rn - h + i - 1, i)
    <3>1. r \in callbacks /\ r.n # Head(answers).n
      OBVIOUS
    <3>2. PICK i \in a + 1 .. h : r = Put(rn - h + i - 1, i)
      BY <1>2, <3>1
    <3>3. i # a + 1
      BY <1>6, <3>1, <3>2
    <3> QED BY <2>1, <3>2, <3>3
  <2>3. ASSUME NEW i \in (a + 1) + 1 .. h PROVE Put(rn - h + i - 1, i) \in callbacks2
    BY <1>2, <1>6, <2>1
  <2> QED BY <2>2, <2>3
<1>9. (m - 1) + s = h - (a + 1) /\ h - (a + 1) <= rn
  BY SMTT(30), <1>1, <1>2, <1>3
<1>10. ASSUME NEW k \in 1 .. m - 1 PROVE answers2[k].n = rn - (h - (a + 1)) + k - 1
  <2>1. k + 1 \in 1 .. m
    BY <1>3
  <2>2. rn - (h - a) + (k + 1) - 1 = rn - (h - (a + 1)) + k - 1
    BY <1>3
  <2> QED BY <1>2, <1>3, <2>1, <2>2
<1> HIDE DEF callbacks2
<1>11. Window(sent, answers2, callbacks2, rn, h, a + 1, v)
  BY <1>2, <1>3, <1>8, <1>9, <1>10 DEF Window, s
<1> QED BY <1>5, <1>7, <1>11 DEF answers2, callbacks2

\* restoreState on a connection on which nothing is under way.
LEMMA Restored ==
    ASSUME NEW l \in LinkType, l.sent = <<>>, l.answers = <<>>, l.callbacks = {},
           NEW h \in Nat, NEW a \in Nat, NEW v \in Nat, a <= h, a <= v
    PROVE  LET m == SendPuts(l, a + 1 .. h)
           IN  /\ m \in LinkType /\ m.state = l.state /\ m.retry = l.retry /\ m.fetching = l.fetching
               /\ Window(m.sent, m.answers, m.callbacks, m.requestNumber, h, a, v)
<1> DEFINE rn == l.requestNumber
           c == h - a
           requests == [k \in 1 .. c |-> Put(rn + k - 1, a + k)]
           callbacks == {requests[k] : k \in 1 .. c}
<1>1. rn \in Nat /\ c \in Nat /\ rn + c \in Nat
  BY DEF LinkType
<1>2. Cardinality(a + 1 .. h) = c /\ \A k \in 1 .. c : Nth(a + 1 .. h, k) = a + k
  BY NthOfInterval
<1>3. SendPuts(l, a + 1 .. h) = [l EXCEPT !.requestNumber = rn + c, !.sent = <<>> \o requests,
                                         !.callbacks = {} \cup callbacks]
  <2> DEFINE S == a + 1 .. h
             d == Cardinality(S)
             all == [k \in 1 .. d |-> [n |-> rn + k - 1, kind |-> "put", index |-> Nth(S, k)]]
  <2>1. d = c
    BY <1>2
  <2>2. all = requests
    BY <1>2, <2>1 DEF Put
  <2>3. SendPuts(l, S) = [l EXCEPT !.requestNumber = rn + d, !.sent = l.sent \o all,
                                   !.callbacks = l.callbacks \cup {all[k] : k \in 1 .. d}]
    BY DEF SendPuts
  <2> HIDE DEF all, requests, d, S, c
  <2> QED BY <2>1, <2>2, <2>3 DEF S
<1>4. requests \in Seq(Requests) /\ Len(requests) = c /\ \A k \in 1 .. c : requests[k] = Put(rn + k - 1, a + k)
  <2>1. \A k \in 1 .. c : Put(rn + k - 1, a + k) \in Requests
    <3>1. \A k \in 1 .. c : rn + k - 1 \in Nat /\ a + k \in Nat
      BY <1>1
    <3> QED BY <3>1 DEF Put, Requests
  <2> HIDE DEF c, rn
  <2> QED BY <1>1, <2>1
<1>5. callbacks = {Put((rn + c) - h + i - 1, i) : i \in a + 1 .. h} /\ callbacks \subseteq Requests
  <2>1. \A k \in 1 .. c : rn + k - 1 = (rn + c) - h + (a + k) - 1 /\ a + k \in a + 1 .. h
    BY <1>1
  <2>2. \A i \in a + 1 .. h : i - a \in 1 .. c /\ rn + (i - a) - 1 = (rn + c) - h + i - 1 /\ a + (i - a) = i
    BY <1>1
  <2>3. \A k \in 1 .. c : requests[k] \in Requests
    BY <1>4, ElementOf
  <2> HIDE DEF c, rn, requests
  <2>4. ASSUME NEW k \in 1 .. c PROVE \E i \in a + 1 .. h : requests[k] = Put((rn + c) - h + i - 1, i)
    BY <1>4, <2>1
  <2>5. ASSUME NEW i \in a + 1 .. h PROVE \E k \in 1 .. c : requests[k] = Put((rn + c) - h + i - 1, i)
    BY <1>4, <2>2
  <2> QED BY <2>3, <2>4, <2>5
<1> HIDE DEF requests, callbacks
<1>6. <<>> \o requests = requests /\ {} \cup callbacks = callbacks
  BY <1>4
<1> DEFINE number == rn + c
           m == [l EXCEPT !.requestNumber = number, !.sent = requests, !.callbacks = callbacks]
<1>7. SendPuts(l, a + 1 .. h) = m /\ number \in Nat
  BY <1>1, <1>3, <1>6
<1> HIDE DEF number
<1>8. /\ m \in LinkType /\ m.state = l.state /\ m.retry = l.retry /\ m.fetching = l.fetching
      /\ m.sent = requests /\ m.answers = <<>> /\ m.callbacks = callbacks /\ m.requestNumber = number
  BY Zenon, <1>4, <1>5, <1>7 DEF LinkType
<1>9. Window(requests, <<>>, callbacks, number, h, a, v)
  <2>1. 0 + c = h - a /\ h - c <= v /\ h - a <= rn + c
    BY <1>1
  <2>2. ASSUME NEW k \in 1 .. c PROVE requests[k] = Put((rn + c) - c + k - 1, h - c + k)
    <3>1. (rn + c) - c + k - 1 = rn + k - 1 /\ h - c + k = a + k
      BY <1>1
    <3> QED BY <1>4, <3>1
  <2>3. Len(<<>>) = 0
    OBVIOUS
  <2> HIDE DEF c, rn
  <2> QED BY <1>4, <1>5, <2>1, <2>2, <2>3 DEF Window, number
<1> HIDE DEF m
<1> QED BY <1>7, <1>8, <1>9
-----------------------------------------------------------------------------
\* Connecting, answers and the server.

\* The parts that steps of the connection leave alone.
LEMMA LinkStep ==
    ASSUME RatingInv, UNCHANGED <<stars, push, given, blocks, server, orphans>>, link' \in LinkType,
           NEW a \in 0 .. Updated, a <= Len(server), DOMAIN puts' = a + 1 .. Updated, LinkOK(a)'
    PROVE  RatingInv'
<1>1. Updated' = Updated /\ QueueOK' /\ ServerOK' /\ \A o \in orphans' : OrphanOK(o)'
  BY RatingParts, SameQueue
<1>2. RatingTypeOK' /\ KeysOK'
  BY RatingParts DEF RatingTypeOK, KeysOK
<1>3. a <= Updated
  <2>1. Updated \in Nat
    BY RatingParts, Counts
  <2> QED BY <2>1
<1>4. PutsOK(a)' /\ a \in 0 .. Updated'
  BY <1>1, <1>3 DEF PutsOK
<1> QED BY <1>1, <1>2, <1>4 DEF RatingInv

\* restoreState makes the connection "connected".
LEMMA RestoreKeeps ==
    ASSUME RatingInv, UNCHANGED <<stars, push, given, blocks, server, orphans>>,
           NEW l \in LinkType, l.sent = <<>>, l.answers = <<>>, l.callbacks = {},
           l.state = "connected", l.retry = FALSE, l.fetching = FALSE,
           link' = RestoreState(l), puts' = [i \in DOMAIN puts |-> TRUE]
    PROVE  RatingInv'
<1>1. PICK a \in 0 .. Updated : PutsOK(a) /\ LinkOK(a)
  BY RatingParts
<1>2. Updated \in Nat /\ Len(server) \in Nat
  BY RatingParts, Counts
<1>3. a \in Nat /\ a <= Updated /\ a <= Len(server) /\ DOMAIN puts = a + 1 .. Updated
  BY <1>1, <1>2 DEF PutsOK
<1>4. link' = SendPuts(l, a + 1 .. Updated)
  BY <1>3 DEF RestoreState
<1>5. /\ link' \in LinkType /\ link'.state = "connected" /\ link'.retry = FALSE /\ link'.fetching = FALSE
      /\ Window(link'.sent, link'.answers, link'.callbacks, link'.requestNumber, Updated, a, Len(server))
  BY SMTT(30), <1>2, <1>3, <1>4, Restored
<1>6. Updated' = Updated
  BY DEF Updated
<1>7. Connected(a)'
  BY <1>5, <1>6 DEF Connected
<1>8. LinkOK(a)'
  BY <1>5, <1>7 DEF LinkOK
<1>9. DOMAIN puts' = a + 1 .. Updated
  BY <1>3
<1> QED BY <1>3, <1>5, <1>8, <1>9, LinkStep

LEMMA ReadyKeeps ==
    ASSUME RatingInv, OnReady
    PROVE  RatingInv'
<1>1. /\ link.state = "connecting" /\ UNCHANGED <<stars, push, given, blocks, server, orphans>>
      /\ link \in LinkType /\ Quiet
  BY RatingParts, QuietStates DEF OnReady
<1>2. ~link.retry /\ ~link.fetching /\ link.retry \in BOOLEAN /\ link.fetching \in BOOLEAN
  BY <1>1, RatingParts, LinkFields DEF LinkOK
<1>3. CASE link.authToken
  <2> DEFINE l == [link EXCEPT !.state = "authenticating"]
             r == [n |-> l.requestNumber, kind |-> "auth", index |-> 0]
  <2>1. /\ l \in LinkType /\ l.state = "authenticating" /\ l.retry = link.retry /\ l.fetching = link.fetching
        /\ l.sent = <<>> /\ l.answers = <<>> /\ l.callbacks = {} /\ l.requestNumber \in Nat
    BY <1>1 DEF LinkType, Quiet
  <2>2. link' = SendAction(l, "auth", 0) /\ UNCHANGED puts
    BY <1>3 DEF OnReady
  <2> HIDE DEF l
  <2>3. /\ link' \in LinkType /\ link'.state = l.state /\ link'.retry = l.retry
        /\ link'.fetching = l.fetching /\ link'.answers = l.answers
        /\ link'.requestNumber = l.requestNumber + 1
        /\ link'.callbacks = l.callbacks \cup {r} /\ link'.sent = Append(l.sent, r)
    BY <2>1, <2>2, Sent
  <2>4. Append(<<>>, r) = <<r>>
    OBVIOUS
  <2>5. r = Auth(link'.requestNumber - 1) /\ link'.requestNumber > 0
    <3>1. link'.requestNumber - 1 = l.requestNumber /\ link'.requestNumber > 0
      BY <2>1, <2>3
    <3> QED BY <3>1 DEF Auth
  <2> HIDE DEF r
  <2>6. Authenticating'
    BY <2>1, <2>3, <2>4, <2>5 DEF Authenticating
  <2>7. PICK a \in 0 .. Updated : PutsOK(a) /\ LinkOK(a)
    BY RatingParts
  <2>8. LinkOK(a)'
    BY <1>2, <2>1, <2>3, <2>6 DEF LinkOK
  <2>9. a <= Len(server) /\ DOMAIN puts' = a + 1 .. Updated
    BY <2>2, <2>7 DEF PutsOK
  <2> QED BY <1>1, <2>3, <2>8, <2>9, LinkStep
<1>4. CASE ~link.authToken
  <2> DEFINE l == [link EXCEPT !.state = "connected"]
  <2>1. /\ l \in LinkType /\ l.state = "connected" /\ l.retry = FALSE /\ l.fetching = FALSE
        /\ l.sent = <<>> /\ l.answers = <<>> /\ l.callbacks = {}
    BY <1>1, <1>2 DEF LinkType, Quiet
  <2>2. link' = RestoreState(l) /\ puts' = [i \in DOMAIN puts |-> TRUE]
    BY <1>4 DEF OnReady
  <2> HIDE DEF l
  <2> QED BY <1>1, <2>1, <2>2, RestoreKeeps
<1> QED BY <1>3, <1>4

\* onDisconnect.
LEMMA Disconnected ==
    ASSUME NEW l \in LinkType, ~l.fetching
    PROVE  LET m == OnDisconnect(l)
           IN  /\ m \in LinkType /\ m.sent = <<>> /\ m.answers = <<>> /\ m.callbacks = {}
               /\ m.state = "disconnected" /\ ~m.fetching
<1> DEFINE d == [l EXCEPT !.state = "disconnected", !.sent = <<>>, !.answers = <<>>, !.callbacks = {}]
<1>1. <<>> \in Seq(Requests) /\ <<>> \in Seq([n : Nat, ok : BOOLEAN])
  OBVIOUS
<1>2. /\ d \in LinkType /\ d.sent = <<>> /\ d.answers = <<>> /\ d.callbacks = {}
      /\ d.state = "disconnected" /\ ~d.fetching
  BY Zenon, <1>1 DEF LinkType
<1>3. OnDisconnect(l) = TryScheduleReconnect(d)
  BY DEF OnDisconnect
<1> HIDE DEF d
<1> QED BY <1>2, <1>3, Scheduled

LEMMA AnswerKeeps ==
    ASSUME RatingInv, OnAnswer
    PROVE  RatingInv'
<1> DEFINE x == Head(link.answers)
           callbacks == {r \in link.callbacks : r.n # x.n}
           l == [link EXCEPT !.answers = Tail(@), !.callbacks = callbacks]
<1>1. /\ link.answers # <<>> /\ UNCHANGED <<stars, push, given, blocks, server, orphans>>
      /\ link \in LinkType
  BY SMTT(30), RatingParts DEF OnAnswer
<1>2. PICK r \in {c \in link.callbacks : c.n = x.n} :
             \/ /\ r.kind = "put"
                /\ puts' = [i \in DOMAIN puts \ {r.index} |-> puts[i]]
                /\ link' = l
             \/ /\ r.kind = "auth" /\ x.ok
                /\ link' = RestoreState([l EXCEPT !.state = "connected"])
                /\ puts' = [i \in DOMAIN puts |-> TRUE]
             \/ /\ r.kind = "auth" /\ ~x.ok
                /\ link' = OnDisconnect([l EXCEPT !.authToken = FALSE])
                /\ UNCHANGED puts
  BY Zenon DEF OnAnswer
<1>3. PICK a \in 0 .. Updated : PutsOK(a) /\ LinkOK(a)
  BY RatingParts
<1>4. /\ link.sent \in Seq(Requests) /\ link.answers \in Seq([n : Nat, ok : BOOLEAN])
      /\ link.requestNumber \in Nat /\ Updated \in Nat /\ Len(server) \in Nat
      /\ link.callbacks \subseteq Requests
      /\ link.state \in {"disconnected", "getting_token", "connecting", "authenticating", "connected"}
  BY <1>1, RatingParts, Counts, LinkFields
<1>5. link.state \in {"authenticating", "connected"} /\ ~link.retry /\ ~link.fetching
  <2>1. ~Quiet
    BY <1>1 DEF Quiet
  <2> QED BY <1>3, <1>4, <2>1 DEF LinkOK
<1>6. a \in Nat /\ a <= Updated /\ a <= Len(server) /\ DOMAIN puts = a + 1 .. Updated
  BY <1>3, <1>4 DEF PutsOK
<1>7. Tail(link.answers) \in Seq([n : Nat, ok : BOOLEAN])
  BY <1>1, <1>4, TailFacts
<1> HIDE DEF callbacks
<1>8. callbacks \subseteq Requests
  BY <1>4 DEF callbacks
<1>9. /\ l \in LinkType /\ l.sent = link.sent /\ l.answers = Tail(link.answers)
      /\ l.callbacks = callbacks /\ l.requestNumber = link.requestNumber
      /\ l.state = link.state /\ l.retry = link.retry /\ l.fetching = link.fetching
  BY <1>1, <1>7, <1>8 DEF LinkType
<1> HIDE DEF l
<1>10. CASE link.state = "connected"
  <2>1. Window(link.sent, link.answers, link.callbacks, link.requestNumber, Updated, a, Len(server))
    BY <1>3, <1>10 DEF LinkOK, Connected
  <2>2. /\ a + 1 <= Updated /\ a + 1 <= Len(server)
        /\ \A c \in link.callbacks : c.n = x.n => c.kind = "put" /\ c.index = a + 1
        /\ Window(link.sent, Tail(link.answers), callbacks, link.requestNumber, Updated, a + 1, Len(server))
    BY <1>1, <1>4, <1>6, <2>1, WindowAnswered DEF callbacks
  <2>3. /\ r.kind = "put" /\ r.index = a + 1
    BY <1>2, <2>2
  <2>4. puts' = [i \in DOMAIN puts \ {a + 1} |-> puts[i]] /\ link' = l
    BY <1>2, <2>3
  <2>5. DOMAIN puts' = (a + 1) + 1 .. Updated
    <3>1. (a + 1 .. Updated) \ {a + 1} = (a + 1) + 1 .. Updated
      BY <1>4, <1>6
    <3> QED BY <1>6, <2>4, <3>1
  <2>6. Updated' = Updated
    BY <1>1 DEF Updated
  <2>7. Connected(a + 1)'
    BY <1>1, <1>9, <2>2, <2>4, <2>6 DEF Connected
  <2>8. LinkOK(a + 1)'
    BY <1>5, <1>9, <1>10, <2>4, <2>7 DEF LinkOK
  <2>9. a + 1 \in 0 .. Updated
    BY <1>4, <1>6, <2>2
  <2> QED BY <1>1, <1>9, <2>2, <2>4, <2>5, <2>8, <2>9, LinkStep
<1>11. CASE link.state = "authenticating"
  <2>1. Authenticating
    BY <1>3, <1>11 DEF LinkOK
  <2> DEFINE auth == Auth(link.requestNumber - 1)
  <2>2. link.callbacks = {auth} /\ auth.kind = "auth"
    BY <2>1 DEF Authenticating, Auth
  <2>3. link.sent = <<>> /\ Len(link.answers) = 1
    BY <1>1, <2>1 DEF Authenticating
  <2>4. r.kind = "auth" /\ r.n = x.n /\ callbacks = {}
    BY <1>2, <2>2 DEF callbacks
  <2>5. Tail(link.answers) = <<>>
    BY <1>4, <2>3, TailOfOne
  <2>6. l.sent = <<>> /\ l.answers = <<>> /\ l.callbacks = {}
    BY <1>9, <2>3, <2>4, <2>5
  <2>7. CASE x.ok
    <3> DEFINE m == [l EXCEPT !.state = "connected"]
    <3>1. /\ m \in LinkType /\ m.state = "connected" /\ m.retry = FALSE /\ m.fetching = FALSE
          /\ m.sent = <<>> /\ m.answers = <<>> /\ m.callbacks = {}
      BY <1>5, <1>9, <2>6 DEF LinkType
    <3>2. link' = RestoreState(m) /\ puts' = [i \in DOMAIN puts |-> TRUE]
      BY <1>2, <2>4, <2>7
    <3> HIDE DEF m
    <3> QED BY <1>1, <3>1, <3>2, RestoreKeeps
  <2>8. CASE ~x.ok
    <3> DEFINE m == [l EXCEPT !.authToken = FALSE]
    <3>1. m \in LinkType /\ ~m.fetching
      BY <1>5, <1>9 DEF LinkType
    <3>2. link' = OnDisconnect(m) /\ UNCHANGED puts
      BY <1>2, <2>4, <2>8
    <3> HIDE DEF m
    <3>3. /\ link' \in LinkType /\ link'.sent = <<>> /\ link'.answers = <<>> /\ link'.callbacks = {}
          /\ link'.state = "disconnected" /\ ~link'.fetching
      BY <3>1, <3>2, Disconnected
    <3>4. Quiet'
      BY <3>3 DEF Quiet
    <3>5. orphans' \subseteq Seq(Requests) /\ \A o \in orphans' : OrphanOK(o)
      BY <1>1, RatingParts DEF RatingTypeOK
    <3> QED BY <1>1, <3>2, <3>3, <3>4, <3>5, QuietStep
  <2> QED BY <2>7, <2>8
<1> QED BY <1>5, <1>10, <1>11
-----------------------------------------------------------------------------
\* The server, and what lost connections leave under way.

\* The server takes a rating it has seen, or the next one.
LEMMA Handled ==
    ASSUME server \in Seq(Nat), ServerOK, NEW r \in Requests,
           r.kind = "put" => (r.index >= 1 /\ r.index <= Len(server) + 1),
           server' = Handle(r)
    PROVE  /\ server' \in Seq(Nat) /\ ServerOK' /\ Len(server) \in Nat /\ Len(server') \in Nat
           /\ Len(server) <= Len(server') /\ (r.kind = "put" => r.index <= Len(server'))
<1>1. Len(server) \in Nat /\ r.index \in Nat
  BY DEF Requests
<1>2. CASE r.kind = "put" /\ ~Contains(server, r.index)
  <2>1. server' = Append(server, r.index)
    BY <1>2 DEF Handle
  <2>2. r.index \notin 1 .. Len(server)
    BY <1>2 DEF Contains, ServerOK
  <2>3. r.index = Len(server) + 1
    BY <1>1, <1>2, <2>2
  <2>4. /\ server' \in Seq(Nat) /\ Len(server') = Len(server) + 1
        /\ server'[Len(server) + 1] = r.index /\ \A i \in 1 .. Len(server) : server'[i] = server[i]
    BY <1>1, <2>1, AppendFacts
  <2>5. ASSUME NEW k \in 1 .. Len(server') PROVE server'[k] = k
    <3>1. CASE k = Len(server) + 1
      BY <2>3, <2>4, <3>1
    <3>2. CASE k \in 1 .. Len(server)
      BY <2>4, <3>2 DEF ServerOK
    <3> QED BY <1>1, <2>4, <3>1, <3>2
  <2>6. ServerOK'
    BY <2>5 DEF ServerOK
  <2> QED BY <1>1, <2>3, <2>4, <2>6
<1>3. CASE ~(r.kind = "put" /\ ~Contains(server, r.index))
  <2>1. server' = server
    BY <1>3 DEF Handle
  <2>2. ServerOK'
    BY <2>1 DEF ServerOK
  <2>3. r.kind = "put" => r.index <= Len(server)
    BY <1>1, <1>3 DEF Contains, ServerOK
  <2> QED BY <1>1, <2>1, <2>2, <2>3
<1> QED BY <1>2, <1>3

\* The first request of a window is the put of a rating that the server may take.
LEMMA WindowFirst ==
    ASSUME NEW sent \in Seq(Requests), NEW answers \in Seq([n : Nat, ok : BOOLEAN]), NEW callbacks,
           NEW rn \in Nat, NEW h \in Nat, NEW a \in Nat, NEW v \in Nat, a <= h, sent # <<>>,
           Window(sent, answers, callbacks, rn, h, a, v)
    PROVE  /\ sent[1].kind = "put" /\ sent[1].index = h - Len(sent) + 1
           /\ sent[1].index >= 1 /\ sent[1].index <= v + 1
<1> DEFINE s == Len(sent)
           m == Len(answers)
           n == rn - s + 1 - 1
           i == h - s + 1
<1>1. s \in Nat \ {0} /\ m \in Nat
  OBVIOUS
<1>2. m + s = h - a /\ h - s <= v
  BY DEF Window
<1>3. sent[1] = Put(n, i)
  BY <1>1 DEF Window
<1> HIDE DEF s, m, n
<1>4. i >= 1 /\ i <= v + 1
  BY <1>1, <1>2
<1> HIDE DEF i
<1>5. sent[1].kind = "put" /\ sent[1].index = i
  BY <1>3 DEF Put
<1> QED BY <1>4, <1>5 DEF i, s

\* A step of the server, when the connection stays right.
LEMMA ServerStep ==
    ASSUME RatingInv, UNCHANGED <<stars, push, given, blocks, puts>>,
           server' \in Seq(Nat), ServerOK', Len(server) <= Len(server'), link' \in LinkType,
           \A a \in 0 .. Updated : PutsOK(a) /\ LinkOK(a) => LinkOK(a)',
           orphans' \subseteq Seq(Requests), \A o \in orphans' : OrphanOK(o)'
    PROVE  RatingInv'
<1>1. PICK a \in 0 .. Updated : PutsOK(a) /\ LinkOK(a)
  BY RatingParts
<1>2. Len(server) \in Nat /\ Len(server') \in Nat /\ Updated \in Nat
  BY RatingParts, Counts
<1>3. Updated' = Updated
  BY DEF Updated
<1>4. QueueOK'
  BY RatingParts, <1>3 DEF QueueOK
<1>5. RatingTypeOK' /\ KeysOK'
  BY RatingParts DEF RatingTypeOK, KeysOK
<1>6. a <= Len(server')
  BY <1>1, <1>2 DEF PutsOK
<1>7. PutsOK(a)' /\ a \in 0 .. Updated'
  BY <1>1, <1>3, <1>6 DEF PutsOK
<1> QED BY <1>1, <1>4, <1>5, <1>7 DEF RatingInv

LEMMA ServerKeeps ==
    ASSUME RatingInv, ServerAnswers
    PROVE  RatingInv'
<1> DEFINE r == Head(link.sent)
<1>1. /\ link.sent # <<>> /\ UNCHANGED <<stars, push, given, blocks, puts, orphans>> /\ server' = Handle(r)
      /\ link \in LinkType /\ server \in Seq(Nat) /\ ServerOK
  BY RatingParts DEF ServerAnswers, RatingTypeOK
<1>2. PICK ok \in BOOLEAN : 
         link' = [link EXCEPT !.sent = Tail(@), !.answers = Append(@, [n |-> r.n, ok |-> ok])]
  BY Zenon DEF ServerAnswers
<1>3. /\ link.sent \in Seq(Requests) /\ link.answers \in Seq([n : Nat, ok : BOOLEAN])
      /\ link.requestNumber \in Nat /\ Updated \in Nat /\ Len(server) \in Nat
      /\ link.state \in {"disconnected", "getting_token", "connecting", "authenticating", "connected"}
  BY <1>1, RatingParts, Counts, LinkFields
<1>4. r \in Requests /\ Tail(link.sent) \in Seq(Requests) /\ Len(link.sent) \in Nat \ {0} /\ r = link.sent[1]
  BY <1>1, <1>3, TailFacts
<1> DEFINE x == [n |-> r.n, ok |-> ok]
           answers == Append(link.answers, x)
<1>5. x \in [n : Nat, ok : BOOLEAN]
  BY <1>4 DEF Requests
<1>6. answers \in Seq([n : Nat, ok : BOOLEAN])
  BY <1>3, <1>5, AppendFacts
<1> HIDE DEF answers
<1>7. link' = [link EXCEPT !.sent = Tail(link.sent), !.answers = answers]
  BY <1>2 DEF answers
<1>8. /\ link' \in LinkType /\ link'.sent = Tail(link.sent) /\ link'.answers = answers
      /\ link'.callbacks = link.callbacks /\ link'.requestNumber = link.requestNumber
      /\ link'.state = link.state /\ link'.retry = link.retry /\ link'.fetching = link.fetching
  BY <1>1, <1>4, <1>6, <1>7 DEF LinkType
<1> HIDE DEF r
<1>9. ASSUME NEW a \in 0 .. Updated, LinkOK(a)
      PROVE  link.state \in {"authenticating", "connected"}
  <2>1. ~Quiet
    BY <1>1 DEF Quiet
  <2> QED BY <1>3, <1>9, <2>1 DEF LinkOK
<1>10. ASSUME NEW a \in 0 .. Updated, LinkOK(a), link.state = "connected"
       PROVE  r.kind = "put" /\ r.index = Updated - Len(link.sent) + 1 /\ r.index >= 1
              /\ r.index <= Len(server) + 1
  <2>1. Window(link.sent, link.answers, link.callbacks, link.requestNumber, Updated, a, Len(server))
    BY <1>10 DEF LinkOK, Connected
  <2>2. a \in Nat /\ a <= Updated
    BY <1>3
  <2>3. /\ link.sent[1].kind = "put" /\ link.sent[1].index = Updated - Len(link.sent) + 1
        /\ link.sent[1].index >= 1 /\ link.sent[1].index <= Len(server) + 1
    BY <1>1, <1>3, <2>1, <2>2, WindowFirst
  <2> QED BY <1>4, <2>3
<1>11. ASSUME link.state = "authenticating", Authenticating
       PROVE  link.sent = <<Auth(link.requestNumber - 1)>> /\ link.answers = <<>> /\ r = Auth(link.requestNumber - 1)
  <2>1. link.sent = <<Auth(link.requestNumber - 1)>> /\ link.answers = <<>>
    BY <1>1, <1>11 DEF Authenticating
  <2> QED BY <1>4, <2>1
<1>12. r.kind = "put" => (r.index >= 1 /\ r.index <= Len(server) + 1)
  <2>1. PICK a \in 0 .. Updated : PutsOK(a) /\ LinkOK(a)
    BY RatingParts
  <2>2. CASE link.state = "connected"
    BY <1>10, <2>1, <2>2
  <2>3. CASE link.state = "authenticating"
    <3>1. Authenticating
      BY <2>1, <2>3 DEF LinkOK
    <3>2. r.kind = "auth"
      BY <1>11, <2>3, <3>1 DEF Auth
    <3> QED BY <3>2
  <2> QED BY <1>9, <2>1, <2>2, <2>3
<1>13. /\ server' \in Seq(Nat) /\ ServerOK' /\ Len(server') \in Nat
       /\ Len(server) <= Len(server') /\ (r.kind = "put" => r.index <= Len(server'))
  BY <1>1, <1>4, <1>12, Handled
<1>14. ASSUME NEW a \in 0 .. Updated, PutsOK(a), LinkOK(a)
       PROVE  LinkOK(a)'
  <2>1. CASE link.state = "connected"
    <3>1. Window(link.sent, link.answers, link.callbacks, link.requestNumber, Updated, a, Len(server))
      BY <1>14, <2>1 DEF LinkOK, Connected
    <3>2. Updated - Len(link.sent) + 1 <= Len(server')
      BY <1>10, <1>13, <1>14, <2>1
    <3>3. a \in Nat /\ a <= Updated
      BY <1>3
    <3>4. Window(Tail(link.sent), answers, link.callbacks, link.requestNumber, Updated, a, Len(server'))
      BY <1>1, <1>3, <1>13, <3>1, <3>2, <3>3, WindowServes DEF answers, r
    <3>5. Updated' = Updated
      BY <1>1 DEF Updated
    <3>6. Connected(a)'
      BY <1>8, <3>4, <3>5 DEF Connected
    <3> QED BY <1>8, <1>14, <2>1, <3>6 DEF LinkOK
  <2>2. CASE link.state = "authenticating"
    <3>1. Authenticating
      BY <1>14, <2>2 DEF LinkOK
    <3>2. link.sent = <<r>> /\ link.answers = <<>> /\ r = Auth(link.requestNumber - 1)
      BY <1>11, <2>2, <3>1
    <3>3. Len(link.sent) = 1 /\ Len(link.answers) = 0
      BY <3>2
    <3>4. Tail(link.sent) = <<>>
      BY <1>3, <3>3, TailOfOne
    <3>5. Len(answers) = 1 /\ answers[1] = x
      BY <1>3, <1>5, <3>3, AppendFacts DEF answers
    <3>6. Authenticating'
      BY <1>8, <3>1, <3>2, <3>4, <3>5 DEF Authenticating
    <3> QED BY <1>8, <1>14, <2>2, <3>6 DEF LinkOK
  <2> QED BY <1>9, <1>14, <2>1, <2>2
<1>15. orphans' \subseteq Seq(Requests) /\ \A o \in orphans' : OrphanOK(o)'
  BY <1>1, <1>3, <1>13, RatingParts, OrphanStays DEF RatingTypeOK
<1> QED BY <1>1, <1>8, <1>13, <1>14, <1>15, ServerStep
\* What is under way when a connection is lost.
LEMMA WindowLost ==
    ASSUME NEW sent \in Seq(Requests), NEW answers \in Seq([n : Nat, ok : BOOLEAN]), NEW callbacks,
           NEW rn \in Nat, NEW h \in Nat, NEW a \in Nat, NEW v \in Nat, a <= h,
           Window(sent, answers, callbacks, rn, h, a, v)
    PROVE  h - Len(sent) \in 0 .. v /\ PutsAfter(sent, h - Len(sent))
<1> DEFINE s == Len(sent)
           m == Len(answers)
           b == h - s
<1>1. s \in Nat /\ m \in Nat
  OBVIOUS
<1>2. m + s = h - a /\ h - s <= v /\ \A k \in 1 .. s : sent[k] = Put(rn - s + k - 1, b + k)
  BY DEF Window
<1> HIDE DEF s, m
<1>3. b \in 0 .. v
  BY <1>1, <1>2
<1> HIDE DEF b
<1>4. \A k \in 1 .. s : sent[k].kind = "put" /\ sent[k].index = b + k
  <2>1. \A n, i : Put(n, i).kind = "put" /\ Put(n, i).index = i
    BY DEF Put
  <2> QED BY <1>2, <2>1
<1> QED BY <1>3, <1>4 DEF s, b, PutsAfter

LEMMA LostKeeps ==
    ASSUME RatingInv, Lost \/ OnKill
    PROVE  RatingInv'
<1> DEFINE l == [link EXCEPT !.reasons = @ \cup {"server_kill"}]
<1>1. /\ link.state \in {"connecting", "authenticating", "connected"}
      /\ UNCHANGED <<stars, push, given, blocks, puts, server>>
      /\ orphans' = orphans \cup ({link.sent} \ {<<>>})
      /\ link' = OnDisconnect(link) \/ link' = OnDisconnect(l)
      /\ link \in LinkType
  BY RatingParts DEF Lost, OnKill
<1>2. PICK a \in 0 .. Updated : PutsOK(a) /\ LinkOK(a)
  BY RatingParts
<1>3. /\ link.sent \in Seq(Requests) /\ link.answers \in Seq([n : Nat, ok : BOOLEAN])
      /\ link.requestNumber \in Nat /\ Updated \in Nat /\ Len(server) \in Nat
      /\ Len(link.sent) \in Nat
  BY <1>1, RatingParts, Counts, LinkFields
<1>4. ~link.fetching
  BY <1>1, <1>2 DEF LinkOK
<1>5. l \in LinkType /\ ~l.fetching
  BY <1>1, <1>4 DEF LinkType
<1> HIDE DEF l
<1>6. /\ link' \in LinkType /\ link'.sent = <<>> /\ link'.answers = <<>> /\ link'.callbacks = {}
      /\ link'.state = "disconnected" /\ ~link'.fetching
  BY <1>1, <1>4, <1>5, Disconnected
<1>7. Quiet'
  BY <1>6 DEF Quiet
<1>8. ASSUME link.sent # <<>> PROVE OrphanOK(link.sent)
  <2>1. Len(link.sent) > 0
    BY <1>3, <1>8
  <2>2. CASE link.state = "connected"
    <3>1. Window(link.sent, link.answers, link.callbacks, link.requestNumber, Updated, a, Len(server))
      BY <1>2, <2>2 DEF LinkOK, Connected
    <3>2. a \in Nat /\ a <= Updated
      BY <1>3
    <3> DEFINE b == Updated - Len(link.sent)
    <3>3. b \in 0 .. Len(server) /\ PutsAfter(link.sent, b)
      BY <1>3, <3>1, <3>2, WindowLost
    <3> HIDE DEF b
    <3> QED BY <2>1, <3>3 DEF OrphanOK
  <2>3. CASE link.state = "authenticating"
    <3> DEFINE auth == Auth(link.requestNumber - 1)
    <3>1. link.sent = <<auth>>
      BY <1>2, <1>8, <2>3 DEF LinkOK, Authenticating
    <3>2. auth.kind = "auth"
      BY DEF Auth
    <3> HIDE DEF auth
    <3>3. Len(link.sent) = 1 /\ link.sent[1].kind = "auth"
      BY <3>1, <3>2
    <3> QED BY <2>1, <3>3 DEF OrphanOK
  <2>4. link.state # "connecting"
    BY <1>8, QuietStates DEF Quiet
  <2> QED BY <1>1, <2>2, <2>3, <2>4
<1>9. orphans' \subseteq Seq(Requests) /\ \A o \in orphans' : OrphanOK(o)
  BY <1>1, <1>3, <1>8, RatingParts DEF RatingTypeOK
<1> QED BY <1>1, <1>6, <1>7, <1>9, QuietStep

LEMMA OrphanKeeps ==
    ASSUME RatingInv, OrphanArrives \/ OrphanIsLost
    PROVE  RatingInv'
<1>1. UNCHANGED <<stars, push, given, blocks, puts, link>>
  BY DEF OrphanArrives, OrphanIsLost
<1>2. /\ link \in LinkType /\ server \in Seq(Nat) /\ ServerOK /\ Len(server) \in Nat /\ Updated \in Nat
      /\ orphans \subseteq Seq(Requests) /\ \A o \in orphans : OrphanOK(o)
  BY RatingParts, Counts DEF RatingTypeOK
<1>3. ASSUME server' \in Seq(Nat), ServerOK', Len(server) <= Len(server'), Len(server') \in Nat,
             orphans' \subseteq Seq(Requests), \A o \in orphans' : OrphanOK(o)'
      PROVE  RatingInv'
  <2>1. Updated' = Updated
    BY <1>1 DEF Updated
  <2>2. \A a \in 0 .. Updated : PutsOK(a) /\ LinkOK(a) => LinkOK(a)'
    BY <1>1, <1>2, <1>3, <2>1, LinkStays
  <2> QED BY <1>1, <1>2, <1>3, <2>2, ServerStep
<1>4. CASE OrphanIsLost
  <2>1. UNCHANGED server /\ orphans' \subseteq orphans
    BY <1>4 DEF OrphanIsLost
  <2>2. ServerOK' /\ Len(server) <= Len(server') /\ \A o \in orphans' : OrphanOK(o)'
    BY <1>2, <2>1 DEF ServerOK, OrphanOK
  <2> QED BY <1>2, <1>3, <2>1, <2>2
<1>5. CASE OrphanArrives
  <2>1. PICK o \in orphans :
          /\ server' = Handle(Head(o))
          /\ orphans' = (orphans \ {o}) \cup (IF Len(o) > 1 THEN {Tail(o)} ELSE {})
    BY <1>5 DEF OrphanArrives
  <2>2. o \in Seq(Requests) /\ OrphanOK(o) /\ o # <<>> /\ Len(o) > 0
    BY <1>2 DEF OrphanOK
  <2>3. /\ Tail(o) \in Seq(Requests) /\ Len(o) \in Nat \ {0} /\ Len(Tail(o)) = Len(o) - 1
        /\ Head(o) = o[1] /\ Head(o) \in Requests /\ \A i \in 1 .. Len(o) - 1 : Tail(o)[i] = o[i + 1]
    BY <2>2, TailFacts
  <2>4. CASE Len(o) = 1 /\ o[1].kind = "auth"
    <3>1. /\ server' \in Seq(Nat) /\ ServerOK' /\ Len(server') \in Nat /\ Len(server) <= Len(server')
      BY <1>2, <2>1, <2>3, <2>4, Handled
    <3>2. orphans' \subseteq orphans
      BY <2>1, <2>4
    <3>3. \A q \in orphans' : OrphanOK(q)'
      BY <1>2, <3>1, <3>2, OrphanStays
    <3> QED BY <1>2, <1>3, <3>1, <3>2, <3>3
  <2>5. CASE \E b \in 0 .. Len(server) : PutsAfter(o, b)
    <3>1. PICK b \in 0 .. Len(server) : \A k \in 1 .. Len(o) : o[k].kind = "put" /\ o[k].index = b + k
      BY <2>5 DEF PutsAfter
    <3>2. 1 \in 1 .. Len(o)
      BY <2>3
    <3>3. Head(o).kind = "put" /\ Head(o).index = b + 1
      BY <2>3, <3>1, <3>2
    <3>4. b + 1 >= 1 /\ b + 1 <= Len(server) + 1 /\ b \in Nat
      BY <1>2
    <3>5. /\ server' \in Seq(Nat) /\ ServerOK' /\ Len(server') \in Nat /\ Len(server) <= Len(server')
          /\ b + 1 <= Len(server')
      BY <1>2, <2>1, <2>3, <3>3, <3>4, Handled
    <3>6. ASSUME Len(o) > 1 PROVE OrphanOK(Tail(o))'
      <4>1. Len(Tail(o)) > 0 /\ b + 1 \in 0 .. Len(server')
        BY <2>3, <3>4, <3>5, <3>6
      <4>2. ASSUME NEW k \in 1 .. Len(Tail(o))
            PROVE  Tail(o)[k].kind = "put" /\ Tail(o)[k].index = (b + 1) + k
        <5>1. k \in 1 .. Len(o) - 1 /\ k + 1 \in 1 .. Len(o) /\ b + (k + 1) = (b + 1) + k
          BY <2>3, <3>4
        <5> QED BY <2>3, <3>1, <5>1
      <4> QED BY <4>1, <4>2 DEF OrphanOK, PutsAfter
    <3>7. \A q \in orphans : OrphanOK(q)'
      BY <1>2, <3>5, OrphanStays
    <3>8. orphans' \subseteq Seq(Requests) /\ \A q \in orphans' : OrphanOK(q)'
      BY <1>2, <2>1, <2>3, <3>6, <3>7
    <3> QED BY <1>3, <3>5, <3>8
  <2> QED BY <2>2, <2>4, <2>5 DEF OrphanOK
<1> QED BY <1>4, <1>5
-----------------------------------------------------------------------------
\* All steps.

LEMMA RatingStep ==
    ASSUME RatingInv, [RatingNext]_ratingVars
    PROVE  RatingInv'
<1>1. CASE UNCHANGED ratingVars
  <2>1. UNCHANGED <<stars, push, given, blocks, puts, link, server, orphans>>
    BY <1>1 DEF ratingVars
  <2>2. PICK a \in 0 .. Updated : PutsOK(a) /\ LinkOK(a)
    BY RatingParts
  <2>3. Updated \in Nat /\ Len(server) \in Nat /\ Len(server) <= Len(server') /\ Len(server') \in Nat
    BY <2>1, RatingParts, Counts
  <2>4. Updated' = Updated /\ QueueOK' /\ ServerOK' /\ \A o \in orphans' : OrphanOK(o)'
    BY <2>1, RatingParts, SameQueue
  <2>5. LinkOK(a)'
    BY <2>1, <2>2, <2>3, <2>4, RatingParts, LinkStays
  <2>6. RatingTypeOK' /\ KeysOK' /\ PutsOK(a)' /\ a \in 0 .. Updated'
    BY <2>1, <2>2, <2>4, RatingParts DEF RatingTypeOK, KeysOK, PutsOK
  <2> QED BY <2>4, <2>5, <2>6 DEF RatingInv
<1>2. CASE ShowDetails \/ Touch
  BY <1>2, ScreenKeeps
<1>3. CASE LeaveDetails
  BY <1>3, LeaveKeeps
<1>4. CASE Open \/ RetryFires \/ TokenFetched \/ TokenFails \/ Reachable
  BY <1>4, QuietSteps
<1>5. CASE Update
  BY <1>5, UpdateKeeps
<1>6. CASE OnReady
  BY <1>6, ReadyKeeps
<1>7. CASE OnAnswer
  BY <1>7, AnswerKeeps
<1>8. CASE ServerAnswers
  BY <1>8, ServerKeeps
<1>9. CASE Lost \/ OnKill
  BY <1>9, LostKeeps
<1>10. CASE OrphanArrives \/ OrphanIsLost
  BY <1>10, OrphanKeeps
<1> QED
  BY <1>1, <1>2, <1>3, <1>4, <1>5, <1>6, <1>7, <1>8, <1>9, <1>10 DEF RatingNext, RatingProgress

\* The invariant says what RatingsKept does: a rating is on the queue after Updated, the server
\* has it up to a, and in between its put is outstanding.
LEMMA InvKeepsRatings ==
    ASSUME RatingInv
    PROVE  RatingsKept
<1>1. PICK a \in 0 .. Updated : PutsOK(a) /\ LinkOK(a)
  BY RatingParts
<1>2. /\ given \in Seq([key : Keys, stars : Int]) /\ blocks \in Seq(Nat) /\ server \in Seq(Nat)
      /\ QueueOK /\ ServerOK /\ KeysOK
      /\ Len(given) \in Nat /\ Len(blocks) \in Nat /\ Len(server) \in Nat
      /\ Updated \in Nat /\ Updated = Len(given) - Len(blocks)
  BY RatingParts, Counts DEF RatingTypeOK
<1>3. a \in Nat /\ a <= Updated /\ a <= Len(server) /\ DOMAIN puts = a + 1 .. Updated
  BY <1>1, <1>2 DEF PutsOK
<1>4. DOMAIN given = 1 .. Len(given) /\ DOMAIN server = 1 .. Len(server)
  BY <1>2
<1>5. ASSUME NEW i \in DOMAIN given
      PROVE  Contains(blocks, i) \/ i \in DOMAIN puts \/ Contains(server, i)
  <2>1. i \in 1 .. Len(given)
    BY <1>4
  <2>2. CASE i <= a
    <3>1. i \in 1 .. Len(server)
      BY <1>2, <1>3, <2>1, <2>2
    <3>2. server[i] = i
      BY <1>2, <3>1 DEF ServerOK
    <3> QED BY <3>1, <3>2 DEF Contains
  <2>3. CASE a < i /\ i <= Updated
    BY <1>2, <1>3, <2>1, <2>3
  <2>4. CASE Updated < i
    <3>1. i - Updated \in 1 .. Len(blocks) /\ Updated + (i - Updated) = i
      BY SMTT(30), <1>2, <2>1, <2>4
    <3>2. blocks[i - Updated] = Updated + (i - Updated)
      BY <1>2, <3>1 DEF QueueOK
    <3> QED BY <3>1, <3>2 DEF Contains
  <2> QED BY <1>2, <1>3, <2>1, <2>2, <2>3, <2>4
<1>6. server = [i \in DOMAIN server |-> i]
  <2>1. server = [i \in DOMAIN server |-> server[i]]
    BY <1>2
  <2>2. \A i \in DOMAIN server : server[i] = i
    BY <1>2, <1>4 DEF ServerOK
  <2> QED BY <2>1, <2>2
<1>7. \A i, j \in DOMAIN given : i # j => given[i].key # given[j].key
  BY <1>2, <1>4 DEF KeysOK
<1>8. link.retry => link.state = "disconnected"
  BY <1>1 DEF LinkOK
<1> QED BY <1>5, <1>6, <1>7, <1>8 DEF RatingsKept

\* For every number of ratings, faults and stars: no rating that was given is lost while the
\* process lives, the server first sees them in the order they were given, no two have the same
\* key, and a reconnect is scheduled only while disconnected.
THEOREM RatingsAreKept == RatingSpec => []RatingsKept
<1>1. RatingInit => RatingInv
  BY RatingInitOK
<1>2. RatingInv /\ [RatingNext]_ratingVars => RatingInv'
  BY RatingStep
<1>3. RatingInv => RatingsKept
  BY InvKeepsRatings
<1> QED BY <1>1, <1>2, <1>3, PTL DEF RatingSpec
=============================================================================
