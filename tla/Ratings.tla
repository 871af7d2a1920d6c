------------------------------ MODULE Ratings ------------------------------
(***************************************************************************)
(* The way of a rating to the server: the details screen rates a movie when   *)
(* it goes away (DetailsViewController, RatingSystem), the rating gets a key   *)
(* (FNextPushId) and becomes an outstanding put of Firebase's connection       *)
(* (FRepo, FPersistentConnection), which sends it, again after every           *)
(* reconnect, until the server has answered.  Rating i is the i-th given.       *)
(* A step on the shared dispatch queue is atomic.                              *)
(***************************************************************************)
EXTENDS Integers, Sequences, FiniteSets, FiniteSetsExt, SequencesExt

CONSTANTS MaxRatings,   \* bound: ratings given
          MaxStars,     \* the most stars
          MaxFaults,    \* bound: failed token fetches, refused tokens, connections cut
          PushBase,     \* characters in PUSH_CHARS
          PushChars     \* characters of the random part of a key

ASSUME RatingAssumption ==
    MaxStars \in Nat /\ PushBase \in Nat \ {0} /\ PushChars \in Nat \ {0}

VARIABLES stars,        \* value of the star view on the details screen, -1 without a screen
          push,         \* FNextPushId: lastPushTime and lastRandChars
          given,        \* history: the key and the stars of each rating
          blocks,       \* ratings whose update waits on the shared queue
          puts,         \* outstandingPuts: index -> whether it was sent
          link,         \* the connection: its state and what is under way on it
          server,       \* history: the ratings the server has handled, in order
          orphans,      \* what lost connections still may deliver to the server
          failures      \* faults so far

ratingVars == <<stars, push, given, blocks, puts, link, server, orphans, failures>>

\* state is connectionState; reasons are the interruptReasons; retry says whether an attempt is
\* scheduled, after some delay; sent and answers are the messages in flight, callbacks the
\* requests in requestCBHash.
RatingInit ==
    /\ stars = -1 /\ push = [time |-> 0, chars |-> [i \in 1 .. PushChars |-> 0]]
    /\ given = <<>> /\ blocks = <<>> /\ puts = <<>>
    /\ link = [state |-> "disconnected", reasons |-> {"waiting_for_open"}, retry |-> FALSE,
               fetching |-> FALSE, authToken |-> FALSE,
               requestNumber |-> 0, sent |-> <<>>, answers |-> <<>>, callbacks |-> {}]
    /\ server = <<>> /\ orphans = {} /\ failures = 0

-----------------------------------------------------------------------------
\* The details screen.

ShowDetails ==
    /\ stars = -1 /\ stars' = 0
    /\ UNCHANGED <<push, given, blocks, puts, link, server, orphans, failures>>

Touch ==
    /\ stars >= 0 /\ stars' \in 0 .. MaxStars
    /\ UNCHANGED <<push, given, blocks, puts, link, server, orphans, failures>>

\* The random part of the next key: in the same millisecond the last one plus one, else new.
\* That all of the last one are the last character, where the code would write in front of the
\* array, is left out.
Increment(chars) ==
    LET i == Max({j \in DOMAIN chars : chars[j] # PushBase - 1})
    IN  [j \in DOMAIN chars |-> IF j > i THEN 0 ELSE IF j = i THEN chars[j] + 1 ELSE chars[j]]

NextPushId(now) ==
    IF now # push.time THEN [1 .. PushChars -> 0 .. PushBase - 1]
    ELSE {Increment(c) : c \in {push.chars} \ {[j \in 1 .. PushChars |-> PushBase - 1]}}

\* deinit of the screen, RatingSystem.rate and updateChildValues: no stars, no rating.
LeaveDetails ==
    /\ stars >= 0 /\ Len(given) < MaxRatings
    /\ IF stars = 0 THEN UNCHANGED <<push, given, blocks>>
       ELSE \E now \in {push.time, push.time + 1} \ {0} : \E chars \in NextPushId(now) :
              /\ push' = [time |-> now, chars |-> chars]
              /\ given' = Append(given, [key |-> push', stars |-> stars])
              /\ blocks' = Append(blocks, Len(given) + 1)
    /\ stars' = -1
    /\ UNCHANGED <<puts, link, server, orphans, failures>>

-----------------------------------------------------------------------------
\* Sending.

Request(l, kind, index) == [n |-> l.requestNumber, kind |-> kind, index |-> index]

\* sendAction: the request goes out and its callback is kept under its number.
SendAction(l, kind, index) ==
    LET r == Request(l, kind, index)
    IN  [l EXCEPT !.requestNumber = @ + 1, !.sent = Append(@, r), !.callbacks = @ \cup {r}]

\* sendPut.
SendPut(l, index) == SendAction(l, "put", index)

\* putInternal of an update that the queue comes to, after open: a merge has no hash.
Update ==
    /\ blocks # <<>> /\ "waiting_for_open" \notin link.reasons
    /\ LET index == Head(blocks)
           send  == link.state = "connected"
       IN  /\ puts' = [i \in DOMAIN puts \cup {index} |-> IF i = index THEN send ELSE puts[i]]
           /\ link' = IF send THEN SendPut(link, index) ELSE link
    /\ blocks' = Tail(blocks)
    /\ UNCHANGED <<stars, push, given, server, orphans, failures>>

\* sendPut for every index of a set, in their order.
Nth(indexes, k) == CHOOSE i \in indexes : Cardinality({j \in indexes : j <= i}) = k

SendPuts(l, indexes) ==
    LET count == Cardinality(indexes)
        requests == [k \in 1 .. count |-> [n |-> l.requestNumber + k - 1, kind |-> "put",
                                           index |-> Nth(indexes, k)]]
    IN  [l EXCEPT !.requestNumber = @ + count, !.sent = @ \o requests,
                  !.callbacks = @ \cup {requests[k] : k \in 1 .. count}]

\* Mutant: what was sent already is not sent again.
RestoreUnsent(l) == SendPuts(l, {i \in DOMAIN puts : ~puts[i]})

\* restoreState: all outstanding puts, in the order of their indexes.
RestoreState(l) == SendPuts(l, DOMAIN puts)

-----------------------------------------------------------------------------
\* The connection.

\* tryScheduleReconnect: retry replaces an attempt that is scheduled.
TryScheduleReconnect(l) ==
    IF l.reasons = {} THEN [l EXCEPT !.retry = TRUE] ELSE l

\* Mutant: only a connection that was established is tried again.
GiveUp(l) ==
    LET d == [l EXCEPT !.state = "disconnected", !.sent = <<>>, !.answers = <<>>, !.callbacks = {}]
    IN  IF l.state = "connected" THEN TryScheduleReconnect(d) ELSE d

\* onDisconnect; cancelSentTransactions finds no hash in these puts.
OnDisconnect(l) ==
    TryScheduleReconnect([l EXCEPT !.state = "disconnected", !.sent = <<>>, !.answers = <<>>,
                                   !.callbacks = {}])

\* deferredInit and open: queued when the repo is made for the first rating.
Open ==
    /\ "waiting_for_open" \in link.reasons /\ given # <<>>
    /\ LET l == [link EXCEPT !.reasons = @ \ {"waiting_for_open"}]
       IN  link' = IF l.state = "disconnected" THEN TryScheduleReconnect(l) ELSE l
    /\ UNCHANGED <<stars, push, given, blocks, puts, server, orphans, failures>>

\* The scheduled attempt runs: it fetches a token.
RetryFires ==
    /\ link.retry
    /\ link' = [link EXCEPT !.retry = FALSE, !.state = "getting_token", !.fetching = TRUE]
    /\ UNCHANGED <<stars, push, given, blocks, puts, server, orphans, failures>>

\* The token arrives, or nil; the connection is opened.
TokenFetched ==
    /\ link.fetching
    /\ \E token \in BOOLEAN :
         link' = [link EXCEPT !.fetching = FALSE, !.authToken = token, !.state = "connecting"]
    /\ UNCHANGED <<stars, push, given, blocks, puts, server, orphans, failures>>

\* onReady: restoreAuth, and restoreState at once or when the server has accepted the token.
OnReady ==
    /\ link.state = "connecting"
    /\ IF link.authToken
       THEN /\ link' = SendAction([link EXCEPT !.state = "authenticating"], "auth", 0)
            /\ UNCHANGED puts
       ELSE /\ link' = RestoreState([link EXCEPT !.state = "connected"])
            /\ puts' = [i \in DOMAIN puts |-> TRUE]
    /\ UNCHANGED <<stars, push, given, blocks, server, orphans, failures>>

\* onDataMessage: the answer to a request whose callback is kept.  An answer to a put removes
\* it, the answer to the token restores the state or closes the connection.
OnAnswer ==
    /\ link.answers # <<>>
    /\ LET a == Head(link.answers)
           l == [link EXCEPT !.answers = Tail(@), !.callbacks = {r \in @ : r.n # a.n}]
       IN  \E r \in {c \in link.callbacks : c.n = a.n} :
             \/ /\ r.kind = "put"
                /\ puts' = [i \in DOMAIN puts \ {r.index} |-> puts[i]]
                /\ link' = l
             \/ /\ r.kind = "auth" /\ a.ok
                /\ link' = RestoreState([l EXCEPT !.state = "connected"])
                /\ puts' = [i \in DOMAIN puts |-> TRUE]
             \/ /\ r.kind = "auth" /\ ~a.ok
                /\ link' = OnDisconnect([l EXCEPT !.authToken = FALSE])
                /\ UNCHANGED puts
    /\ UNCHANGED <<stars, push, given, blocks, server, orphans, failures>>

-----------------------------------------------------------------------------
\* The server and the network, external: requests arrive in order, from a lost connection also
\* later or never.

Handle(r) == IF r.kind = "put" /\ ~Contains(server, r.index) THEN Append(server, r.index) ELSE server

Fault == failures < MaxFaults /\ failures' = failures + 1

ServerAnswers ==
    /\ link.sent # <<>>
    /\ \E ok \in IF Head(link.sent).kind = "auth" /\ failures < MaxFaults THEN BOOLEAN ELSE {TRUE} :
         /\ link' = [link EXCEPT !.sent = Tail(@), !.answers = Append(@, [n |-> Head(link.sent).n, ok |-> ok])]
         /\ failures' = IF ok THEN failures ELSE failures + 1
    /\ server' = Handle(Head(link.sent))
    /\ UNCHANGED <<stars, push, given, blocks, puts, orphans>>

OrphanArrives ==
    \E o \in orphans :
      /\ server' = Handle(Head(o))
      /\ orphans' = (orphans \ {o}) \cup (IF Len(o) > 1 THEN {Tail(o)} ELSE {})
      /\ UNCHANGED <<stars, push, given, blocks, puts, link, failures>>

OrphanIsLost ==
    \E o \in orphans :
      /\ orphans' = orphans \ {o}
      /\ UNCHANGED <<stars, push, given, blocks, puts, link, server, failures>>

TokenFails ==
    /\ link.fetching /\ Fault
    /\ link' = TryScheduleReconnect([link EXCEPT !.fetching = FALSE, !.state = "disconnected"])
    /\ UNCHANGED <<stars, push, given, blocks, puts, server, orphans>>

\* The connection cannot be opened, or is lost.
Lost ==
    /\ link.state \in {"connecting", "authenticating", "connected"} /\ Fault
    /\ link' = OnDisconnect(link)
    /\ orphans' = orphans \cup ({link.sent} \ {<<>>})
    /\ UNCHANGED <<stars, push, given, blocks, puts, server>>

\* onKill: the connection is closed and never tried again.
OnKill ==
    /\ link.state \in {"connecting", "authenticating", "connected"} /\ Fault
    /\ link' = OnDisconnect([link EXCEPT !.reasons = @ \cup {"server_kill"}])
    /\ orphans' = orphans \cup ({link.sent} \ {<<>>})
    /\ UNCHANGED <<stars, push, given, blocks, puts, server>>

\* The network becomes reachable, or the app comes to the foreground: a new attempt, with
\* no delay, replaces one that is scheduled.
Reachable ==
    /\ link.state = "disconnected"
    /\ link' = TryScheduleReconnect(link)
    /\ UNCHANGED <<stars, push, given, blocks, puts, server, orphans, failures>>

\* What happens by itself.
RatingProgress ==
    Update \/ Open \/ RetryFires \/ TokenFetched \/ OnReady \/ OnAnswer \/ ServerAnswers

RatingNext ==
    \/ ShowDetails \/ Touch \/ LeaveDetails \/ RatingProgress
    \/ OrphanArrives \/ OrphanIsLost \/ TokenFails \/ Lost \/ OnKill \/ Reachable

RatingSpec == RatingInit /\ [][RatingNext]_ratingVars

-----------------------------------------------------------------------------
\* Properties.

\* While the process lives no rating is lost: it waits on the queue or is outstanding until the
\* server has handled it.  The server first sees them in the order they were given, although
\* connections are lost with requests and answers on the way and everything outstanding is sent
\* again; and as every rating has a key of its own, no put overwrites another's.  An attempt is
\* scheduled only while disconnected, as tryScheduleReconnect asserts when it runs.
RatingsKept ==
    /\ \A i \in DOMAIN given : Contains(blocks, i) \/ i \in DOMAIN puts \/ Contains(server, i)
    /\ server = [i \in DOMAIN server |-> i]
    /\ \A i, j \in DOMAIN given : i # j => given[i].key # given[j].key
    /\ link.retry => link.state = "disconnected"

\* Unless the server forbids reconnecting, every rating reaches the server and its put is
\* answered: no failure leaves the connection without a next attempt.
RatingsArrive ==
    \A i \in 1 .. MaxRatings :
      i \in DOMAIN given ~>
        \/ Contains(server, i) /\ ~Contains(blocks, i) /\ i \notin DOMAIN puts
        \/ "server_kill" \in link.reasons
=============================================================================
