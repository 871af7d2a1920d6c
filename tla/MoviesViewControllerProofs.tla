--------------------- MODULE MoviesViewControllerProofs ---------------------
(***************************************************************************)
(* Proofs of the safety properties of MoviesViewController, for every      *)
(* catalogue, page size, prefetch margin and bound.                        *)
(***************************************************************************)
EXTENDS MoviesViewController, SequenceTheorems, TLAPS

(***************************************************************************)
(* The inductive invariant.  TypeOK needs to know that a handler at work   *)
(* belongs to a task and that a poster of the loop is one of its rows.     *)
(***************************************************************************)
HandlerOK ==
    /\ handler.at \in {"append", "bump"} => handler.task \in 1..Len(tasks)
    /\ handler.looping /\ handler.at \in {"image", "store", "notify"}
           => handler.row <= handler.last

TypeInv == TypeOK /\ HandlerOK

(***************************************************************************)
(* SortedByPage rests on the order in which pages travel: tasks are        *)
(* started one after the other's transfer and for pages that never fall;   *)
(* their handlers queue up in that order; and no page under way is lower   *)
(* than a row that is there.                                               *)
(***************************************************************************)
TasksInOrder ==
    /\ \A s, t \in 1..Len(tasks) :
          s < t => tasks[s].result # "none" /\ tasks[s].page <= tasks[t].page
    /\ \A t \in 1..Len(tasks) : tasks[t].state = "completed" => tasks[t].result # "none"

QueueInOrder ==
    /\ \A i \in 1..Len(delegateQueue) : tasks[delegateQueue[i]].result # "none"
    /\ \A i, j \in 1..Len(delegateQueue) : i < j => delegateQueue[i] < delegateQueue[j]
    /\ handler.at = "append" =>
          /\ tasks[handler.task].result # "none"
          /\ \A i \in 1..Len(delegateQueue) : handler.task < delegateQueue[i]

NoPageAbove(p) ==
    /\ \A t \in 1..Len(tasks) : tasks[t].page <= p
    /\ \A k \in 1..Len(movies) : movies[k].movie.page <= p

PagesRequested ==
    /\ NoPageAbove(page)
    /\ main.at = "fetch" => NoPageAbove(main.page) /\ main.page <= page

RowsBehind ==
    \A k \in 1..Len(movies) :
        /\ \A t \in 1..Len(tasks) :
              tasks[t].result = "none" => movies[k].movie.page <= tasks[t].page
        /\ \A i \in 1..Len(delegateQueue) :
              movies[k].movie.page <= tasks[delegateQueue[i]].page
        /\ handler.at = "append" => movies[k].movie.page <= tasks[handler.task].page

OrderInv == TasksInOrder /\ QueueInOrder /\ PagesRequested /\ RowsBehind /\ SortedByPage

(***************************************************************************)
(* PosterBelongsToRow: a poster on its way, as an open request or in the   *)
(* handler, is for a row that holds its movie.                             *)
(***************************************************************************)
PostersOnTheirWay ==
    /\ handler.at \in {"image", "store"} =>
          handler.row < Len(movies) /\ movies[handler.row + 1].movie = handler.image
    /\ \A r \in posterRequests :
          r.row < Len(movies) /\ movies[r.row + 1].movie = r.movie

PosterInv == PostersOnTheirWay /\ PosterBelongsToRow

ScreenInv == TableIsPrefix /\ TapOpensShownMovie

(* PageCountsLoads, and what replaces it between append and page += 1 *)
CountInv ==
    /\ PageCountsLoads
    /\ Alive /\ handler.at = "bump" /\ page <= TotalPages => Len(movies) = PageSize * page

IInv == TypeInv /\ OrderInv /\ PosterInv /\ ScreenInv /\ CountInv

-----------------------------------------------------------------------------
(* Sequence facts about the state changes *)

LEMMA NewTaskTyped == ASSUME NEW p \in Nat \ {0} PROVE NewTask(p) \in Task
BY DEF NewTask, Task

(* Starting a task leaves the earlier ones as they are. *)
LEMMA StartTaskEffect ==
    ASSUME ServiceTypeOK, NEW p \in Nat \ {0}, StartTask(p)
    PROVE  /\ Len(tasks) \in Nat
           /\ Len(tasks') = Len(tasks) + 1
           /\ \A t \in 1..Len(tasks) : tasks'[t] = tasks[t]
           /\ tasks'[Len(tasks) + 1] = NewTask(p)
           /\ delegateQueue' = delegateQueue
           /\ posterRequests' = posterRequests
           /\ failures' = failures
           /\ ServiceTypeOK'
<1>1. tasks \in Seq(Task) /\ Len(tasks) \in Nat
  BY LenProperties DEF ServiceTypeOK
<1>2. NewTask(p) \in Task
  BY NewTaskTyped
<1>3. /\ tasks' \in Seq(Task)
      /\ Len(tasks') = Len(tasks) + 1
      /\ \A t \in 1..Len(tasks) : tasks'[t] = tasks[t]
      /\ tasks'[Len(tasks) + 1] = NewTask(p)
  BY <1>1, <1>2 DEF StartTask
<1>4. delegateQueue \in Seq(1..Len(tasks'))
  <2>1. 1..Len(tasks) \subseteq 1..Len(tasks')
    BY <1>1, <1>3
  <2> QED BY <2>1, SeqMonotonic DEF ServiceTypeOK
<1> QED BY <1>1, <1>3, <1>4 DEF StartTask, ServiceTypeOK

(* The call of the service starts a task unless the last one runs. *)
LEMMA FetchCases ==
    ASSUME NEW p, FetchPage(p)
    PROVE  UNCHANGED serviceVars \/ (~FetchRunning /\ StartTask(p))
BY DEF FetchPage, Search, GetMovies

(* The network ends a transfer or completes a task; pages stay. *)
LEMMA NetworkEffect ==
    ASSUME ServiceTypeOK, NetworkStep
    PROVE  /\ Len(tasks) \in Nat
           /\ Len(tasks') = Len(tasks)
           /\ \A t \in 1..Len(tasks) :
                 /\ tasks'[t].page = tasks[t].page
                 /\ tasks[t].result # "none" => tasks'[t].result = tasks[t].result
                 /\ \/ tasks'[t].state = tasks[t].state
                    \/ tasks[t].result # "none"
           /\ \/ delegateQueue' = delegateQueue
              \/ \E t \in 1..Len(tasks) :
                    /\ tasks[t].result = "none"
                    /\ tasks'[t].result # "none"
                    /\ delegateQueue' = Append(delegateQueue, t)
           /\ posterRequests' = posterRequests
           /\ ServiceTypeOK'
<1>1. tasks \in Seq(Task) /\ Len(tasks) \in Nat
  BY LenProperties DEF ServiceTypeOK
<1>2. PICK t \in 1..Len(tasks) :
          \/ \E failed \in BOOLEAN : TransferEnds(t, failed)
          \/ TaskCompleted(t)
  BY DEF NetworkStep
<1>3. tasks[t] \in Task
  BY <1>1, ElementOfSeq
<1>4. CASE \E failed \in BOOLEAN : TransferEnds(t, failed)
  <2>1. PICK failed \in BOOLEAN : TransferEnds(t, failed)
    BY <1>4
  <2> DEFINE res == IF failed THEN "failure" ELSE "success"
             new == [tasks[t] EXCEPT !.result = res]
  <2>2. /\ new \in Task /\ new.page = tasks[t].page /\ new.state = tasks[t].state
        /\ new.result # "none"
    BY <1>3 DEF Task
  <2>3. tasks' = [tasks EXCEPT ![t] = new]
    BY <2>1 DEF TransferEnds
  <2> HIDE DEF new
  <2>4. /\ tasks' \in Seq(Task)
        /\ Len(tasks') = Len(tasks)
        /\ \A j \in 1..Len(tasks) : tasks'[j] = IF j = t THEN new ELSE tasks[j]
    BY <1>1, <2>2, <2>3, ExceptSeq
  <2>5. delegateQueue' \in Seq(1..Len(tasks'))
    BY <2>1, <2>4 DEF TransferEnds, ServiceTypeOK
  <2>6. failures' \in 0..MaxFailures
    BY <2>1, BoundAssumption DEF TransferEnds, Fails, ServiceTypeOK
  <2>7. /\ tasks[t].result = "none" /\ posterRequests' = posterRequests
        /\ delegateQueue' = Append(delegateQueue, t)
    BY <2>1 DEF TransferEnds
  <2> QED BY <1>1, <2>2, <2>4, <2>5, <2>6, <2>7 DEF ServiceTypeOK
<1>5. CASE TaskCompleted(t)
  <2> DEFINE new == [tasks[t] EXCEPT !.state = "completed"]
  <2>2. new \in Task /\ new.page = tasks[t].page /\ new.result = tasks[t].result
    BY <1>3 DEF Task
  <2>3. tasks' = [tasks EXCEPT ![t] = new]
    BY <1>5 DEF TaskCompleted
  <2> HIDE DEF new
  <2>4. /\ tasks' \in Seq(Task)
        /\ Len(tasks') = Len(tasks)
        /\ \A j \in 1..Len(tasks) : tasks'[j] = IF j = t THEN new ELSE tasks[j]
    BY <1>1, <2>2, <2>3, ExceptSeq
  <2>5. tasks[t].result # "none" /\ UNCHANGED <<delegateQueue, posterRequests, failures>>
    BY <1>5 DEF TaskCompleted
  <2> QED BY <1>1, <2>2, <2>4, <2>5 DEF ServiceTypeOK
<1> QED BY <1>2, <1>4, <1>5

(* The rows a page adds are typed, of that page and without posters. *)
LEMMA NewRowsTyped ==
    ASSUME NEW p \in Nat \ {0}
    PROVE  /\ NewRows(Results(p)) \in Seq(Row)
           /\ Len(NewRows(Results(p))) = IF p <= TotalPages THEN PageSize ELSE 0
           /\ \A i \in 1..Len(NewRows(Results(p))) :
                 /\ NewRows(Results(p))[i].movie.page = p
                 /\ NewRows(Results(p))[i].poster = NoImage
<1>1. CASE p \in 1..TotalPages
  <2>1. Results(p) = [i \in 1..PageSize |-> [page |-> p, slot |-> i]]
    BY <1>1 DEF Results
  <2>2. Results(p) \in Seq(Movie) /\ Len(Results(p)) = PageSize
    BY <1>1, <2>1, CatalogueAssumption DEF Movie
  <2>3. NewRows(Results(p)) =
          [i \in 1..PageSize |-> [movie |-> [page |-> p, slot |-> i], poster |-> NoImage]]
    BY Zenon, <2>1, <2>2 DEF NewRows
  <2>4. \A i \in 1..PageSize :
          [movie |-> [page |-> p, slot |-> i], poster |-> NoImage] \in Row
    BY <1>1 DEF Row, Movie
  <2> QED BY <1>1, <2>3, <2>4, CatalogueAssumption
<1>2. CASE p \notin 1..TotalPages
  <2>1. Results(p) = <<>> /\ Len(Results(p)) = 0
    BY <1>2 DEF Results
  <2>2. NewRows(Results(p)) = <<>>
    BY <2>1 DEF NewRows
  <2> QED BY <1>2, <2>2, CatalogueAssumption
<1> QED BY <1>1, <1>2

(* Appending a page keeps the rows there are. *)
LEMMA AppendEffect ==
    ASSUME TypeInv, AppendMovies
    PROVE  LET q == tasks[handler.task].page
               n == IF Alive /\ q <= TotalPages THEN PageSize ELSE 0
           IN  /\ q \in Nat \ {0}
               /\ n \in Nat
               /\ Len(movies) \in Nat
               /\ Len(movies') = Len(movies) + n
               /\ \A i \in 1..Len(movies) : movies'[i] = movies[i]
               /\ \A i \in 1..Len(movies') : i > Len(movies) =>
                     movies'[i].movie.page = q /\ movies'[i].poster = NoImage
               /\ movies' \in Seq(Row)
<1> DEFINE q == tasks[handler.task].page
           new == NewRows(Results(q))
<1>1. handler.task \in 1..Len(tasks)
  BY DEF TypeInv, HandlerOK, AppendMovies
<1>2. tasks[handler.task] \in Task
  BY <1>1, ElementOfSeq DEF TypeInv, TypeOK, ServiceTypeOK
<1>3. q \in Nat \ {0}
  BY <1>2 DEF Task
<1>4. movies \in Seq(Row) /\ Len(movies) \in Nat
  BY LenProperties DEF TypeInv, TypeOK, SourceTypeOK
<1>5. CASE ~Alive
  BY <1>3, <1>4, <1>5, CatalogueAssumption DEF AppendMovies
<1>6. CASE Alive
  <2>1. movies' = movies \o new
    BY <1>6 DEF AppendMovies, Appended
  <2>2. /\ new \in Seq(Row)
        /\ Len(new) = IF q <= TotalPages THEN PageSize ELSE 0
        /\ \A i \in 1..Len(new) : new[i].movie.page = q /\ new[i].poster = NoImage
    BY <1>3, NewRowsTyped
  <2> HIDE DEF q, new
  <2>3. /\ movies' \in Seq(Row)
        /\ Len(movies') = Len(movies) + Len(new)
        /\ \A i \in 1..Len(movies) + Len(new) :
              movies'[i] = IF i <= Len(movies) THEN movies[i] ELSE new[i - Len(movies)]
    BY <1>4, <2>1, <2>2, ConcatProperties
  <2>4. Len(new) \in Nat
    BY <2>2, LenProperties
  <2>5. ASSUME NEW i \in 1..Len(movies'), i > Len(movies)
        PROVE  movies'[i].movie.page = q /\ movies'[i].poster = NoImage
    <3>1. i - Len(movies) \in 1..Len(new)
      BY <1>4, <2>3, <2>4, <2>5
    <3>2. movies'[i] = new[i - Len(movies)]
      BY <1>4, <2>3, <2>4, <2>5
    <3> QED BY <2>2, <3>1, <3>2
  <2>6. Len(new) = IF Alive /\ q <= TotalPages THEN PageSize ELSE 0
    BY <1>6, <2>2
  <2>7. \A i \in 1..Len(movies) : movies'[i] = movies[i]
    BY <1>4, <2>3, <2>4
  <2>8. \A i \in 1..Len(movies') : i > Len(movies) =>
            movies'[i].movie.page = q /\ movies'[i].poster = NoImage
    BY <2>5
  <2> QED BY <1>3, <1>4, <2>3, <2>4, <2>6, <2>7, <2>8 DEF q
<1> QED BY <1>5, <1>6

(* Storing a poster changes no row but its own, and only the poster. *)
LEMMA StoreEffect ==
    ASSUME TypeInv, StorePoster
    PROVE  /\ Len(movies) \in Nat
           /\ Len(movies') = Len(movies)
           /\ \A i \in 1..Len(movies) :
                 /\ movies'[i].movie = movies[i].movie
                 /\ movies'[i].poster = IF MovieAt(handler.row) /\ i = handler.row + 1
                                        THEN handler.image ELSE movies[i].poster
           /\ movies' \in Seq(Row)
<1>1. movies \in Seq(Row) /\ Len(movies) \in Nat
  BY LenProperties DEF TypeInv, TypeOK, SourceTypeOK
<1>2. handler.row \in Nat /\ handler.image \in Movie \cup {NoImage}
  BY DEF TypeInv, TypeOK, SourceTypeOK, Handler
<1>3. CASE ~MovieAt(handler.row)
  BY <1>1, <1>3 DEF StorePoster, Stored
<1>4. CASE MovieAt(handler.row)
  <2> DEFINE k == handler.row + 1
             new == [movies[k] EXCEPT !.poster = handler.image]
  <2>1. k \in 1..Len(movies)
    BY <1>1, <1>2, <1>4 DEF MovieAt, InRange
  <2>2. movies[k] \in Row
    BY <1>1, <2>1, ElementOfSeq
  <2>3. new \in Row /\ new.movie = movies[k].movie /\ new.poster = handler.image
    BY <1>2, <2>2 DEF Row
  <2>4. movies' = [movies EXCEPT ![k] = new]
    BY <1>4 DEF StorePoster, Stored
  <2> HIDE DEF k, new
  <2>5. /\ movies' \in Seq(Row)
        /\ Len(movies') = Len(movies)
        /\ \A j \in 1..Len(movies) : movies'[j] = IF j = k THEN new ELSE movies[j]
    BY <1>1, <2>1, <2>3, <2>4, ExceptSeq
  <2> QED BY <1>1, <1>4, <2>3, <2>5 DEF k
<1> QED BY <1>3, <1>4

-----------------------------------------------------------------------------
(* Type correctness *)

LEMMA IdleTyped == Idle \in Handler /\ Idle.at = "idle" /\ ~Idle.looping
BY DEF Idle, Handler, HandlerStates

LEMMA HandlerUpdate ==
    ASSUME NEW h \in Handler, NEW a \in HandlerStates, NEW t \in Nat, NEW r \in Nat,
           NEW i \in Movie \cup {NoImage}
    PROVE  /\ [h EXCEPT !.at = a] \in Handler
           /\ [h EXCEPT !.at = a, !.task = t] \in Handler
           /\ [h EXCEPT !.at = a, !.row = r, !.image = i] \in Handler
BY DEF Handler

LEMMA TypeInvInit == Init => TypeInv
<1> SUFFICES ASSUME Init PROVE TypeInv
  OBVIOUS
<1>1. NewTask(1) \in Task
  BY NewTaskTyped
<1>2. ServiceTypeOK
  BY <1>1, BoundAssumption DEF Init, SourceInit, ServiceInit, ServiceTypeOK
<1>3. movies \in Seq(Row) /\ page \in Nat \ {0}
  BY DEF Init, SourceInit
<1>4. SourceTypeOK
  BY <1>3, IdleTyped DEF Init, SourceInit, SourceTypeOK
<1>5. ScreenTypeOK
  BY DEF Init, ScreenTypeOK, NoDetails
<1>6. HandlerOK
  BY DEF Init, SourceInit, HandlerOK, Idle
<1> QED BY <1>2, <1>4, <1>5, <1>6 DEF TypeInv, TypeOK

(* A handler that ends, or goes on to the next row of its loop *)
LEMMA NextRowTyped ==
    ASSUME handler \in Handler, handler.looping => handler.row <= handler.last
    PROVE  /\ NextRow \in Handler
           /\ NextRow.at = "loop"
           /\ NextRow.looping => NextRow.row <= NextRow.last + 1
<1>1. handler.row \in Nat /\ handler.last \in Nat
  BY DEF Handler
<1>2. NextRow \in Handler
  <2>1. handler.row + 1 \in Nat /\ "loop" \in HandlerStates
    BY <1>1 DEF HandlerStates
  <2> QED BY Zenon, <2>1, HandlerUpdate DEF NextRow
<1>3. NextRow.at = "loop"
  BY DEF NextRow, Handler
<1>4. NextRow.row = handler.row + 1 /\ NextRow.last = handler.last
  BY DEF NextRow, Handler
<1>5. NextRow.looping = handler.looping
  BY DEF NextRow, Handler
<1> QED BY <1>1, <1>2, <1>3, <1>4, <1>5

LEMMA PosterDoneTyped ==
    ASSUME handler \in Handler, handler.looping => handler.row <= handler.last
    PROVE  /\ PosterDone \in Handler
           /\ PosterDone.at \in {"loop", "idle"}
           /\ PosterDone.at = "idle" => PosterDone = Idle
           /\ PosterDone.looping => PosterDone.row <= PosterDone.last + 1
BY NextRowTyped, IdleTyped DEF PosterDone

(* The steps of the delegate queue preserve the types. *)
LEMMA HandlerTypes ==
    ASSUME TypeInv, HandlerStep
    PROVE  ServiceTypeOK' /\ SourceTypeOK' /\ HandlerOK'
<1> USE DEF TypeInv, TypeOK
<1>t. tasks \in Seq(Task) /\ Len(tasks) \in Nat /\ movies \in Seq(Row) /\ Len(movies) \in Nat
  BY LenProperties DEF ServiceTypeOK, SourceTypeOK
<1>h. handler \in Handler
  BY DEF SourceTypeOK
<1>1. CASE BeginMovies
  <2>1. Head(delegateQueue) \in 1..Len(tasks) /\ Tail(delegateQueue) \in Seq(1..Len(tasks))
    BY <1>1, HeadTailProperties DEF BeginMovies, ServiceTypeOK
  <2>2. ServiceTypeOK'
    BY <1>1, <2>1 DEF BeginMovies, ServiceTypeOK
  <2>3. \/ handler' = Idle
        \/ /\ handler' = [Idle EXCEPT !.at = "append", !.task = Head(delegateQueue)]
           /\ handler'.at = "append" /\ ~handler'.looping
           /\ handler'.task = Head(delegateQueue)
    BY <1>1 DEF BeginMovies, FirstStep, Idle
  <2>4. handler' \in Handler /\ ~handler'.looping /\ (handler'.at = "idle" <=> handler' = Idle)
    <3>1. CASE handler' = Idle
      BY <3>1, IdleTyped
    <3>2. CASE handler' = [Idle EXCEPT !.at = "append", !.task = Head(delegateQueue)]
      <4>1. handler' \in Handler
        <5>1. Head(delegateQueue) \in Nat /\ "append" \in HandlerStates
          BY <1>t, <2>1 DEF HandlerStates
        <5> QED BY Zenon, <3>2, <5>1, IdleTyped, HandlerUpdate
      <4>2. handler'.at = "append"
        BY <3>2 DEF Idle
      <4>3. ~handler'.looping
        BY <3>2 DEF Idle
      <4> QED BY <4>1, <4>2, <4>3, IdleTyped
    <3> QED BY <2>3, <3>1, <3>2
  <2>5. SourceTypeOK'
    BY <1>1, <2>4 DEF BeginMovies, SourceTypeOK
  <2>6. HandlerOK'
    BY <1>1, <2>1, <2>3, <2>4, IdleTyped DEF HandlerOK, BeginMovies
  <2> QED BY <2>2, <2>5, <2>6
<1>2. CASE AppendMovies
  <2>1. movies' \in Seq(Row)
    BY <1>2, AppendEffect
  <2>2. handler' \in Handler /\ handler'.at = "bump" /\ handler' # Idle
        /\ handler'.looping = handler.looping /\ handler'.row = handler.row
        /\ handler'.last = handler.last /\ handler'.task = handler.task
    BY <1>2, <1>h DEF AppendMovies, Handler, HandlerStates, Idle
  <2> QED BY <1>2, <2>1, <2>2
          DEF AppendMovies, ServiceTypeOK, SourceTypeOK, HandlerOK, serviceVars
<1>3. CASE BumpPage
  <2>1. handler' \in Handler /\ handler'.at = "loop" /\ handler' # Idle
        /\ handler'.row = 0 /\ handler'.last \in Nat
    BY <1>3, <1>h, <1>t DEF BumpPage, Handler, HandlerStates, Idle
  <2>2. page' \in Nat \ {0}
    BY <1>3 DEF BumpPage, NextPage, SourceTypeOK
  <2> QED BY <1>3, <2>1, <2>2
          DEF BumpPage, ServiceTypeOK, SourceTypeOK, HandlerOK, serviceVars
<1>4. CASE LoopStep
  <2>1. handler.row \in Nat /\ handler.last \in Nat /\ handler.row <= handler.last
    BY <1>4, <1>h DEF LoopStep, InLoop, Handler
  <2>2. CASE handler' = NextRow /\ UNCHANGED serviceVars
    <3>1. NextRow # Idle
      BY <1>h, <2>1, NextRowTyped, IdleTyped
    <3> QED BY <1>4, <1>h, <2>1, <2>2, <3>1, NextRowTyped
            DEF LoopStep, ServiceTypeOK, SourceTypeOK, HandlerOK, serviceVars
  <2>3. CASE /\ MovieAt(handler.row)
             /\ handler' = [handler EXCEPT !.at = "image",
                                           !.image = movies[handler.row + 1].movie]
             /\ UNCHANGED serviceVars
    <3>1. handler.row + 1 \in 1..Len(movies)
      BY <1>t, <2>1, <2>3 DEF MovieAt, InRange
    <3>2. movies[handler.row + 1].movie \in Movie
      <4>1. movies[handler.row + 1] \in Row
        BY <1>t, <3>1, ElementOfSeq
      <4> QED BY <4>1 DEF Row
    <3>3. handler' \in Handler /\ handler'.at = "image" /\ handler' # Idle
          /\ handler'.row = handler.row /\ handler'.last = handler.last
      BY <1>h, <2>3, <3>2 DEF Handler, HandlerStates, Idle
    <3> QED BY <1>4, <2>1, <2>3, <3>3
            DEF LoopStep, ServiceTypeOK, SourceTypeOK, HandlerOK, serviceVars
  <2>4. CASE /\ MovieAt(handler.row)
             /\ GetMoviePoster(handler.task, handler.row, movies[handler.row + 1].movie)
             /\ handler' = NextRow
    <3>1. handler.row + 1 \in 1..Len(movies)
      BY <1>t, <2>1, <2>4 DEF MovieAt, InRange
    <3>2. movies[handler.row + 1].movie \in Movie
      <4>1. movies[handler.row + 1] \in Row
        BY <1>t, <3>1, ElementOfSeq
      <4> QED BY <4>1 DEF Row
    <3>3. posterRequests' \subseteq PosterRequest
      BY <1>h, <2>1, <2>4, <3>2 DEF GetMoviePoster, PosterRequest, ServiceTypeOK, Handler
    <3>4. ServiceTypeOK'
      BY <2>4, <3>3 DEF GetMoviePoster, ServiceTypeOK
    <3>5. NextRow # Idle
      BY <1>h, <2>1, NextRowTyped, IdleTyped
    <3> QED BY <1>4, <1>h, <2>1, <2>4, <3>4, <3>5, NextRowTyped
            DEF LoopStep, SourceTypeOK, HandlerOK
  <2> QED BY <1>4, <2>2, <2>3, <2>4 DEF LoopStep
<1>5. CASE LoopEnds
  BY <1>5, IdleTyped DEF LoopEnds, ServiceTypeOK, SourceTypeOK, HandlerOK, serviceVars
<1>6. CASE \E r \in posterRequests, failed \in BOOLEAN : BeginPosters(r, failed)
  <2>1. PICK r \in posterRequests, failed \in BOOLEAN : BeginPosters(r, failed)
    BY <1>6
  <2>2. r \in PosterRequest
    BY DEF ServiceTypeOK
  <2>3. failures' \in 0..MaxFailures
    BY <2>1, BoundAssumption DEF BeginPosters, Fails, ServiceTypeOK
  <2>4. ServiceTypeOK'
    BY <2>1, <2>3 DEF BeginPosters, ServiceTypeOK
  <2>5. handler' \in Handler /\ ~handler'.looping /\ handler'.at \in {"idle", "image"}
        /\ (handler'.at = "idle" <=> handler' = Idle)
    BY <2>1, <2>2, IdleTyped DEF BeginPosters, PosterRequest, Handler, HandlerStates, Idle
  <2> QED BY <2>1, <2>4, <2>5 DEF BeginPosters, SourceTypeOK, HandlerOK
<1>7. CASE \E failed \in BOOLEAN : ImageFromURL(failed)
  <2>1. PICK failed \in BOOLEAN : ImageFromURL(failed)
    BY <1>7
  <2>2. failures' \in 0..MaxFailures
    BY <2>1, BoundAssumption DEF ImageFromURL, Fails, ServiceTypeOK
  <2>3. ServiceTypeOK'
    BY <2>1, <2>2 DEF ImageFromURL, ServiceTypeOK
  <2>4. handler.looping => handler.row <= handler.last
    BY <2>1 DEF ImageFromURL, HandlerOK
  <2>5. CASE failed
    BY <1>h, <2>1, <2>3, <2>4, <2>5, PosterDoneTyped, IdleTyped
       DEF ImageFromURL, SourceTypeOK, HandlerOK
  <2>6. CASE ~failed
    <3>1. handler' = [handler EXCEPT !.at = "store"]
      BY <2>1, <2>6 DEF ImageFromURL
    <3>2. handler' \in Handler /\ handler'.at = "store" /\ handler' # Idle
          /\ handler'.looping = handler.looping
          /\ handler'.row = handler.row /\ handler'.last = handler.last
      BY <1>h, <3>1 DEF Handler, HandlerStates, Idle
    <3> QED BY <2>1, <2>3, <2>4, <3>2 DEF ImageFromURL, SourceTypeOK, HandlerOK
  <2> QED BY <2>5, <2>6
<1>8. CASE StorePoster
  <2>1. handler' \in Handler /\ handler'.at = "notify" /\ handler' # Idle
        /\ handler'.looping = handler.looping
        /\ handler'.row = handler.row /\ handler'.last = handler.last
    BY <1>8, <1>h DEF StorePoster, Handler, HandlerStates, Idle
  <2>2. movies' \in Seq(Row)
    BY <1>8, StoreEffect
  <2> QED BY <1>8, <2>1, <2>2
          DEF StorePoster, ServiceTypeOK, SourceTypeOK, HandlerOK, serviceVars
<1> QED BY <1>1, <1>2, <1>3, <1>4, <1>5, <1>6, <1>7, <1>8 DEF HandlerStep

(* A cell is filled from a row, or left empty. *)
LEMMA CellAtTyped ==
    ASSUME SourceTypeOK, NEW row \in Nat
    PROVE  CellAt(row) \in Cell
<1>1. movies \in Seq(Row) /\ Len(movies) \in Nat
  BY LenProperties DEF SourceTypeOK
<1>2. CASE InRange(row)
  <2>1. row + 1 \in 1..Len(movies)
    BY <1>1, <1>2 DEF InRange
  <2>2. movies[row + 1] \in Row
    BY <1>1, <2>1, ElementOfSeq
  <2> QED BY <1>2, <2>2 DEF CellAt, Row, Cell
<1>3. CASE ~InRange(row)
  BY <1>3 DEF CellAt, EmptyCell, Cell
<1> QED BY <1>2, <1>3

LEMMA RowsAreCells == ASSUME SourceTypeOK PROVE movies \in Seq(Cell)
<1>1. Row \subseteq Cell
  BY DEF Row, Cell
<1> QED BY <1>1, SeqMonotonic DEF SourceTypeOK

LEMMA TypeInvStep == TypeInv /\ [Next]_vars => TypeInv'
<1> SUFFICES ASSUME TypeInv, [Next]_vars PROVE TypeInv'
  OBVIOUS
<1> USE DEF TypeInv, TypeOK
<1>h. handler \in Handler
  BY DEF SourceTypeOK
<1>m. main \in [at : {"init", "idle", "load", "fetch"}, page : Nat] /\ reloads \in Nat
  BY DEF ScreenTypeOK
<1>1. CASE Network
  <2>1. ServiceTypeOK' /\ Len(tasks') = Len(tasks)
    BY <1>1, NetworkEffect DEF Network
  <2> QED BY <1>1, <2>1
          DEF Network, SourceTypeOK, ScreenTypeOK, HandlerOK, sourceVars, screenVars
<1>2. CASE Running /\ HandlerStep /\ UNCHANGED screenVars
  BY <1>2, HandlerTypes DEF ScreenTypeOK, screenVars
<1>3. CASE Running /\ Notify
  <2>1. handler.looping => handler.row <= handler.last
    BY <1>3 DEF Notify, NotifyDelegate, HandlerOK
  <2>2. SourceTypeOK' /\ HandlerOK'
    BY <1>3, <1>h, <2>1, PosterDoneTyped, IdleTyped
       DEF Notify, NotifyDelegate, SourceTypeOK, HandlerOK
  <2>3. reloads' \in Nat
    BY <1>3, <1>m DEF Notify, DataSourceChanged
  <2> QED BY <1>3, <2>2, <2>3
          DEF Notify, NotifyDelegate, ServiceTypeOK, ScreenTypeOK, serviceVars
<1>4. CASE ViewDidLoad
  <2>1. main' \in [at : {"init", "idle", "load", "fetch"}, page : Nat] /\ reloads' \in Nat
    BY <1>4, <1>m DEF ViewDidLoad
  <2>2. main'.at = "idle"
    BY <1>4, <1>m DEF ViewDidLoad
  <2> QED BY <1>4, <2>1, <2>2
          DEF ViewDidLoad, ServiceTypeOK, SourceTypeOK, ScreenTypeOK, HandlerOK, serviceVars
<1>5. CASE ReloadData
  <2>1. reloads' \in Nat
    BY <1>5, <1>m DEF ReloadData
  <2>2. shown' \in Seq(Cell)
    BY <1>5, RowsAreCells DEF ReloadData
  <2> QED BY <1>5, <2>1, <2>2
          DEF ReloadData, ServiceTypeOK, SourceTypeOK, ScreenTypeOK, HandlerOK,
              serviceVars, sourceVars
<1>6. CASE LoadDataSource
  <2>1. page \in Nat \ {0}
    BY DEF SourceTypeOK
  <2> QED BY <1>6, <2>1
          DEF LoadDataSource, ServiceTypeOK, SourceTypeOK, ScreenTypeOK, HandlerOK,
              serviceVars, sourceVars
<1>10. CASE \E row \in 0..Len(shown) - 1 : CellForRow(row)
  <2>1. PICK row \in 0..Len(shown) - 1 : CellForRow(row)
    BY <1>10
  <2>2. shown \in Seq(Cell) /\ Len(shown) \in Nat
    BY LenProperties DEF ScreenTypeOK
  <2>3. row \in Nat /\ row + 1 \in 1..Len(shown)
    BY <2>2
  <2>4. CellAt(row) \in Cell
    BY <2>3, CellAtTyped
  <2>5. shown' \in Seq(Cell)
    BY <2>1, <2>2, <2>3, <2>4, ExceptSeq DEF CellForRow
  <2> QED BY <2>1, <2>5
          DEF CellForRow, ServiceTypeOK, SourceTypeOK, ScreenTypeOK, HandlerOK,
              serviceVars, sourceVars
<1>11. CASE \E row \in 0..Len(shown) - 1 : PrefetchRows(row)
  <2>1. /\ main' = [main EXCEPT !.at = "load"]
        /\ UNCHANGED <<serviceVars, sourceVars, reloads, shown, details>>
    BY <1>11 DEF PrefetchRows
  <2>2. main' \in [at : {"init", "idle", "load", "fetch"}, page : Nat] /\ main'.at = "load"
    BY <1>m, <2>1
  <2> QED BY <2>1, <2>2
          DEF ServiceTypeOK, SourceTypeOK, ScreenTypeOK, HandlerOK, serviceVars, sourceVars
<1>12. CASE \E row \in 0..Len(shown) - 1 : DidSelectRow(row)
  <2>1. PICK row \in 0..Len(shown) - 1 : DidSelectRow(row)
    BY <1>12
  <2>2. Len(shown) \in Nat
    BY LenProperties DEF ScreenTypeOK
  <2>3. row \in Nat
    BY <2>2
  <2>4. CellAt(row) \in Cell
    BY <2>3, CellAtTyped
  <2>5. details' \in [open : BOOLEAN, row : Nat, movie : Movie \cup {NoMovie}]
    BY <2>1, <2>3, <2>4 DEF DidSelectRow, Cell
  <2> QED BY <2>1, <2>5
          DEF DidSelectRow, ServiceTypeOK, SourceTypeOK, ScreenTypeOK, HandlerOK,
              serviceVars, sourceVars
<1>13. CASE CloseDetails
  BY <1>13 DEF CloseDetails, NoDetails, ServiceTypeOK, SourceTypeOK, ScreenTypeOK,
               HandlerOK, serviceVars, sourceVars
<1>14. CASE PopScreen \/ ReleaseScreen \/ Trap
  <2>1. owner' \in {"popped", "released", "crashed"}
    BY <1>14 DEF PopScreen, ReleaseScreen, Trap
  <2>2. UNCHANGED <<serviceVars, movies, page, delegate, handler, screenVars>>
    BY <1>14 DEF PopScreen, ReleaseScreen, Trap
  <2> QED BY <2>1, <2>2
          DEF ServiceTypeOK, SourceTypeOK, ScreenTypeOK, HandlerOK, serviceVars, screenVars
<1>15. CASE UNCHANGED vars
  BY <1>15 DEF vars, ServiceTypeOK, SourceTypeOK, ScreenTypeOK, HandlerOK,
               serviceVars, sourceVars
<1>16. CASE StartFetch
  <2>1. main.page \in Nat \ {0}
    BY <1>16, <1>m DEF StartFetch, MainIs, ScreenTypeOK
  <2>2. ServiceTypeOK' /\ Len(tasks') >= Len(tasks) /\ Len(tasks) \in Nat /\ Len(tasks') \in Nat
    <3>1. CASE UNCHANGED serviceVars
      BY <3>1, LenProperties DEF ServiceTypeOK, serviceVars
    <3>2. CASE StartTask(main.page)
      BY <3>2, <2>1, StartTaskEffect
    <3> QED BY <1>16, <3>1, <3>2, FetchCases DEF StartFetch
  <2>3. SourceTypeOK' /\ HandlerOK'
    BY <1>16, <2>2 DEF StartFetch, SourceTypeOK, HandlerOK, sourceVars
  <2>4. ScreenTypeOK'
    BY <1>16 DEF StartFetch, ScreenTypeOK
  <2> QED BY <2>2, <2>3, <2>4
<1> QED BY <1>1, <1>2, <1>3, <1>4, <1>5, <1>6, <1>10, <1>11, <1>12, <1>13, <1>14, <1>15,
           <1>16
        DEF Next, DelegateQueue, RunLoop, User

(* Every variable has its type in every reachable state: the service's     *)
(* task list and queue, the data source's rows and handler, the screen.    *)
THEOREM TypeCorrect == Spec => []TypeOK
<1>1. TypeInv => TypeOK
  BY DEF TypeInv
<1> QED BY <1>1, TypeInvInit, TypeInvStep, PTL DEF Spec

-----------------------------------------------------------------------------
(* Rows are only added, at the end *)

(* Everything but an append and a store leaves the rows alone. *)
LEMMA RowsUntouched ==
    ASSUME [Next]_vars, ~AppendMovies, ~StorePoster
    PROVE  movies' = movies
<1>1. CASE Running /\ HandlerStep /\ UNCHANGED screenVars
  BY Zenon, <1>1 DEF HandlerStep, BeginMovies, BumpPage, LoopStep, LoopEnds, BeginPosters, ImageFromURL
<1>2. CASE Network \/ (Running /\ Notify)
  BY <1>2 DEF Network, Notify, NotifyDelegate, sourceVars
<1>3. CASE RunLoop
  BY <1>3 DEF RunLoop, ViewDidLoad, ReloadData, LoadDataSource, StartFetch, ReleaseScreen,
              sourceVars
<1>4. CASE User \/ Trap
  BY <1>4 DEF User, CellForRow, PrefetchRows, DidSelectRow, CloseDetails, PopScreen, Trap,
              sourceVars
<1>5. CASE UNCHANGED vars
  BY <1>5 DEF vars, sourceVars
<1> QED BY <1>1, <1>2, <1>3, <1>4, <1>5 DEF Next, DelegateQueue

LEMMA RowsKeptStep ==
    ASSUME TypeInv, [Next]_vars
    PROVE  RowsKept
<1>1. Len(movies) \in Nat
  BY LenProperties DEF TypeInv, TypeOK, SourceTypeOK
<1>2. CASE AppendMovies
  BY <1>2, AppendEffect DEF RowsKept
<1>3. CASE StorePoster
  BY <1>3, StoreEffect DEF RowsKept
<1>4. CASE ~AppendMovies /\ ~StorePoster
  BY <1>1, <1>4, RowsUntouched DEF RowsKept
<1> QED BY <1>2, <1>3, <1>4

(* An index path that named a movie names it for ever. *)
THEOREM IndexPathsValid == Spec => IndexPathsStayValid
BY TypeInvInit, TypeInvStep, RowsKeptStep, PTL DEF Spec, IndexPathsStayValid

-----------------------------------------------------------------------------
(* The order of the pages *)

LEMMA OrderInvInit == Init => OrderInv
<1> SUFFICES ASSUME Init PROVE OrderInv
  OBVIOUS
<1>1. /\ Len(tasks) = 1 /\ tasks[1] = NewTask(1)
      /\ Len(delegateQueue) = 0 /\ Len(movies) = 0 /\ page = 1
      /\ handler.at = "idle" /\ main.at = "init"
  BY DEF Init, SourceInit, ServiceInit, Idle
<1>2. NewTask(1).page = 1 /\ NewTask(1).state = "running"
  BY DEF NewTask
<1> QED BY <1>1, <1>2 DEF OrderInv, TasksInOrder, QueueInOrder, PagesRequested, NoPageAbove,
                          RowsBehind, SortedByPage

(* Numbers the order is about *)
LEMMA OrderTypes ==
    ASSUME TypeInv
    PROVE  /\ Len(tasks) \in Nat /\ Len(movies) \in Nat /\ Len(delegateQueue) \in Nat
           /\ page \in Nat /\ main.page \in Nat
           /\ \A t \in 1..Len(tasks) : tasks[t] \in Task /\ tasks[t].page \in Nat
           /\ \A k \in 1..Len(movies) : movies[k] \in Row /\ movies[k].movie.page \in Nat
           /\ \A i \in 1..Len(delegateQueue) : delegateQueue[i] \in 1..Len(tasks)
           /\ handler.at = "append" => handler.task \in 1..Len(tasks)
<1>1. /\ tasks \in Seq(Task) /\ movies \in Seq(Row) /\ delegateQueue \in Seq(1..Len(tasks))
      /\ page \in Nat /\ main.page \in Nat
  BY DEF TypeInv, TypeOK, ServiceTypeOK, SourceTypeOK, ScreenTypeOK
<1>2. \A t \in 1..Len(tasks) : tasks[t] \in Task
  BY <1>1, ElementOfSeq
<1>3. \A k \in 1..Len(movies) : movies[k] \in Row
  BY <1>1, ElementOfSeq
<1>4. \A i \in 1..Len(delegateQueue) : delegateQueue[i] \in 1..Len(tasks)
  BY <1>1, ElementOfSeq
<1>5. Len(tasks) \in Nat /\ Len(movies) \in Nat /\ Len(delegateQueue) \in Nat
  BY <1>1, LenProperties
<1>6. \A t \in 1..Len(tasks) : tasks[t].page \in Nat
  BY <1>2 DEF Task
<1>7. \A k \in 1..Len(movies) : movies[k].movie.page \in Nat
  BY <1>3, CatalogueAssumption DEF Row, Movie
<1>8. handler.at = "append" => handler.task \in 1..Len(tasks)
  BY DEF TypeInv, HandlerOK
<1> QED BY <1>1, <1>2, <1>3, <1>4, <1>5, <1>6, <1>7, <1>8

(* A step that starts, ends and appends nothing keeps the order. *)
LEMMA OrderQuiet ==
    ASSUME TypeInv, OrderInv, TypeInv',
           UNCHANGED <<tasks, delegateQueue>>,
           page <= page',
           Len(movies') = Len(movies),
           \A k \in 1..Len(movies) : movies'[k].movie = movies[k].movie,
           handler'.at = "append" => handler.at = "append" /\ handler'.task = handler.task,
           main'.at = "fetch" => main' = main
    PROVE  OrderInv'
<1>1. TasksInOrder' /\ QueueInOrder'
  BY DEF OrderInv, TasksInOrder, QueueInOrder
<1>2. RowsBehind'
  BY DEF OrderInv, RowsBehind
<1>3. SortedByPage'
  BY DEF OrderInv, SortedByPage
<1>4. page' \in Nat
  BY OrderTypes DEF TypeInv, TypeOK, SourceTypeOK
<1>5. PagesRequested'
  <2>1. NoPageAbove(page) /\ (main.at = "fetch" => NoPageAbove(main.page) /\ main.page <= page)
    BY DEF OrderInv, PagesRequested
  <2>2. /\ \A t \in 1..Len(tasks) : tasks[t].page <= page'
        /\ \A k \in 1..Len(movies) : movies[k].movie.page <= page'
    <3>1. \A x \in Nat : x <= page => x <= page'
      BY <1>4, OrderTypes
    <3>2. /\ \A t \in 1..Len(tasks) : tasks[t].page \in Nat /\ tasks[t].page <= page
          /\ \A k \in 1..Len(movies) :
                movies[k].movie.page \in Nat /\ movies[k].movie.page <= page
      BY <2>1, OrderTypes DEF NoPageAbove
    <3> QED BY <3>1, <3>2
  <2>3. NoPageAbove(page)'
    BY <2>2 DEF NoPageAbove
  <2>4. main'.at = "fetch" => NoPageAbove(main.page)' /\ main'.page <= page'
    BY <1>4, <2>1, OrderTypes DEF NoPageAbove
  <2> QED BY <2>3, <2>4 DEF PagesRequested
<1> QED BY <1>1, <1>2, <1>3, <1>5 DEF OrderInv

(* A transfer that ends is the one of the last task, so its handler queues *)
(* up behind all others.                                                   *)
LEMMA OrderNetwork ==
    ASSUME TypeInv, OrderInv, Network
    PROVE  OrderInv'
<1> USE OrderTypes
<1>1. /\ Len(tasks') = Len(tasks)
      /\ \A t \in 1..Len(tasks) :
            /\ tasks'[t].page = tasks[t].page
            /\ tasks[t].result # "none" => tasks'[t].result # "none"
            /\ tasks'[t].state = tasks[t].state \/ tasks[t].result # "none"
      /\ UNCHANGED <<movies, page, handler, main>>
  BY NetworkEffect DEF Network, TypeInv, TypeOK, sourceVars, screenVars
<1>2. TasksInOrder'
  <2>1. ASSUME NEW s \in 1..Len(tasks), NEW t \in 1..Len(tasks), s < t
        PROVE  tasks'[s].result # "none" /\ tasks'[s].page <= tasks'[t].page
    <3>1. tasks[s].result # "none" /\ tasks[s].page <= tasks[t].page
      BY <2>1 DEF OrderInv, TasksInOrder
    <3> QED BY <1>1, <3>1
  <2>2. ASSUME NEW t \in 1..Len(tasks), tasks'[t].state = "completed"
        PROVE  tasks'[t].result # "none"
    <3>1. tasks[t].result # "none"
      BY <1>1, <2>2 DEF OrderInv, TasksInOrder
    <3> QED BY <1>1, <3>1
  <2> QED BY <1>1, <2>1, <2>2 DEF TasksInOrder
<1>3. PagesRequested' /\ SortedByPage'
  BY <1>1 DEF OrderInv, PagesRequested, NoPageAbove, SortedByPage
<1>4. CASE delegateQueue' = delegateQueue
  <2>1. QueueInOrder'
    BY <1>1, <1>4 DEF OrderInv, QueueInOrder
  <2>2. RowsBehind'
    BY <1>1, <1>4 DEF OrderInv, RowsBehind
  <2> QED BY <1>2, <1>3, <2>1, <2>2 DEF OrderInv
<1>5. ASSUME NEW t \in 1..Len(tasks), tasks[t].result = "none", tasks'[t].result # "none",
             delegateQueue' = Append(delegateQueue, t)
      PROVE  OrderInv'
  <2> DEFINE n == Len(delegateQueue)
  <2>1. /\ n \in Nat
        /\ Len(delegateQueue') = n + 1
        /\ \A i \in 1..n : delegateQueue'[i] = delegateQueue[i]
        /\ delegateQueue'[n + 1] = t
    BY <1>5 DEF TypeInv, TypeOK, ServiceTypeOK
  <2>2. \A s \in 1..Len(tasks) : tasks[s].result # "none" => s < t
    BY <1>5 DEF OrderInv, TasksInOrder
  <2>3. \A i \in 1..n : delegateQueue[i] < t
    BY <2>2 DEF OrderInv, QueueInOrder
  <2>4. handler.at = "append" => handler.task < t
    BY <2>2 DEF OrderInv, QueueInOrder
  <2> HIDE DEF n
  <2>5. \A i \in 1..n + 1 : i \in 1..n \/ i = n + 1
    BY <2>1
  <2>6. QueueInOrder'
    <3>1. \A i \in 1..n + 1 : tasks'[delegateQueue'[i]].result # "none"
      BY ZenonT(60), <1>1, <1>5, <2>1, <2>5 DEF OrderInv, QueueInOrder, n
    <3>2. \A i, j \in 1..n + 1 : i < j => delegateQueue'[i] < delegateQueue'[j]
      <4> SUFFICES ASSUME NEW i \in 1..n + 1, NEW j \in 1..n + 1, i < j
                   PROVE  delegateQueue'[i] < delegateQueue'[j]
        OBVIOUS
      <4>1. i \in 1..n
        BY <2>1
      <4>2. CASE j \in 1..n
        BY <2>1, <4>1, <4>2 DEF OrderInv, QueueInOrder, n
      <4>3. CASE j = n + 1
        BY <2>1, <2>3, <4>1, <4>3
      <4> QED BY <2>5, <4>2, <4>3
    <3>3. handler.at = "append" => \A i \in 1..n + 1 : handler.task < delegateQueue'[i]
      BY <2>1, <2>4, <2>5 DEF OrderInv, QueueInOrder, n
    <3> QED BY <1>1, <2>1, <3>1, <3>2, <3>3 DEF OrderInv, QueueInOrder
  <2>7. RowsBehind'
    <3>1. \A k \in 1..Len(movies), i \in 1..n + 1 :
              movies[k].movie.page <= tasks[delegateQueue'[i]].page
      BY <1>5, <2>1, <2>5 DEF OrderInv, RowsBehind, n
    <3>2. \A i \in 1..n + 1 : delegateQueue'[i] \in 1..Len(tasks)
      BY <1>5, <2>1, <2>5 DEF n
    <3> QED BY <1>1, <2>1, <3>1, <3>2 DEF OrderInv, RowsBehind
  <2> QED BY <1>2, <1>3, <2>6, <2>7 DEF OrderInv
<1>6. \/ delegateQueue' = delegateQueue
      \/ \E t \in 1..Len(tasks) :
            /\ tasks[t].result = "none"
            /\ tasks'[t].result # "none"
            /\ delegateQueue' = Append(delegateQueue, t)
  BY NetworkEffect DEF Network, TypeInv, TypeOK
<1> QED BY <1>4, <1>5, <1>6

(* A new task is for a page no lower than any before, and the guard has    *)
(* seen the transfer of the last one ended.                                *)
LEMMA OrderStartFetch ==
    ASSUME TypeInv, OrderInv, StartFetch
    PROVE  OrderInv'
<1> USE OrderTypes
<1>1. /\ UNCHANGED <<movies, page, handler>> /\ main'.at = "idle"
      /\ main.at = "fetch" /\ main.page \in Nat \ {0}
  BY DEF StartFetch, MainIs, sourceVars, TypeInv, TypeOK, ScreenTypeOK
<1>2. CASE UNCHANGED serviceVars
  BY <1>1, <1>2 DEF serviceVars, OrderInv, TasksInOrder, QueueInOrder, PagesRequested,
                    NoPageAbove, RowsBehind, SortedByPage
<1>3. CASE ~FetchRunning /\ StartTask(main.page)
  <2> DEFINE n == Len(tasks)
  <2>1. /\ n \in Nat
        /\ Len(tasks') = n + 1
        /\ \A t \in 1..n : tasks'[t] = tasks[t]
        /\ tasks'[n + 1] = NewTask(main.page)
        /\ delegateQueue' = delegateQueue
    BY <1>1, <1>3, StartTaskEffect DEF TypeInv, TypeOK
  <2>2. tasks'[n + 1].page = main.page /\ tasks'[n + 1].state = "running"
        /\ tasks'[n + 1].result = "none"
    BY <2>1 DEF NewTask
  <2>3. \A t \in 1..n : tasks[t].result # "none"
    <3>1. n > 0 => tasks[n].state = "completed"
      <4>1. ASSUME n > 0 PROVE tasks # <<>> /\ tasks[n] \in Task
        BY <4>1
      <4> QED BY <1>3, <4>1 DEF FetchRunning, Task
    <3>2. n > 0 => tasks[n].result # "none"
      BY <3>1 DEF OrderInv, TasksInOrder
    <3> QED BY <3>2 DEF OrderInv, TasksInOrder
  <2>4. NoPageAbove(main.page) /\ main.page <= page
    BY <1>1 DEF OrderInv, PagesRequested
  <2> HIDE DEF n
  <2>5. \A t \in 1..n + 1 : t \in 1..n \/ t = n + 1
    BY <2>1
  <2>6. TasksInOrder'
    <3>1. \A s, t \in 1..n + 1 :
              s < t => tasks'[s].result # "none" /\ tasks'[s].page <= tasks'[t].page
      <4> SUFFICES ASSUME NEW s \in 1..n + 1, NEW t \in 1..n + 1, s < t
                   PROVE  tasks'[s].result # "none" /\ tasks'[s].page <= tasks'[t].page
        OBVIOUS
      <4>1. s \in 1..n
        BY <2>1
      <4>2. CASE t \in 1..n
        BY <2>1, <4>1, <4>2 DEF OrderInv, TasksInOrder, n
      <4>3. CASE t = n + 1
        BY <2>1, <2>2, <2>3, <2>4, <4>1, <4>3 DEF NoPageAbove, n
      <4> QED BY <2>5, <4>2, <4>3
    <3>2. \A t \in 1..n + 1 : tasks'[t].state = "completed" => tasks'[t].result # "none"
      BY <2>1, <2>2, <2>5 DEF OrderInv, TasksInOrder, n
    <3> QED BY <2>1, <3>1, <3>2 DEF TasksInOrder
  <2>7. QueueInOrder'
    BY <1>1, <2>1 DEF OrderInv, QueueInOrder, n
  <2>8. PagesRequested'
    BY <1>1, <2>1, <2>2, <2>4, <2>5 DEF OrderInv, PagesRequested, NoPageAbove, n
  <2>9. RowsBehind'
    <3>1. \A k \in 1..Len(movies), t \in 1..n + 1 :
              tasks'[t].result = "none" => movies[k].movie.page <= tasks'[t].page
      <4> SUFFICES ASSUME NEW k \in 1..Len(movies), NEW t \in 1..n + 1,
                          tasks'[t].result = "none"
                   PROVE  movies[k].movie.page <= tasks'[t].page
        OBVIOUS
      <4>1. t = n + 1
        BY <2>1, <2>3, <2>5
      <4> QED BY <2>2, <2>4, <4>1 DEF NoPageAbove
    <3>2. \A i \in 1..Len(delegateQueue) : tasks'[delegateQueue[i]] = tasks[delegateQueue[i]]
      BY <2>1 DEF n
    <3>3. handler.at = "append" => tasks'[handler.task] = tasks[handler.task]
      BY <2>1 DEF n
    <3> QED BY SMTT(30), <1>1, <2>1, <3>1, <3>2, <3>3 DEF OrderInv, RowsBehind
  <2> QED BY <1>1, <2>6, <2>7, <2>8, <2>9 DEF OrderInv, SortedByPage
<1> QED BY <1>2, <1>3, FetchCases DEF StartFetch

LEMMA OrderBeginMovies ==
    ASSUME TypeInv, OrderInv, BeginMovies, main' = main
    PROVE  OrderInv'
<1> USE OrderTypes
<1> DEFINE n == Len(delegateQueue)
<1>1. /\ n \in Nat \ {0}
      /\ Len(delegateQueue') = n - 1
      /\ \A i \in 1..n - 1 : delegateQueue'[i] = delegateQueue[i + 1]
      /\ Head(delegateQueue) = delegateQueue[1]
  BY HeadTailProperties DEF BeginMovies, TypeInv, TypeOK, ServiceTypeOK
<1>2. UNCHANGED <<tasks, movies, page>>
  BY DEF BeginMovies
<1>3. handler'.at = "append" => handler'.task = delegateQueue[1]
  BY <1>1 DEF BeginMovies, FirstStep, Idle
<1> HIDE DEF n
<1>4. \A i \in 1..n - 1 : i \in Nat /\ i + 1 \in 1..n /\ 1 \in 1..n /\ 1 < i + 1
  BY <1>1
<1>5. QueueInOrder'
  <2>1. \A i \in 1..n - 1 : tasks[delegateQueue'[i]].result # "none"
    BY <1>1, <1>4 DEF OrderInv, QueueInOrder, n
  <2>2. \A i, j \in 1..n - 1 : i < j => delegateQueue'[i] < delegateQueue'[j]
    <3> SUFFICES ASSUME NEW i \in 1..n - 1, NEW j \in 1..n - 1, i < j
                 PROVE  delegateQueue[i + 1] < delegateQueue[j + 1]
      BY <1>1
    <3>1. i + 1 < j + 1
      BY <1>4
    <3> QED BY <1>4, <3>1 DEF OrderInv, QueueInOrder, n
  <2>3. \A i \in 1..n - 1 : delegateQueue[1] < delegateQueue'[i]
    BY <1>1, <1>4 DEF OrderInv, QueueInOrder, n
  <2>4. tasks[delegateQueue[1]].result # "none"
    BY <1>1 DEF OrderInv, QueueInOrder, n
  <2> QED BY <1>1, <1>2, <1>3, <2>1, <2>2, <2>3, <2>4 DEF QueueInOrder
<1>6. RowsBehind'
  <2>1. \A k \in 1..Len(movies) : movies[k].movie.page <= tasks[delegateQueue[1]].page
    BY <1>1 DEF OrderInv, RowsBehind, n
  <2>2. \A k \in 1..Len(movies), i \in 1..n - 1 :
            movies[k].movie.page <= tasks[delegateQueue'[i]].page
    BY <1>1, <1>4 DEF OrderInv, RowsBehind, n
  <2> QED BY <1>1, <1>2, <1>3, <2>1, <2>2 DEF OrderInv, RowsBehind
<1> QED BY <1>2, <1>5, <1>6
        DEF OrderInv, TasksInOrder, PagesRequested, NoPageAbove, SortedByPage

(* The rows appended are of a page no lower than the rows there are and no *)
(* higher than the pages that follow.                                      *)
LEMMA OrderAppend ==
    ASSUME TypeInv, OrderInv, AppendMovies, main' = main
    PROVE  OrderInv'
<1> USE OrderTypes
<1> DEFINE q == tasks[handler.task].page
           m == Len(movies)
<1>1. /\ m \in Nat /\ Len(movies') \in Nat /\ m <= Len(movies') /\ q \in Nat
      /\ \A i \in 1..m : movies'[i] = movies[i]
      /\ \A i \in 1..Len(movies') : i > m => movies'[i].movie.page = q
  BY AppendEffect
<1>2. /\ UNCHANGED <<tasks, delegateQueue, page>>
      /\ handler.at = "append" /\ handler'.at = "bump" /\ handler.task \in 1..Len(tasks)
  BY DEF AppendMovies, serviceVars, TypeInv, TypeOK, SourceTypeOK, Handler
<1>3. \A k \in 1..m : movies[k].movie.page <= q
  BY <1>2 DEF OrderInv, RowsBehind
<1>4. \A t \in 1..Len(tasks) : tasks[t].result = "none" => q <= tasks[t].page
  <2> SUFFICES ASSUME NEW t \in 1..Len(tasks), tasks[t].result = "none"
               PROVE  q <= tasks[t].page
    OBVIOUS
  <2>1. handler.task # t
    BY <1>2 DEF OrderInv, QueueInOrder
  <2>2. handler.task < t
    BY <1>2, <2>1 DEF OrderInv, TasksInOrder
  <2> QED BY <1>2, <2>2 DEF OrderInv, TasksInOrder
<1>5. \A i \in 1..Len(delegateQueue) : q <= tasks[delegateQueue[i]].page
  BY <1>2 DEF OrderInv, TasksInOrder, QueueInOrder
<1>6. q <= page /\ (main.at = "fetch" => q <= main.page)
  BY <1>2 DEF OrderInv, PagesRequested, NoPageAbove
<1> HIDE DEF q, m
<1>7. \A i \in 1..Len(movies') : i \in 1..m \/ (i > m /\ movies'[i].movie.page = q)
  BY <1>1
<1>8. TasksInOrder' /\ QueueInOrder'
  BY <1>2 DEF OrderInv, TasksInOrder, QueueInOrder
<1>9. RowsBehind'
  BY ZenonT(60), <1>1, <1>2, <1>4, <1>5, <1>7 DEF OrderInv, RowsBehind, m
<1>10. PagesRequested'
  BY <1>1, <1>2, <1>6, <1>7 DEF OrderInv, PagesRequested, NoPageAbove, m
<1>11. SortedByPage'
  <2> SUFFICES ASSUME NEW i \in 1..Len(movies'), NEW j \in 1..Len(movies'), i < j
               PROVE  movies'[i].movie.page <= movies'[j].movie.page
    BY DEF SortedByPage
  <2>1. CASE j \in 1..m
    <3>1. i \in 1..m /\ j \in 1..m
      BY <1>1, <2>1
    <3>2. movies[i].movie.page <= movies[j].movie.page
      BY <3>1 DEF OrderInv, SortedByPage, m
    <3> QED BY <1>1, <3>1, <3>2
  <2>2. CASE j > m /\ movies'[j].movie.page = q
    BY <1>1, <1>3, <1>7, <2>2
  <2> QED BY <1>7, <2>1, <2>2
<1> QED BY <1>8, <1>9, <1>10, <1>11 DEF OrderInv

LEMMA OrderLoad ==
    ASSUME TypeInv, OrderInv, LoadDataSource
    PROVE  OrderInv'
<1>1. UNCHANGED <<tasks, delegateQueue, movies, page, handler>> /\ main'.page = page
  BY DEF LoadDataSource, serviceVars, sourceVars
<1> QED BY <1>1, OrderTypes
        DEF OrderInv, TasksInOrder, QueueInOrder, PagesRequested, NoPageAbove, RowsBehind,
            SortedByPage

LEMMA OrderInvStep ==
    ASSUME TypeInv, OrderInv, [Next]_vars, TypeInv'
    PROVE  OrderInv'
<1> DEFINE Quiet ==
        /\ UNCHANGED <<tasks, delegateQueue>>
        /\ page <= page'
        /\ Len(movies') = Len(movies)
        /\ \A k \in 1..Len(movies) : movies'[k].movie = movies[k].movie
        /\ handler'.at = "append" => handler.at = "append" /\ handler'.task = handler.task
        /\ main'.at = "fetch" => main' = main
<1>q. Quiet => OrderInv'
  BY OrderQuiet
<1>p. page \in Nat /\ page <= page
  BY OrderTypes
<1>h. handler \in Handler /\ main \in [at : {"init", "idle", "load", "fetch"}, page : Nat]
  BY DEF TypeInv, TypeOK, SourceTypeOK, ScreenTypeOK
<1>d. PosterDone.at # "append" /\ NextRow.at # "append"
  BY <1>h, IdleTyped DEF PosterDone, NextRow, Handler
<1>1. CASE Network
  BY <1>1, OrderNetwork
<1>2. CASE BeginMovies /\ UNCHANGED screenVars
  BY <1>2, OrderBeginMovies DEF screenVars
<1>3. CASE AppendMovies /\ UNCHANGED screenVars
  BY <1>3, OrderAppend DEF screenVars
<1>4. CASE StartFetch
  BY <1>4, OrderStartFetch
<1>5. CASE LoadDataSource
  BY <1>5, OrderLoad
<1>6. CASE BumpPage /\ UNCHANGED screenVars
  <2>1. page <= page'
    BY <1>6, <1>p DEF BumpPage, NextPage
  <2>2. handler'.at = "loop"
    BY <1>6, <1>h DEF BumpPage, Handler
  <2> QED BY <1>6, <1>q, <2>1, <2>2 DEF BumpPage, serviceVars, screenVars
<1>7. CASE LoopStep /\ UNCHANGED screenVars
  <2>1. handler'.at \in {"loop", "image"}
    BY <1>7, <1>h DEF LoopStep, NextRow, Handler
  <2> QED BY <1>7, <1>p, <1>q, <2>1 DEF LoopStep, GetMoviePoster, serviceVars, screenVars
<1>8. CASE LoopEnds /\ UNCHANGED screenVars
  BY <1>8, <1>p, <1>q, IdleTyped DEF LoopEnds, serviceVars, screenVars
<1>9. CASE (\E r \in posterRequests, failed \in BOOLEAN : BeginPosters(r, failed))
             /\ UNCHANGED screenVars
  <2>1. PICK r \in posterRequests, failed \in BOOLEAN : BeginPosters(r, failed)
    BY <1>9
  <2>2. handler'.at \in {"idle", "image"}
    BY <2>1 DEF BeginPosters, Idle
  <2> QED BY <1>9, <1>p, <1>q, <2>1, <2>2 DEF BeginPosters, screenVars
<1>10. CASE (\E failed \in BOOLEAN : ImageFromURL(failed)) /\ UNCHANGED screenVars
  <2>1. PICK failed \in BOOLEAN : ImageFromURL(failed)
    BY <1>10
  <2>2. handler'.at # "append"
    BY <1>h, <1>d, <2>1 DEF ImageFromURL, Handler
  <2> QED BY <1>10, <1>p, <1>q, <2>1, <2>2 DEF ImageFromURL, screenVars
<1>11. CASE StorePoster /\ UNCHANGED screenVars
  <2>1. handler'.at = "notify"
    BY <1>11, <1>h DEF StorePoster, Handler
  <2>2. Len(movies') = Len(movies) /\ \A k \in 1..Len(movies) : movies'[k].movie = movies[k].movie
    BY <1>11, StoreEffect
  <2> QED BY <1>11, <1>p, <1>q, <2>1, <2>2 DEF StorePoster, serviceVars, screenVars
<1>12. CASE Notify
  BY <1>12, <1>p, <1>q, <1>d DEF Notify, NotifyDelegate, serviceVars
<1>13. CASE ViewDidLoad
  <2>1. main'.at = "idle"
    BY <1>13, <1>h DEF ViewDidLoad
  <2> QED BY <1>13, <1>p, <1>q, <2>1 DEF ViewDidLoad, serviceVars
<1>14. CASE ReloadData \/ ReleaseScreen \/ Trap \/ CloseDetails \/ PopScreen
  BY <1>14, <1>p, <1>q
     DEF ReloadData, ReleaseScreen, Trap, CloseDetails, PopScreen, serviceVars, sourceVars,
         screenVars
<1>15. CASE \E row \in 0..Len(shown) - 1 : CellForRow(row) \/ DidSelectRow(row)
  BY <1>15, <1>p, <1>q DEF CellForRow, DidSelectRow, serviceVars, sourceVars
<1>16. CASE \E row \in 0..Len(shown) - 1 : PrefetchRows(row)
  <2>1. main'.at = "load" /\ UNCHANGED <<serviceVars, sourceVars>>
    BY <1>16, <1>h DEF PrefetchRows
  <2> QED BY <1>p, <1>q, <2>1 DEF serviceVars, sourceVars
<1>17. CASE UNCHANGED vars
  BY <1>17, <1>p, <1>q DEF vars, serviceVars, sourceVars
<1> HIDE DEF Quiet
<1> QED BY <1>1, <1>2, <1>3, <1>4, <1>5, <1>6, <1>7, <1>8, <1>9, <1>10, <1>11, <1>12, <1>13,
           <1>14, <1>15, <1>16, <1>17
        DEF Next, DelegateQueue, RunLoop, User, HandlerStep

(* However transfers, handlers, callbacks and taps interleave, the rows    *)
(* are sorted by page.                                                     *)
THEOREM RowsSorted == Spec => []SortedByPage
<1>1. Init => TypeInv /\ OrderInv
  BY TypeInvInit, OrderInvInit
<1>2. TypeInv /\ OrderInv /\ [Next]_vars => (TypeInv /\ OrderInv)'
  BY TypeInvStep, OrderInvStep
<1>3. OrderInv => SortedByPage
  BY DEF OrderInv
<1> QED BY <1>1, <1>2, <1>3, PTL DEF Spec

(* The guard of getMovies and search admits one transfer at a time. *)
THEOREM OneTransfer == Spec => []OneTransferAtATime
<1>1. Init => TypeInv /\ OrderInv
  BY TypeInvInit, OrderInvInit
<1>2. TypeInv /\ OrderInv /\ [Next]_vars => (TypeInv /\ OrderInv)'
  BY TypeInvStep, OrderInvStep
<1>3. TypeInv /\ OrderInv => OneTransferAtATime
  BY OrderTypes DEF OrderInv, TasksInOrder, OneTransferAtATime
<1> QED BY <1>1, <1>2, <1>3, PTL DEF Spec

-----------------------------------------------------------------------------
(* Posters and their rows *)

LEMMA PosterInvInit == Init => PosterInv
BY DEF Init, SourceInit, ServiceInit, Idle, PosterInv, PostersOnTheirWay, PosterBelongsToRow

(* An open request stays good, because its index path does. *)
LEMMA RequestsKept ==
    ASSUME TypeInv, TypeInv', PosterInv, RowsKept, NEW r \in posterRequests
    PROVE  r.row < Len(movies') /\ movies'[r.row + 1].movie = r.movie
<1>1. r.row \in Nat /\ Len(movies) \in Nat /\ Len(movies') \in Nat
  BY LenProperties DEF TypeInv, TypeOK, ServiceTypeOK, SourceTypeOK, PosterRequest
<1>2. r.row < Len(movies) /\ movies[r.row + 1].movie = r.movie
  BY DEF PosterInv, PostersOnTheirWay
<1>3. r.row + 1 \in 1..Len(movies)
  BY <1>1, <1>2
<1> QED BY <1>1, <1>2, <1>3 DEF RowsKept

LEMMA PosterInvStep ==
    ASSUME TypeInv, PosterInv, [Next]_vars, TypeInv'
    PROVE  PosterInv'
<1>k. RowsKept
  BY RowsKeptStep
<1>r. \A r \in posterRequests : r.row < Len(movies') /\ movies'[r.row + 1].movie = r.movie
  BY <1>k, RequestsKept
<1>h. /\ handler \in Handler /\ handler.row \in Nat /\ Len(movies) \in Nat
      /\ posterRequests \subseteq PosterRequest
  BY LenProperties DEF TypeInv, TypeOK, ServiceTypeOK, SourceTypeOK, Handler
<1>b. \A i \in 1..Len(movies) : movies[i].poster \in {movies[i].movie, NoImage}
  BY DEF PosterInv, PosterBelongsToRow
<1>1. CASE AppendMovies
  <2>1. handler'.at = "bump" /\ posterRequests' = posterRequests
    BY <1>1, <1>h DEF AppendMovies, Handler, serviceVars
  <2>2. Len(movies') \in Nat
    BY LenProperties DEF TypeInv, TypeOK, SourceTypeOK
  <2>3. \A i \in 1..Len(movies') : movies'[i].poster \in {movies'[i].movie, NoImage}
    <3> SUFFICES ASSUME NEW i \in 1..Len(movies')
                 PROVE  movies'[i].poster \in {movies'[i].movie, NoImage}
      OBVIOUS
    <3>1. CASE i > Len(movies)
      BY <1>1, <3>1, AppendEffect
    <3>2. CASE i \in 1..Len(movies)
      BY <1>1, <1>b, <3>2, AppendEffect
    <3> QED BY <1>h, <2>2, <3>1, <3>2
  <2> QED BY <1>r, <2>1, <2>3 DEF PosterInv, PostersOnTheirWay, PosterBelongsToRow
<1>2. CASE StorePoster
  <2>1. handler'.at = "notify" /\ posterRequests' = posterRequests /\ handler.at = "store"
    BY <1>2, <1>h DEF StorePoster, Handler, serviceVars
  <2>2. movies[handler.row + 1].movie = handler.image
    BY <2>1 DEF PosterInv, PostersOnTheirWay
  <2>3. PosterBelongsToRow'
    BY <1>2, <1>b, <2>2, StoreEffect DEF PosterBelongsToRow
  <2> QED BY <1>r, <2>1, <2>3 DEF PosterInv, PostersOnTheirWay
<1>3. CASE ~AppendMovies /\ ~StorePoster
  <2>1. movies' = movies
    BY <1>3, RowsUntouched
  <2>2. PosterBelongsToRow'
    BY <1>b, <2>1 DEF PosterBelongsToRow
  <2>3. CASE /\ posterRequests' \subseteq posterRequests
             /\ handler'.at \in {"image", "store"} =>
                   /\ handler.at \in {"image", "store"}
                   /\ handler'.row = handler.row /\ handler'.image = handler.image
    BY <2>1, <2>2, <2>3 DEF PosterInv, PostersOnTheirWay
  <2>4. CASE LoopStep
    <3>1. CASE ~MovieAt(handler.row)
      <4>1. posterRequests' = posterRequests /\ handler'.at = "loop"
        BY <1>h, <2>4, <3>1 DEF LoopStep, NextRow, Handler, serviceVars
      <4> QED BY <2>3, <4>1
    <3>2. CASE MovieAt(handler.row)
      <4> DEFINE movie == movies[handler.row + 1].movie
      <4>1. handler.row < Len(movies)
        BY <3>2 DEF MovieAt, InRange
      <4>2. CASE posterRequests' = posterRequests
                 /\ handler' = [handler EXCEPT !.at = "image", !.image = movie]
        <5>1. handler'.row = handler.row /\ handler'.image = movie
          BY <1>h, <4>2 DEF Handler
        <5> QED BY <2>1, <2>2, <4>1, <4>2, <5>1 DEF PosterInv, PostersOnTheirWay
      <4>3. CASE GetMoviePoster(handler.task, handler.row, movie) /\ handler' = NextRow
        <5> DEFINE new == [task |-> handler.task, row |-> handler.row, movie |-> movie]
        <5>1. posterRequests' = posterRequests \cup {new} /\ handler'.at = "loop"
          BY <1>h, <4>3 DEF GetMoviePoster, NextRow, Handler
        <5>2. new.row < Len(movies) /\ movies[new.row + 1].movie = new.movie
          BY <4>1
        <5> QED BY <2>1, <2>2, <5>1, <5>2 DEF PosterInv, PostersOnTheirWay
      <4> QED BY <2>4, <3>2, <4>2, <4>3 DEF LoopStep, serviceVars
    <3> QED BY <3>1, <3>2
  <2>5. CASE \E r \in posterRequests, failed \in BOOLEAN : BeginPosters(r, failed)
    <3>1. PICK r \in posterRequests, failed \in BOOLEAN : BeginPosters(r, failed)
      BY <2>5
    <3>2. r.row < Len(movies) /\ movies[r.row + 1].movie = r.movie
      BY DEF PosterInv, PostersOnTheirWay
    <3>3. handler'.at \in {"image", "store"} => handler'.row = r.row /\ handler'.image = r.movie
      BY <3>1 DEF BeginPosters, Idle
    <3>4. posterRequests' \subseteq posterRequests
      BY <3>1 DEF BeginPosters
    <3> QED BY <2>1, <2>2, <3>2, <3>3, <3>4 DEF PosterInv, PostersOnTheirWay
  <2>6. CASE \E failed \in BOOLEAN : ImageFromURL(failed)
    <3>1. PICK failed \in BOOLEAN : ImageFromURL(failed)
      BY <2>6
    <3>2. CASE failed
      BY <1>h, <2>3, <3>1, <3>2, IdleTyped DEF ImageFromURL, PosterDone, NextRow, Handler
    <3>3. CASE ~failed
      <4>1. handler' = [handler EXCEPT !.at = "store"] /\ handler.at = "image"
        BY <3>1, <3>3 DEF ImageFromURL
      <4>2. handler'.row = handler.row /\ handler'.image = handler.image
        BY <1>h, <4>1 DEF Handler
      <4> QED BY <2>3, <3>1, <4>1, <4>2 DEF ImageFromURL
    <3> QED BY <3>2, <3>3
  <2>7. CASE BeginMovies
    <3>1. handler'.at \in {"idle", "append"}
      BY <2>7 DEF BeginMovies, FirstStep, Idle
    <3> QED BY <2>3, <2>7, <3>1 DEF BeginMovies
  <2>8. CASE BumpPage
    <3>1. handler'.at = "loop"
      BY <1>h, <2>8 DEF BumpPage, Handler
    <3> QED BY <2>3, <2>8, <3>1 DEF BumpPage, serviceVars
  <2>9. CASE LoopEnds
    BY <2>3, <2>9, IdleTyped DEF LoopEnds, serviceVars
  <2>10. CASE Notify
    <3>1. handler'.at \in {"idle", "loop"}
      BY <1>h, <2>10, IdleTyped DEF Notify, NotifyDelegate, PosterDone, NextRow, Handler
    <3> QED BY <2>3, <2>10, <3>1 DEF Notify, NotifyDelegate, serviceVars
  <2>11. CASE UNCHANGED <<posterRequests, handler>>
    BY <2>3, <2>11
  <2>12. Network => UNCHANGED <<posterRequests, handler>>
    BY NetworkEffect DEF Network, TypeInv, TypeOK, sourceVars
  <2>13. StartFetch => UNCHANGED <<posterRequests, handler>>
    BY FetchCases DEF StartFetch, StartTask, serviceVars, sourceVars
  <2>14. ViewDidLoad \/ ReloadData \/ LoadDataSource \/ ReleaseScreen \/ Trap \/ User
             => UNCHANGED <<posterRequests, handler>>
    BY DEF ViewDidLoad, ReloadData, LoadDataSource, ReleaseScreen, Trap, User, CellForRow,
           PrefetchRows, DidSelectRow, CloseDetails, PopScreen, serviceVars, sourceVars
  <2>15. UNCHANGED vars => UNCHANGED <<posterRequests, handler>>
    BY DEF vars, serviceVars, sourceVars
  <2> QED BY <1>3, <2>4, <2>5, <2>6, <2>7, <2>8, <2>9, <2>10, <2>11, <2>12, <2>13, <2>14, <2>15
          DEF Next, DelegateQueue, RunLoop, HandlerStep
<1> QED BY <1>1, <1>2, <1>3

(* Every poster ends up in the row of its movie, although its index path   *)
(* is captured before the download.                                        *)
THEOREM PostersMatchRows == Spec => []PosterBelongsToRow
<1>1. Init => TypeInv /\ PosterInv
  BY TypeInvInit, PosterInvInit
<1>2. TypeInv /\ PosterInv /\ [Next]_vars => (TypeInv /\ PosterInv)'
  BY TypeInvStep, PosterInvStep
<1>3. PosterInv => PosterBelongsToRow
  BY DEF PosterInv
<1> QED BY <1>1, <1>2, <1>3, PTL DEF Spec

-----------------------------------------------------------------------------
(* The table and the details screen *)

LEMMA ScreenInvInit == Init => ScreenInv
BY DEF Init, SourceInit, NoDetails, ScreenInv, TableIsPrefix, TapOpensShownMovie

LEMMA ScreenInvStep ==
    ASSUME TypeInv, ScreenInv, [Next]_vars, TypeInv'
    PROVE  ScreenInv'
<1>k. RowsKept
  BY RowsKeptStep
<1>t. /\ Len(movies) \in Nat /\ Len(movies') \in Nat /\ Len(shown) \in Nat
      /\ shown \in Seq(Cell) /\ details.row \in Nat /\ movies \in Seq(Row)
  BY LenProperties DEF TypeInv, TypeOK, SourceTypeOK, ScreenTypeOK
<1>p. Len(shown) <= Len(movies) /\ \A i \in 1..Len(shown) : shown[i].movie = movies[i].movie
  BY DEF ScreenInv, TableIsPrefix
<1>1. CASE UNCHANGED shown
  <2>1. TableIsPrefix'
    BY <1>1, <1>k, <1>t, <1>p DEF RowsKept, TableIsPrefix
  <2>2. CASE UNCHANGED details
    BY <1>1, <2>1, <2>2 DEF ScreenInv, TapOpensShownMovie
  <2>3. CASE \E row \in 0..Len(shown) - 1 : DidSelectRow(row)
    <3>1. PICK row \in 0..Len(shown) - 1 : DidSelectRow(row)
      BY <2>3
    <3>2. row + 1 \in 1..Len(shown) /\ row + 1 \in 1..Len(movies) /\ row < Len(movies)
      BY <1>t, <1>p
    <3>3. movies[row + 1] \in Row
      BY <1>t, <3>2, ElementOfSeq
    <3>4. movies[row + 1].movie # NoMovie
      BY <3>3, CatalogueAssumption DEF Row, Movie, NoMovie, NoImage
    <3>5. details'.row = row /\ details'.movie = movies[row + 1].movie
      BY <3>1, <3>2 DEF DidSelectRow, CellAt, InRange
    <3>6. details'.movie = shown[row + 1].movie
      BY <1>p, <3>2, <3>5
    <3> QED BY <1>1, <1>t, <2>1, <3>2, <3>4, <3>5, <3>6 DEF ScreenInv, TapOpensShownMovie
  <2>4. CASE CloseDetails
    BY <2>1, <2>4 DEF CloseDetails, NoDetails, ScreenInv, TapOpensShownMovie
  <2>5. ~CloseDetails /\ ~(\E row \in 0..Len(shown) - 1 : DidSelectRow(row))
          => UNCHANGED details
    BY DEF Next, Network, DelegateQueue, Notify, RunLoop, User, Trap, ViewDidLoad, ReloadData,
           LoadDataSource, StartFetch, ReleaseScreen, CellForRow, PrefetchRows, PopScreen,
           screenVars, vars
  <2> QED BY <2>2, <2>3, <2>4, <2>5
<1>2. CASE ReloadData
  <2>1. shown' = movies /\ movies' = movies /\ details' = details
    BY <1>2 DEF ReloadData, sourceVars
  <2>2. TableIsPrefix'
    BY <1>t, <2>1 DEF TableIsPrefix
  <2>3. TapOpensShownMovie'
    <3> SUFFICES ASSUME details.open
                 PROVE  /\ details.row < Len(movies)
                        /\ details.movie = movies[details.row + 1].movie
                        /\ details.movie # NoMovie
      BY <2>1 DEF TapOpensShownMovie
    <3>1. /\ details.row < Len(shown)
          /\ details.movie = shown[details.row + 1].movie
          /\ details.movie # NoMovie
      BY DEF ScreenInv, TapOpensShownMovie
    <3>2. details.row + 1 \in 1..Len(shown)
      BY <1>t, <3>1
    <3> QED BY <1>t, <1>p, <3>1, <3>2
  <2> QED BY <2>2, <2>3 DEF ScreenInv
<1>3. CASE \E row \in 0..Len(shown) - 1 : CellForRow(row)
  <2>1. PICK row \in 0..Len(shown) - 1 : CellForRow(row)
    BY <1>3
  <2>2. row + 1 \in 1..Len(shown) /\ row < Len(movies)
    BY <1>t, <1>p
  <2>3. shown' = [shown EXCEPT ![row + 1] = movies[row + 1]]
    BY <2>1, <2>2 DEF CellForRow, CellAt, InRange
  <2>4. /\ Len(shown') = Len(shown)
        /\ \A j \in 1..Len(shown) :
              shown'[j] = IF j = row + 1 THEN movies[row + 1] ELSE shown[j]
    BY <1>t, <2>2, <2>3
  <2>5. \A j \in 1..Len(shown) : shown'[j].movie = shown[j].movie
    BY <1>p, <2>2, <2>4
  <2>6. movies' = movies /\ details' = details
    BY <2>1 DEF CellForRow, sourceVars
  <2>7. TableIsPrefix'
    BY <1>p, <2>4, <2>5, <2>6 DEF TableIsPrefix
  <2>8. TapOpensShownMovie'
    <3> SUFFICES ASSUME details.open
                 PROVE  /\ details.row < Len(shown)
                        /\ details.movie = shown'[details.row + 1].movie
                        /\ details.movie # NoMovie
      BY <2>4, <2>6 DEF TapOpensShownMovie
    <3>1. /\ details.row < Len(shown)
          /\ details.movie = shown[details.row + 1].movie
          /\ details.movie # NoMovie
      BY DEF ScreenInv, TapOpensShownMovie
    <3>2. details.row + 1 \in 1..Len(shown)
      BY <1>t, <3>1
    <3> QED BY <2>5, <3>1, <3>2
  <2> QED BY <2>7, <2>8 DEF ScreenInv
<1>4. ~ReloadData /\ ~(\E row \in 0..Len(shown) - 1 : CellForRow(row)) => UNCHANGED shown
  BY DEF Next, Network, DelegateQueue, Notify, RunLoop, User, Trap, ViewDidLoad,
         LoadDataSource, StartFetch, ReleaseScreen, DidSelectRow, PrefetchRows, CloseDetails,
         PopScreen, screenVars, vars
<1> QED BY <1>1, <1>2, <1>3, <1>4

(* Every row the table counts exists in the model and shows its movie. *)
THEOREM TableFollowsModel == Spec => []TableIsPrefix
<1>1. Init => TypeInv /\ ScreenInv
  BY TypeInvInit, ScreenInvInit
<1>2. TypeInv /\ ScreenInv /\ [Next]_vars => (TypeInv /\ ScreenInv)'
  BY TypeInvStep, ScreenInvStep
<1>3. ScreenInv => TableIsPrefix
  BY DEF ScreenInv
<1> QED BY <1>1, <1>2, <1>3, PTL DEF Spec

(* A tap on a row opens the movie of that row's cell, never nil. *)
THEOREM TapIsRight == Spec => []TapOpensShownMovie
<1>1. Init => TypeInv /\ ScreenInv
  BY TypeInvInit, ScreenInvInit
<1>2. TypeInv /\ ScreenInv /\ [Next]_vars => (TypeInv /\ ScreenInv)'
  BY TypeInvStep, ScreenInvStep
<1>3. ScreenInv => TapOpensShownMovie
  BY DEF ScreenInv
<1> QED BY <1>1, <1>2, <1>3, PTL DEF Spec

-----------------------------------------------------------------------------
(* The page counter *)

LEMMA OnePageMore ==
    ASSUME NEW n \in Nat
    PROVE  PageSize * (n + 1) = PageSize * n + PageSize
BY CatalogueAssumption

LEMMA CountInvInit == Init => CountInv
BY CatalogueAssumption DEF Init, SourceInit, Idle, CountInv, PageCountsLoads

LEMMA CountInvStep ==
    ASSUME TypeInv, OrderInv, CountInv, [Next]_vars
    PROVE  CountInv'
<1>t. page \in Nat \ {0} /\ Len(movies) \in Nat /\ TotalPages \in Nat /\ PageSize \in Nat
      /\ handler \in Handler
  BY OrderTypes, CatalogueAssumption DEF TypeInv, TypeOK, SourceTypeOK
<1>a. Alive' => Alive
  <2>1. CASE PopScreen \/ ReleaseScreen \/ Trap
    BY <2>1 DEF PopScreen, OnScreen, ReleaseScreen, Trap, Alive
  <2>2. CASE Running /\ (HandlerStep \/ Notify)
    BY Zenon, <2>2 DEF HandlerStep, BeginMovies, AppendMovies, BumpPage, LoopStep, LoopEnds,
                BeginPosters, ImageFromURL, StorePoster, Notify, NotifyDelegate, Alive
  <2>3. CASE Network \/ UNCHANGED vars
    BY <2>3 DEF Network, vars, sourceVars, Alive
  <2>4. CASE ViewDidLoad \/ ReloadData \/ LoadDataSource \/ StartFetch \/ CloseDetails
    BY <2>4 DEF ViewDidLoad, ReloadData, LoadDataSource, StartFetch, CloseDetails, sourceVars,
                Alive
  <2>5. CASE \E row \in 0..Len(shown) - 1 :
                CellForRow(row) \/ PrefetchRows(row) \/ DidSelectRow(row)
    BY <2>5 DEF CellForRow, PrefetchRows, DidSelectRow, sourceVars, Alive
  <2> QED BY <2>1, <2>2, <2>3, <2>4, <2>5 DEF Next, DelegateQueue, RunLoop, User
<1>1. CASE AppendMovies
  <2> DEFINE q == tasks[handler.task].page
  <2>1. handler.at = "append" /\ handler'.at = "bump" /\ page' = page
    BY <1>1, <1>t DEF AppendMovies, Handler
  <2>2. q <= page
    BY <2>1, OrderTypes DEF OrderInv, PagesRequested, NoPageAbove
  <2>3. Len(movies') = Len(movies) + (IF Alive /\ q <= TotalPages THEN PageSize ELSE 0)
    BY <1>1, AppendEffect
  <2>4. q \in Nat
    BY <1>1, AppendEffect
  <2>5. ASSUME Alive, page <= TotalPages PROVE Len(movies') = PageSize * page
    <3>1. q <= TotalPages
      BY <1>t, <2>2, <2>4, <2>5
    <3>2. Len(movies) = PageSize * (page - 1)
      BY <1>t, <2>1, <2>5 DEF CountInv, PageCountsLoads
    <3>3. PageSize * page = PageSize * (page - 1) + PageSize
      <4>1. page - 1 \in Nat /\ (page - 1) + 1 = page
        BY <1>t
      <4> QED BY <4>1, OnePageMore
    <3> QED BY <2>3, <2>5, <3>1, <3>2, <3>3
  <2> QED BY <1>a, <2>1, <2>5 DEF CountInv, PageCountsLoads
<1>2. CASE BumpPage
  <2>1. handler.at = "bump" /\ handler'.at = "loop" /\ movies' = movies
    BY <1>2, <1>t DEF BumpPage, Handler
  <2>2. ASSUME Alive', page' <= TotalPages + 1 PROVE Len(movies) = PageSize * (page' - 1)
    <3>1. page' = page + 1
      BY <1>2, <1>a, <2>2 DEF BumpPage, NextPage
    <3>2. page <= TotalPages /\ page' - 1 = page
      BY <1>t, <2>2, <3>1
    <3> QED BY <1>a, <2>1, <2>2, <3>2 DEF CountInv
  <2> QED BY <2>1, <2>2 DEF CountInv, PageCountsLoads
<1>3. CASE ~AppendMovies /\ ~BumpPage
  <2>1. Len(movies') = Len(movies)
    <3>1. CASE StorePoster
      BY <3>1, StoreEffect
    <3>2. CASE ~StorePoster
      BY <1>3, <3>2, RowsUntouched
    <3> QED BY <3>1, <3>2
  <2>2. page' = page
    BY Zenon, <1>3
       DEF Next, Network, DelegateQueue, HandlerStep, RunLoop, User, vars, sourceVars,
           BeginMovies, LoopStep, LoopEnds, BeginPosters, ImageFromURL, StorePoster, Notify,
           NotifyDelegate, ViewDidLoad, ReloadData, LoadDataSource, StartFetch, ReleaseScreen,
           CellForRow, PrefetchRows, DidSelectRow, CloseDetails, PopScreen, Trap
  <2>3. handler'.at = "bump" <=> handler.at = "bump"
    <3>1. CASE UNCHANGED handler
      BY <3>1
    <3>2. CASE HandlerStep \/ Notify
      <4>1. handler.at # "bump"
        BY Zenon, <1>3, <3>2 DEF HandlerStep, BeginMovies, LoopStep, LoopEnds, BeginPosters,
                          ImageFromURL, StorePoster, Notify, NotifyDelegate
      <4>2. handler'.at # "bump"
        BY Zenon, <1>3, <1>t, <3>2, IdleTyped
           DEF HandlerStep, BeginMovies, FirstStep, LoopStep, LoopEnds, BeginPosters,
               ImageFromURL, StorePoster, Notify, NotifyDelegate, PosterDone, NextRow, Handler,
               Idle
      <4> QED BY <4>1, <4>2
    <3>3. ~HandlerStep /\ ~Notify => UNCHANGED handler
      BY DEF Next, Network, DelegateQueue, RunLoop, User, vars, sourceVars, ViewDidLoad,
             ReloadData, LoadDataSource, StartFetch, ReleaseScreen, CellForRow, PrefetchRows,
             DidSelectRow, CloseDetails, PopScreen, Trap
    <3> QED BY <3>1, <3>2, <3>3
  <2> QED BY <1>a, <2>1, <2>2, <2>3 DEF CountInv, PageCountsLoads
<1> QED BY <1>1, <1>2, <1>3

(* The page counter is the number of pages appended, plus one: failures    *)
(* and refused requests move neither.                                      *)
THEOREM CounterIsRight == Spec => []PageCountsLoads
<1>1. Init => TypeInv /\ OrderInv /\ CountInv
  BY TypeInvInit, OrderInvInit, CountInvInit
<1>2. TypeInv /\ OrderInv /\ CountInv /\ [Next]_vars => (TypeInv /\ OrderInv /\ CountInv)'
  BY TypeInvStep, OrderInvStep, CountInvStep
<1>3. CountInv => PageCountsLoads
  BY DEF CountInv
<1> QED BY <1>1, <1>2, <1>3, PTL DEF Spec
=============================================================================
