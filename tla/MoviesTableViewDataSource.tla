---------------------- MODULE MoviesTableViewDataSource ----------------------
(***************************************************************************)
(* The model behind one movie table: the rows, the page counter and the    *)
(* completion handlers that fill them                                      *)
(* (MoviesViewer/MoviesTableViewDataSource.swift, Models/Movie.swift).     *)
(*                                                                         *)
(* The handlers run on URLSession's delegate queue, one at a time, while   *)
(* the main thread reads the same variables without a lock.  A handler is  *)
(* therefore a sequence of steps, one for each access to shared state, and *)
(* handler says which handler runs and what it does next.                  *)
(*                                                                         *)
(* The Swift rows are Movie objects; a row here is the movie it stands for *)
(* and the movie whose image is its poster.  Rows count from 0, as         *)
(* IndexPath.row does; movies[row + 1] is row's element.                   *)
(***************************************************************************)
EXTENDS MovieService

CONSTANT PrefetchMargin \* "movies.count - 5" of prefetchRowsAt

ASSUME MarginAssumption == PrefetchMargin \in Nat

VARIABLES
    movies,    \* the rows
    page,      \* the page the next request asks for
    delegate,  \* TRUE once the screen has made itself the weak delegate
    owner,     \* what keeps the data source alive: its screen is open, or
               \* popped but held by a queued reload; else it is released
    handler    \* the handler that runs on the delegate queue

sourceVars == <<movies, page, delegate, owner, handler>>

NoImage == [page |-> 0, slot |-> 0]

Row == [movie : Movie, poster : Movie \cup {NoImage}]

(* task, the request whose handler runs; row, the index path of the        *)
(* poster at hand; last, the upper end of the loop; image, the movie whose *)
(* poster is downloaded; looping, FALSE in a handler of getMoviePoster.    *)
HandlerStates == {"idle", "append", "bump", "loop", "image", "store", "notify"}

Handler == [at : HandlerStates,
            task : Nat, row : Nat, last : Nat,
            image : Movie \cup {NoImage}, looping : BOOLEAN]

Idle == [at |-> "idle", task |-> 0, row |-> 0, last |-> 0,
         image |-> NoImage, looping |-> FALSE]

SourceTypeOK ==
    /\ movies \in Seq(Row)
    /\ page \in Nat \ {0}
    /\ delegate \in BOOLEAN
    /\ owner \in {"open", "popped", "released", "crashed"}
    /\ handler \in Handler
    /\ handler.at = "idle" <=> handler = Idle
    /\ handler.looping => handler.row <= handler.last + 1

-----------------------------------------------------------------------------
(* A [weak self] that has not become nil *)
Alive == owner # "released"

InRange(row) == row < Len(movies)

(* movieAt(indexPath:) on a weak self: not nil *)
MovieAt(row) == Alive /\ InRange(row)

NewRows(list) == [i \in 1..Len(list) |-> [movie |-> list[i], poster |-> NoImage]]

NextRow == [handler EXCEPT !.at = "loop", !.row = handler.row + 1, !.image = NoImage]

(* The handler of a poster is done: on to the next row, or off the queue. *)
PosterDone == IF handler.looping THEN NextRow ELSE Idle

(* Faulty variant of FirstStep: a failed page is counted too. *)
FirstStepCountsFailures(t) == [Idle EXCEPT !.at = IF Succeeds(t)
                                                  THEN "append" ELSE "bump",
                                           !.task = t]

(* Where moviesCompletion starts for task t: a failure is printed and dropped. *)
FirstStep(t) ==
    IF Succeeds(t)
    THEN [Idle EXCEPT !.at = "append", !.task = t]
    ELSE Idle

BeginMovies ==
    /\ handler.at = "idle"
    /\ delegateQueue # <<>>
    /\ delegateQueue' = Tail(delegateQueue)
    /\ handler' = FirstStep(Head(delegateQueue))
    /\ UNCHANGED <<tasks, posterRequests, failures, movies, page, delegate, owner>>

(* Faulty variants of Appended *)
Replaced(list) == NewRows(list)
Prepended(list) == NewRows(list) \o movies

(* movies.append(contentsOf:) of fresh Movie objects, which have no poster *)
Appended(list) == movies \o NewRows(list)

AppendMovies ==
    /\ handler.at = "append"
    /\ movies' = IF Alive
                 THEN Appended(Results(tasks[handler.task].page))
                 ELSE movies
    /\ handler' = [handler EXCEPT !.at = "bump"]
    /\ UNCHANGED <<serviceVars, page, delegate, owner>>

(* Faulty variant of NextPage *)
NextPageStuck == page

NextPage == page + 1

(* page += 1, and the bounds of the loop 0...movies.count are fixed *)
BumpPage ==
    /\ handler.at = "bump"
    /\ page' = IF Alive THEN NextPage ELSE page
    /\ handler' = [handler EXCEPT !.at = "loop", !.row = 0, !.looping = TRUE,
                                  !.last = IF Alive THEN Len(movies) ELSE 0]
    /\ UNCHANGED <<serviceVars, movies, delegate, owner>>

(* Faulty variant of InLoop *)
InLoopTooFar == handler.row <= handler.last + 1

(* The loop includes its upper end, for which movieAt gives nil. *)
InLoop == handler.row <= handler.last

(* One turn of the loop: movie?.posters(completion:).  A movie with a path *)
(* is completed at once, on this queue; the others ask the service.        *)
LoopStep ==
    /\ handler.at = "loop"
    /\ InLoop
    /\ \/ /\ ~MovieAt(handler.row)
          /\ handler' = NextRow
          /\ UNCHANGED serviceVars
       \/ /\ MovieAt(handler.row)
          /\ LET movie == movies[handler.row + 1].movie IN
             \/ /\ movie \in PosterPath
                /\ handler' = [handler EXCEPT !.at = "image", !.image = movie]
                /\ UNCHANGED serviceVars
             \/ /\ movie \notin PosterPath
                /\ GetMoviePoster(handler.task, handler.row, movie)
                /\ handler' = NextRow
    /\ UNCHANGED <<movies, page, delegate, owner>>

LoopEnds ==
    /\ handler.at = "loop"
    /\ ~InLoop
    /\ handler' = Idle
    /\ UNCHANGED <<serviceVars, movies, page, delegate, owner>>

(* An answer to getMoviePoster is handled: its first poster is downloaded. *)
(* The answer waits for the queue as part of its transfer.                 *)
BeginPosters(r, failed) ==
    /\ handler.at = "idle"
    /\ Fails(failed)
    /\ posterRequests' = posterRequests \ {r}
    /\ handler' = IF ~failed /\ r.movie \in Posters
                  THEN [Idle EXCEPT !.at = "image", !.task = r.task,
                                    !.row = r.row, !.image = r.movie]
                  ELSE Idle
    /\ UNCHANGED <<tasks, delegateQueue, movies, page, delegate, owner>>

(* UIImage.image(fromURL:) blocks the queue until the bytes are there. *)
ImageFromURL(failed) ==
    /\ handler.at = "image"
    /\ Fails(failed)
    /\ handler' = IF failed THEN PosterDone ELSE [handler EXCEPT !.at = "store"]
    /\ UNCHANGED <<tasks, delegateQueue, posterRequests, movies, page, delegate, owner>>

(* Faulty variant of Stored *)
StoredInNextRow(row) == IF MovieAt(row + 1)
                        THEN [movies EXCEPT ![row + 2].poster = handler.image]
                        ELSE movies

(* movieAt(indexPath:)?.poster = image *)
Stored(row) == IF MovieAt(row)
               THEN [movies EXCEPT ![row + 1].poster = handler.image]
               ELSE movies

StorePoster ==
    /\ handler.at = "store"
    /\ movies' = Stored(handler.row)
    /\ handler' = [handler EXCEPT !.at = "notify"]
    /\ UNCHANGED <<serviceVars, page, delegate, owner>>

(* Faulty variant of Notifies: posters asked for later do not reload. *)
NotifiesInLoopOnly == handler.at = "notify" /\ Alive /\ delegate /\ handler.looping

(* self?.delegate?.dataSourceChanged(): the receiver's part is the screen's. *)
Notifies == handler.at = "notify" /\ Alive /\ delegate

NotifyDelegate ==
    /\ handler.at = "notify"
    /\ handler' = PosterDone
    /\ UNCHANGED <<serviceVars, movies, page, delegate, owner>>

(* Steps of the delegate queue that do not reach the screen *)
HandlerStep ==
    \/ BeginMovies
    \/ AppendMovies
    \/ BumpPage
    \/ LoopStep
    \/ LoopEnds
    \/ \E r \in posterRequests, failed \in BOOLEAN : BeginPosters(r, failed)
    \/ \E failed \in BOOLEAN : ImageFromURL(failed)
    \/ StorePoster

(* prefetchRowsAt: only rows close to the end of what is loaded load more. *)
NearEnd(row) == row + PrefetchMargin > Len(movies)

(* loadDataSource's last statement, for page p read before the call *)
FetchPage(p) ==
    \/ SearchScreen /\ Search(p)
    \/ ~SearchScreen /\ GetMovies(p)

(* init: loadDataSource has been called for page 1 *)
SourceInit ==
    /\ ServiceInit
    /\ movies = <<>>
    /\ page = 1
    /\ delegate = FALSE
    /\ owner = "open"
    /\ handler = Idle
=============================================================================
