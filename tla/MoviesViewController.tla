------------------------- MODULE MoviesViewController -------------------------
(***************************************************************************)
(* A screen with a movie table and its data source: the main thread        *)
(* (MoviesViewer/MoviesViewController.swift and the UITableViewDataSource  *)
(* callbacks of MoviesTableViewDataSource.swift) beside the delegate queue *)
(* of the modules below.  Every main-thread callback may run between any   *)
(* two steps of a completion handler.                                      *)
(***************************************************************************)
EXTENDS MoviesTableViewDataSource

VARIABLES
    main,     \* what the main thread does: at, and the page it has read
    reloads,  \* reloadData calls that wait on the main queue
    shown,    \* the table: the rows it counted, as its cells were filled
    details   \* the details screen on top: the tapped row and its movie

vars == <<serviceVars, sourceVars, main, reloads, shown, details>>
screenVars == <<main, reloads, shown, details>>

NoMovie == NoImage \* nil, of a movieAt out of range

Cell == [movie : Movie \cup {NoMovie}, poster : Movie \cup {NoImage}]

EmptyCell == [movie |-> NoMovie, poster |-> NoImage]

NoDetails == [open |-> FALSE, row |-> 0, movie |-> NoMovie]

ScreenTypeOK ==
    /\ main \in [at : {"init", "idle", "load", "fetch"}, page : Nat]
    /\ main.at = "fetch" => main.page > 0
    /\ reloads \in Nat
    /\ shown \in Seq(Cell)
    /\ details \in [open : BOOLEAN, row : Nat, movie : Movie \cup {NoMovie}]

TypeOK == ServiceTypeOK /\ SourceTypeOK /\ ScreenTypeOK

-----------------------------------------------------------------------------
MainIs(at) == owner # "crashed" /\ main.at = at

OnScreen == MainIs("idle") /\ owner = "open" /\ ~details.open

(* What movieAt(indexPath:) gives a cell or the details screen *)
CellAt(row) == IF InRange(row) THEN movies[row + 1] ELSE EmptyCell

(* viewDidLoad up to its end; a table given a data source loads its rows   *)
(* in its first layout.                                                    *)
ViewDidLoad ==
    /\ MainIs("init")
    /\ main' = [main EXCEPT !.at = "idle"]
    /\ delegate' = TRUE
    /\ reloads' = reloads + 1
    /\ UNCHANGED <<serviceVars, movies, page, owner, handler, shown, details>>

(* numberOfRowsInSection and cellForRowAt for the rows of the table *)
ReloadData ==
    /\ MainIs("idle")
    /\ reloads > 0
    /\ reloads' = reloads - 1
    /\ shown' = movies
    /\ UNCHANGED <<serviceVars, sourceVars, main, details>>

(* Scrolling brings a row back and its cell is filled again. *)
CellForRow(row) ==
    /\ OnScreen
    /\ shown' = [shown EXCEPT ![row + 1] = CellAt(row)]
    /\ UNCHANGED <<serviceVars, sourceVars, main, reloads, details>>

(* Scrolling makes the table prefetch up to row. *)
PrefetchRows(row) ==
    /\ OnScreen
    /\ Len(tasks) < MaxFetches
    /\ NearEnd(row)
    /\ main' = [main EXCEPT !.at = "load"]
    /\ UNCHANGED <<serviceVars, sourceVars, reloads, shown, details>>

(* loadDataSource reads self.page for the call ... *)
LoadDataSource ==
    /\ MainIs("load")
    /\ main' = [at |-> "fetch", page |-> page]
    /\ UNCHANGED <<serviceVars, sourceVars, reloads, shown, details>>

(* ... and the service looks at its task only after that. *)
StartFetch ==
    /\ MainIs("fetch")
    /\ FetchPage(main.page)
    /\ main' = [at |-> "idle", page |-> 0]
    /\ UNCHANGED <<sourceVars, reloads, shown, details>>

(* A tap on a row of the table opens the details of the model's row. *)
DidSelectRow(row) ==
    /\ OnScreen
    /\ details' = [open |-> TRUE, row |-> row, movie |-> CellAt(row).movie]
    /\ UNCHANGED <<serviceVars, sourceVars, main, reloads, shown>>

CloseDetails ==
    /\ MainIs("idle")
    /\ details.open
    /\ details' = NoDetails
    /\ UNCHANGED <<serviceVars, sourceVars, main, reloads, shown>>

(* Back from a search screen.  The home screen is never popped. *)
PopScreen ==
    /\ SearchScreen
    /\ OnScreen
    /\ owner' = "popped"
    /\ UNCHANGED <<serviceVars, movies, page, delegate, handler, screenVars>>

(* The block of dataSourceChanged holds the screen strongly; after the     *)
(* last one the screen goes, and the data source with it.                  *)
ReleaseScreen ==
    /\ MainIs("idle")
    /\ owner = "popped"
    /\ reloads = 0
    /\ owner' = "released"
    /\ UNCHANGED <<serviceVars, movies, page, delegate, handler, screenVars>>

(* dataSourceChanged(), called by the data source *)
DataSourceChanged == reloads' = reloads + 1

Notify ==
    /\ NotifyDelegate
    /\ \/ Notifies /\ DataSourceChanged
       \/ ~Notifies /\ UNCHANGED reloads
    /\ UNCHANGED <<main, shown, details>>

(* The two threads share movies and each poster without a lock.  A read    *)
(* that meets the write of an array buffer or of a counted reference has   *)
(* the old value, the new one, or a freed object: the app is gone.         *)
WritesShared ==
    \/ handler.at = "append"
    \/ /\ handler.at = "store"
       /\ MovieAt(handler.row)
       /\ movies[handler.row + 1].poster # NoImage

ReadsShared == MainIs("idle") /\ (reloads > 0 \/ (OnScreen /\ shown # <<>>))

Trap ==
    /\ Alive
    /\ WritesShared
    /\ ReadsShared
    /\ owner' = "crashed"
    /\ UNCHANGED <<serviceVars, movies, page, delegate, handler, screenVars>>

-----------------------------------------------------------------------------
Running == owner # "crashed"

Network == Running /\ NetworkStep /\ UNCHANGED <<sourceVars, screenVars>>

DelegateQueue ==
    \/ Running /\ HandlerStep /\ UNCHANGED screenVars
    \/ Running /\ Notify

RunLoop == ViewDidLoad \/ ReloadData \/ LoadDataSource \/ StartFetch \/ ReleaseScreen

User ==
    \/ \E row \in 0..Len(shown) - 1 :
          CellForRow(row) \/ PrefetchRows(row) \/ DidSelectRow(row)
    \/ CloseDetails
    \/ PopScreen

Init ==
    /\ SourceInit
    /\ main = [at |-> "init", page |-> 0]
    /\ reloads = 0
    /\ shown = <<>>
    /\ details = NoDetails

Next == Network \/ DelegateQueue \/ RunLoop \/ User \/ Trap

Spec == Init /\ [][Next]_vars

(* URLSession ends every transfer (a timeout is a failure) and drains its  *)
(* delegate queue; the main run loop runs every callback and, being FIFO,  *)
(* no reload is passed over for ever.  Nothing is assumed of the user.     *)
Fairness ==
    /\ WF_vars(Network)
    /\ WF_vars(DelegateQueue)
    /\ WF_vars(RunLoop)
    /\ SF_vars(ReloadData)

FairSpec == Spec /\ Fairness

-----------------------------------------------------------------------------
(* The rows come in the order of popularity of the pages they are from,    *)
(* however requests, handlers and scrolling interleave: the guard of       *)
(* getMovies and the order of the delegate queue keep a late page from     *)
(* being appended behind a later one.                                      *)
SortedByPage ==
    \A i, j \in 1..Len(movies) : i < j => movies[i].movie.page <= movies[j].movie.page

(* Never two movie transfers under way: the guard on .running is enough,   *)
(* although it looks only at the task started last.                        *)
OneTransferAtATime ==
    \A s, t \in 1..Len(tasks) :
        tasks[s].result = "none" /\ tasks[t].result = "none" => s = t

(* The page counter stands for what has been appended: a failed or refused *)
(* request advances nothing and loses nothing.  Between append and         *)
(* page += 1 it lags by one page.                                          *)
PageCountsLoads ==
    Alive /\ handler.at # "bump" /\ page <= TotalPages + 1
        => Len(movies) = PageSize * (page - 1)

(* A poster downloaded for an index path captured before the download      *)
(* is stored in the row of the movie it belongs to.                        *)
PosterBelongsToRow ==
    \A i \in 1..Len(movies) : movies[i].poster \in {movies[i].movie, NoImage}

(* The table may be behind the model, but every row it counts exists and   *)
(* is the movie of its cell, so scrolling never meets a nil model.         *)
TableIsPrefix ==
    /\ Len(shown) <= Len(movies)
    /\ \A i \in 1..Len(shown) : shown[i].movie = movies[i].movie

(* An index path keeps naming the same movie: a download, a cell or a tap  *)
(* may hold on to one while handlers run, because rows are only added, at  *)
(* the end.                                                                *)
RowsKept ==
    /\ Len(movies) <= Len(movies')
    /\ \A i \in 1..Len(movies) : movies'[i].movie = movies[i].movie

IndexPathsStayValid == [][RowsKept]_vars

(* The details screen shows the movie of the cell that was tapped and      *)
(* never nil, which deinit would unwrap.                                   *)
TapOpensShownMovie ==
    details.open => /\ details.row < Len(shown)
                    /\ details.movie = shown[details.row + 1].movie
                    /\ details.movie # NoMovie

(* Every poster that is stored gets into its cell: dataSourceChanged comes *)
(* after the store, and viewDidLoad's own reload covers what was stored    *)
(* before the delegate was set.                                            *)
PostersReachTable ==
    \A i \in 1..(MaxFetches * PageSize) :
        (i <= Len(movies) /\ movies[i].poster # NoImage)
            ~> \/ owner # "open"
               \/ i <= Len(shown) /\ shown[i].poster # NoImage

(* A page that has arrived is eventually counted, so that a later request  *)
(* asks for another one.                                                   *)
ArrivedPageIsCounted ==
    \A t \in 1..MaxFetches :
        (t <= Len(tasks) /\ Succeeds(t))
            ~> (owner # "open" \/ (t <= Len(tasks) /\ page > tasks[t].page))

(* The home screen lists the movies by falling popularity, and scrolling   *)
(* brings less popular ones only (README.md line 7).                       *)
EachRowLessPopular ==
    \A i, j \in 1..Len(movies) : i < j =>
        \/ movies[i].movie.page < movies[j].movie.page
        \/ /\ movies[i].movie.page = movies[j].movie.page
           /\ movies[i].movie.slot < movies[j].movie.slot

(* The movies that were found are displayed (README.md line 7): the list   *)
(* is updated with what was loaded.                                        *)
LoadedRowsAreShown ==
    \A i \in 1..(MaxFetches * PageSize) :
        (i <= Len(movies)) ~> (owner # "open" \/ i <= Len(shown))
=============================================================================
