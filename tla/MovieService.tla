---------------------------- MODULE MovieService ----------------------------
(***************************************************************************)
(* The network side of one movie list: MovieService, the URLSession tasks  *)
(* it starts and the queue on which URLSession calls their completion      *)
(* handlers (Services/MovieService.swift, Utilities/Utility.swift).        *)
(*                                                                         *)
(* The Movie DB serves a fixed catalogue, most popular movie first, in     *)
(* pages of PageSize; a movie is named by its page and its slot.           *)
(* A discovery or search request is a task.  Three things happen to it,    *)
(* and nothing in URLSession orders the last two: its transfer ends, its   *)
(* state becomes .completed, and its handler is called on the (serial)     *)
(* delegate queue.                                                         *)
(***************************************************************************)
EXTENDS Naturals, Sequences

CONSTANTS
    PageSize,      \* movies on a page of the answer
    TotalPages,    \* pages the server has; later pages are empty
    Undecodable,   \* pages whose JSON the response structs cannot decode
    PosterPath,    \* movies whose poster_path is not null
    Posters,       \* movies for which /movie/{id}/images lists a poster
    SearchScreen,  \* TRUE: a search screen (search), FALSE: the home screen
    MaxFetches,    \* bound: discovery or search requests in a behaviour
    MaxFailures    \* bound: transfers and downloads that fail

Movie == [page : 1..TotalPages, slot : 1..PageSize]

ASSUME CatalogueAssumption ==
    /\ PageSize \in Nat \ {0}
    /\ TotalPages \in Nat
    /\ Undecodable \subseteq Nat
    /\ PosterPath \subseteq Movie
    /\ Posters \subseteq Movie

ASSUME BoundAssumption ==
    /\ MaxFetches \in Nat \ {0}
    /\ MaxFailures \in Nat
    /\ SearchScreen \in BOOLEAN

VARIABLES
    tasks,          \* the movie requests, in the order they were started; the
                    \* last one is fetchingMoviesTask
    delegateQueue,  \* tasks whose completion handler waits to be called
    posterRequests, \* requests of getMoviePoster that have not been answered
    failures        \* failed transfers so far

serviceVars == <<tasks, delegateQueue, posterRequests, failures>>

Task == [page   : Nat \ {0},
         state  : {"running", "completed"},
         result : {"none", "success", "failure"}]

PosterRequest == [task : Nat, row : Nat, movie : Movie]

ServiceTypeOK ==
    /\ tasks \in Seq(Task)
    /\ delegateQueue \in Seq(1..Len(tasks))
    /\ posterRequests \subseteq PosterRequest
    /\ failures \in 0..MaxFailures

-----------------------------------------------------------------------------
(* A request is answered with the movies of its page, none past the end.   *)
Results(p) ==
    IF p \in 1..TotalPages
    THEN [i \in 1..PageSize |-> [page |-> p, slot |-> i]]
    ELSE <<>>

NewTask(p) == [page |-> p, state |-> "running", result |-> "none"]

(* fetchingMoviesTask?.state == .running *)
FetchRunning == tasks # <<>> /\ tasks[Len(tasks)].state = "running"

StartTask(p) ==
    /\ tasks' = Append(tasks, NewTask(p))
    /\ UNCHANGED <<delegateQueue, posterRequests, failures>>

(* Faulty variant of GetMovies and Search: the guard is missing. *)
Unguarded(p) == StartTask(p)

(* The guard answers .alreadyActive at once; the caller only prints it.    *)
GetMovies(p) ==
    \/ FetchRunning /\ UNCHANGED serviceVars
    \/ ~FetchRunning /\ StartTask(p)

Search(p) ==
    \/ FetchRunning /\ UNCHANGED serviceVars
    \/ ~FetchRunning /\ StartTask(p)

(* A failed transfer is counted against MaxFailures. *)
Fails(failed) ==
    /\ failed => failures < MaxFailures
    /\ failures' = IF failed THEN failures + 1 ELSE failures

(* The transfer of task t ends, with data or with an error, and its        *)
(* handler is put on the delegate queue.                                   *)
TransferEnds(t, failed) ==
    /\ tasks[t].result = "none"
    /\ Fails(failed)
    /\ tasks' = [tasks EXCEPT ![t].result = IF failed THEN "failure" ELSE "success"]
    /\ delegateQueue' = Append(delegateQueue, t)
    /\ UNCHANGED posterRequests

(* What the handler of task t passes on: a page, unless the transfer       *)
(* failed (.networkError) or the data does not decode (.decodingError:     *)
(* one movie without a mandatory field is enough).                         *)
Succeeds(t) == tasks[t].result = "success" /\ tasks[t].page \notin Undecodable

(* URLSession marks a task .completed at some time after its transfer ended. *)
TaskCompleted(t) ==
    /\ tasks[t].result # "none"
    /\ tasks[t].state = "running"
    /\ tasks' = [tasks EXCEPT ![t].state = "completed"]
    /\ UNCHANGED <<delegateQueue, posterRequests, failures>>

(* Ask for the images of the movie in row; t is the task whose handler asks. *)
GetMoviePoster(t, row, movie) ==
    /\ posterRequests' = posterRequests
                            \cup {[task |-> t, row |-> row, movie |-> movie]}
    /\ UNCHANGED <<tasks, delegateQueue, failures>>

(* Network steps: what URLSession does on its own. *)
NetworkStep ==
    \E t \in 1..Len(tasks) :
        \/ \E failed \in BOOLEAN : TransferEnds(t, failed)
        \/ TaskCompleted(t)

ServiceInit ==
    /\ tasks = <<NewTask(1)>>
    /\ delegateQueue = <<>>
    /\ posterRequests = {}
    /\ failures = 0
=============================================================================
