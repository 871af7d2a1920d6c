------------------------------- MODULE Status -------------------------------
(***************************************************************************)
(* The results of the database's calls: include/leveldb/status.h and          *)
(* util/status.cc.  A status is a pointer to a block of bytes that it owns,    *)
(* null for success: the length of the message, the code, the message.        *)
(***************************************************************************)
EXTENDS Coding

kOk == 0
kNotFound == 1
kIOError == 5
StatusCodes == kNotFound..kIOError

NullState == 0

\* Two variables of a program and the heap their blocks are on.  values is what each was last
\* given; misused is set when a block is read or freed after it was freed.
NewStatuses == [states |-> <<NullState, NullState>>, heap |-> <<>>, freed |-> {}, misused |-> FALSE,
                values |-> <<<<>>, <<>>>>, calls |-> 0]

kSeparator == <<3, 2>>   \* ": "

\* The constructor: the second message follows the first.
StatusBlock(code, msg, msg2) ==
    LET size == Len(msg) + (IF msg2 # <<>> THEN 2 + Len(msg2) ELSE 0)
    IN  EncodeFixed32(size) \o <<code>> \o msg \o (IF msg2 # <<>> THEN kSeparator \o msg2 ELSE <<>>)

\* CopyState reads the length to know how much to copy.
CopyState(block) == SubSeq(block, 1, DecodeFixed32(block) + 3)

NewState(s, block) == [s EXCEPT !.heap = Append(@, block)]

DeleteState(s, state) ==
    IF state = NullState THEN s
    ELSE [s EXCEPT !.freed = @ \cup {state}, !.misused = @ \/ state \in s.freed]

\* Status& operator=(const Status&).  Equal pointers are the same object, or both null.
CopyAssign(s, i, j) ==
    LET deleted == DeleteState(s, s.states[i])
        copied == [NewState(deleted, CopyState(s.heap[s.states[j]])) EXCEPT
                     !.misused = @ \/ s.states[j] \in deleted.freed]
    IN  IF s.states[i] = s.states[j] THEN s
        ELSE IF s.states[j] = NullState THEN [deleted EXCEPT !.states[i] = NullState]
        ELSE [copied EXCEPT !.states[i] = Len(copied.heap)]

\* Status& operator=(Status&&): the pointers are swapped.
MoveAssign(s, i, j) == [s EXCEPT !.states = [@ EXCEPT ![i] = s.states[j], ![j] = s.states[i]]]

\* s = Status::Corruption(msg, msg2): a temporary is moved from and destroyed.
AssignError(s, i, code, msg, msg2) ==
    LET made == NewState(s, StatusBlock(code, msg, msg2))
    IN  DeleteState([made EXCEPT !.states[i] = Len(made.heap)], s.states[i])

AssignOK(s, i) == DeleteState([s EXCEPT !.states[i] = NullState], s.states[i])

StatusCode(s, i) == IF s.states[i] = NullState THEN kOk ELSE s.heap[s.states[i]][3]

\* ToString: the code's name and as much of the block as its length says.
StatusToString(s, i) ==
    LET block == s.heap[s.states[i]]
    IN  IF s.states[i] = NullState THEN <<>>
        ELSE <<StatusCode(s, i)>> \o SubSeq(block, 4, DecodeFixed32(block) + 3)

\* A status reports the error it was last given, and its block is freed exactly once, also
\* after it was assigned to itself, copied or moved from.
StatusAgrees(s) ==
    /\ ~s.misused
    /\ \A i \in 1..2 : StatusToString(s, i) = s.values[i]
    /\ DOMAIN s.heap \ s.freed = {s.states[i] : i \in 1..2} \ {NullState}
    /\ s.states[1] = s.states[2] => s.states[1] = NullState
=============================================================================
