------------------------------ MODULE FileName ------------------------------
(***************************************************************************)
(* Names that LevelDB parses: of the files of a database, db/filename.cc, and  *)
(* of the properties of an open one, DBImpl::GetProperty, with the decimal     *)
(* numbers in them, util/logging.cc.                                          *)
(*                                                                           *)
(* A name is a sequence of digits and of the fixed strings around them,       *)
(* without the directory.  The largest uint64_t has five digits here, and a   *)
(* number is padded to three.                                                 *)
(***************************************************************************)
EXTENDS Integers, Sequences, FiniteSets, FiniteSetsExt, SequencesExt

kMaxUint64 == 65535
PaddedDigits == 3

Digits == <<"0", "1", "2", "3", "4", "5", "6", "7", "8", "9">>

DigitValue(ch) == CHOOSE d \in 0..9 : Digits[d + 1] = ch

\* "%06llu"
PaddedNumber(number) ==
    LET n == Max({PaddedDigits} \cup {i \in 1..5 : number >= 10 ^ (i - 1)})
    IN  [i \in 1..n |-> Digits[((number \div 10 ^ (n - i)) % 10) + 1]]

MakeFileName(number, suffix) == Append(PaddedNumber(number), suffix)

LogFileName(number) == MakeFileName(number, ".log")

TableFileName(number) == MakeFileName(number, ".ldb")

SSTTableFileName(number) == MakeFileName(number, ".sst")

DescriptorFileName(number) == <<"MANIFEST-">> \o PaddedNumber(number)

TempFileName(number) == MakeFileName(number, ".dbtmp")

CurrentFileName == <<"CURRENT">>

LockFileName == <<"LOCK">>

InfoLogFileName == <<"LOG">>

OldInfoLogFileName == <<"LOG.old">>

\* The digits at the start; a number that does not fit is an error.  The value so far is
\* compared before each digit is taken.
TakeDigit(got, ch) ==
    LET d == DigitValue(ch)
    IN  IF \/ ~got.ok \/ got.value > kMaxUint64 \div 10
           \/ got.value = kMaxUint64 \div 10 /\ d > kMaxUint64 % 10
        THEN [got EXCEPT !.ok = FALSE]
        ELSE [got EXCEPT !.value = (@ * 10 + d) % (kMaxUint64 + 1)]

ConsumeDigits(in, n) ==
    [FoldLeft(TakeDigit, [ok |-> n # 0, value |-> 0, rest |-> <<>>], SubSeq(in, 1, n))
        EXCEPT !.rest = SubSeq(in, n + 1, Len(in))]

ConsumeDecimalNumber(in) ==
    LET others == {i \in DOMAIN in : in[i] \notin Range(Digits)}
    IN  ConsumeDigits(in, IF others = {} THEN Len(in) ELSE Min(others) - 1)

NotAFile == [ok |-> FALSE, number |-> 0, type |-> "none"]

FileOf(type, number) == [ok |-> TRUE, number |-> number, type |-> type]

ParseNumbered(manifest, num) ==
    IF ~num.ok THEN NotAFile
    ELSE IF manifest
         THEN IF num.rest = <<>> THEN FileOf("descriptor", num.value) ELSE NotAFile
    ELSE IF num.rest = <<".log">> THEN FileOf("log", num.value)
    ELSE IF num.rest \in {<<".sst">>, <<".ldb">>} THEN FileOf("table", num.value)
    ELSE IF num.rest = <<".dbtmp">> THEN FileOf("temp", num.value)
    ELSE NotAFile

ParseFileName(name) ==
    LET manifest == name # <<>> /\ name[1] = "MANIFEST-"
    IN  IF name = CurrentFileName THEN FileOf("current", 0)
        ELSE IF name = LockFileName THEN FileOf("lock", 0)
        ELSE IF name \in {InfoLogFileName, OldInfoLogFileName} THEN FileOf("infolog", 0)
        ELSE ParseNumbered(manifest, ConsumeDecimalNumber(IF manifest THEN Tail(name) ELSE name))

NumberOf(digits) ==
    FoldLeft(LAMBDA a, b : a + b, 0,
             [i \in DOMAIN digits |-> DigitValue(digits[i]) * 10 ^ (Len(digits) - i)])

\* Every name the database gives a file is read back as that file.
NamesParse(number) ==
    /\ ParseFileName(LogFileName(number)) = FileOf("log", number)
    /\ ParseFileName(TableFileName(number)) = FileOf("table", number)
    /\ ParseFileName(SSTTableFileName(number)) = FileOf("table", number)
    /\ ParseFileName(TempFileName(number)) = FileOf("temp", number)
    /\ ParseFileName(DescriptorFileName(number)) = FileOf("descriptor", number)

\* Whatever is in the directory, a name is taken for a numbered file exactly when it is digits
\* of a number that fits in 64 bits, with one of the suffixes or after MANIFEST-.
NameAgrees(name) ==
    LET Numbered(digits) == /\ digits # <<>> /\ Range(digits) \subseteq Range(Digits)
                            /\ NumberOf(digits) <= kMaxUint64
        file == ParseFileName(name)
    IN  \/ name \in {CurrentFileName, LockFileName, InfoLogFileName, OldInfoLogFileName}
           /\ file.ok /\ file.number = 0
        \/ name # <<>> /\ name[1] = "MANIFEST-" /\ Numbered(Tail(name))
           /\ file = FileOf("descriptor", NumberOf(Tail(name)))
        \/ name # <<>> /\ Last(name) \in {".log", ".ldb", ".sst", ".dbtmp"} /\ Numbered(Front(name))
           /\ file.ok /\ file.number = NumberOf(Front(name))
        \/ ~file.ok /\ (name # <<>> => /\ ~(name[1] = "MANIFEST-" /\ Numbered(Tail(name)))
                                       /\ ~(Last(name) \in {".log", ".ldb", ".sst", ".dbtmp"}
                                              /\ Numbered(Front(name))))

-----------------------------------------------------------------------------
\* Properties of an open database.

PropertyLevels == 7     \* config::kNumLevels

\* The answer: the numbers that are printed.  db has the number of files and the time of the
\* compactions of each level, and the memory in use; 0 for a memtable that does not exist.
GetProperty(property, db) ==
    LET in == Tail(property)
        level == ConsumeDecimalNumber(Tail(in))
        busy == {l \in 1..PropertyLevels : db.micros[l] > 0 \/ db.files[l] > 0}
    IN  IF property = <<>> \/ property[1] # "leveldb." \/ in = <<>> THEN [ok |-> FALSE]
        ELSE CASE in[1] = "num-files-at-level" ->
                    IF ~level.ok \/ level.rest # <<>> \/ level.value >= PropertyLevels
                    THEN [ok |-> FALSE]
                    ELSE [ok |-> TRUE, value |-> <<db.files[level.value + 1]>>]
               [] in = <<"stats">> -> [ok |-> TRUE, value |-> SetToSortSeq(busy, <)]
               [] in = <<"sstables">> -> [ok |-> TRUE, value |-> db.files]
               [] in = <<"approximate-memory-usage">> ->
                    [ok |-> TRUE, value |-> <<db.cache + db.mem + db.imm>>]
               [] OTHER -> [ok |-> FALSE]

SomeDB == [files |-> <<4, 0, 2, 0, 0, 0, 1>>, micros |-> <<0, 9, 0, 0, 0, 0, 0>>,
           cache |-> 5, mem |-> 40, imm |-> 0]

\* A level is answered for exactly the numbers below the number of levels, however they are
\* written, so that no name reads past the levels of the version; the other names have to match
\* to the end.
PropertyAgrees(property) ==
    LET got == GetProperty(property, SomeDB)
        digits == SubSeq(property, 3, Len(property))
        asks == Len(property) > 2 /\ SubSeq(property, 1, 2) = <<"leveldb.", "num-files-at-level">>
    IN  IF asks
        THEN got.ok <=> Range(digits) \subseteq Range(Digits) /\ NumberOf(digits) < PropertyLevels
        ELSE got.ok <=> property \in {<<"leveldb.", w>> :
                                          w \in {"stats", "sstables", "approximate-memory-usage"}}
=============================================================================
