------------------------------ MODULE MCCodecs ------------------------------
(***************************************************************************)
(* What one thread writes and reads back, one part at a time: nanopb messages, *)
(* log files, tables, iterators, encoded strings, and a repair of a damaged   *)
(* database.  A behaviour runs one of them.                                   *)
(***************************************************************************)
EXTENDS NanopbSchemas, LogFile, Table, DBIter, Encodings, Repair

VARIABLE component

Components == {"nanopb", "log", "table", "iterator", "encoding", "repair"}

allVars == <<pbVars, logVars, tableVars, iterVars, encodingVars, repairVars, component>>

Some(S) == CHOOSE x \in S : TRUE

\* Three updates, the newest at sequence number 3, spread over a memtable and files.
Updates == [1..IterEntries -> [key : IterKeys, type : Types \cup {"bad"}, child : 1..3]]
OneUpdate(type, child) == [key |-> 1, type |-> type, child |-> child]
SomeUpdates == [s \in 1..IterEntries |-> OneUpdate("value", 1)]

Init ==
    /\ component \in Components
    /\ component # "nanopb" => pb = Some(PbCalls)
    /\ PbInit /\ LogInit
    /\ IF component = "table"
       THEN \E options \in TableOptions, failure \in TableFailures : TableInit(options, failure)
       ELSE TableInit(Some(TableOptions), Some(TableFailures))
    /\ IF component = "iterator"
       THEN \E u \in Updates, s \in {2, 3} :
              /\ s = 2 => u[3].child # 1 /\ u[3].type = "value"
              /\ u[1].type = "value" /\ u[3].type \in Types
              /\ IterInit(u, 2, s)
       ELSE IterInit(SomeUpdates, 2, 3)
    /\ EncodingInit
    /\ component # "encoding" => encoder = "data"
    /\ component # "repair" => disk = Some(RepairDisks)
    /\ RepairInit

Next ==
    \/ /\ component = "nanopb" /\ PbNext
       /\ UNCHANGED <<logVars, tableVars, iterVars, encodingVars, repairVars, component>>
    \/ /\ component = "log" /\ LogNext
       /\ UNCHANGED <<pbVars, tableVars, iterVars, encodingVars, repairVars, component>>
    \/ /\ component = "table" /\ TableNext
       /\ UNCHANGED <<pbVars, logVars, iterVars, encodingVars, repairVars, component>>
    \/ /\ component = "iterator" /\ IterNextStep
       /\ UNCHANGED <<pbVars, logVars, tableVars, encodingVars, repairVars, component>>
    \/ /\ component = "encoding" /\ EncodingNext
       /\ UNCHANGED <<pbVars, logVars, tableVars, iterVars, repairVars, component>>
    \/ /\ component = "repair" /\ RepairNext
       /\ UNCHANGED <<pbVars, logVars, tableVars, iterVars, encodingVars, component>>

Spec == Init /\ [][Next]_allVars

-----------------------------------------------------------------------------
\* Values for TLC.

\* Internal keys: a user key and, last, the byte that stands for its number.
SomeTableKeys == {<<0, 7>>, <<0, 1, 2, 3, 5>>, <<1, 4>>, <<1, 3>>, <<1, 1, 2>>, <<3, 3, 3>>}
TableOption(interval, size, bits) ==
    [block_restart_interval |-> interval, block_size |-> size, bits_per_key |-> bits]
SomeTableOptions == {TableOption(2, 16, 10), TableOption(1, 30, 0)}
SomeTableFailures == {[write |-> w, flush |-> 0] : w \in {0, 2, 3, 4}} \cup {[write |-> 0, flush |-> 1]}

\* Strings whose length takes one byte, and two.
SomeEditKeys == {<<1>>, [i \in 1..9 |-> 3]}
SomeBatchStrings == {<<>>, [i \in 1..9 |-> 15]}
SomeCrcBytes == {{}, {0, 3, 7}}

\* Two directories: two logs, a table with an entry of three that cannot be read and a descriptor; and
\* tables, one of the old suffix, one that does not open and one with a bad key, without.
RE(k, s, t) == [key |-> k, seq |-> s, type |-> t]
RTable(entries, unread) == [opens |-> TRUE, entries |-> entries, bad |-> unread]
RBroken(entries) == [opens |-> FALSE, entries |-> entries, bad |-> {}]
RRecord(es) == [handed |-> es, small |-> FALSE]
RSmall == [handed |-> <<>>, small |-> TRUE]
SomeRepairDisks ==
    {(<<"log", 6>> :> <<RRecord(<<RE(1, 7, "value"), RE(2, 8, "deletion")>>), RSmall>>)
       @@ (<<"log", 4>> :> <<RRecord(<<RE(1, 5, "value")>>)>>)
       @@ (<<"ldb", 7>> :> RTable({RE(1, 2, "value"), RE(2, 3, "value"), RE(3, 1, "value")}, {RE(2, 3, "value")}))
       @@ (<<"manifest", 2>> :> 0) @@ (<<"current", 0>> :> <<"manifest", 2>>),
     (<<"ldb", 5>> :> RTable({RE(1, 4, "value"), RE(2, 3, "bad")}, {}))
       @@ (<<"sst", 3>> :> RTable({RE(1, 2, "value"), RE(3, 1, "value")}, {RE(3, 1, "value")}))
       @@ (<<"ldb", 4>> :> RBroken({RE(2, 2, "value")}))
       @@ (<<"log", 6>> :> <<RSmall>>)
       @@ (<<"manifest", 1>> :> 0) @@ (<<"manifest", 2>> :> 0)}

-----------------------------------------------------------------------------
\* Messages.

\* Members of a struct.
Has(v) == [ptr |-> FALSE, size |-> 1, items |-> <<v>>]
Holds(v) == [ptr |-> FALSE, size |-> 0, items |-> <<v>>]
Points(v) == [ptr |-> TRUE, size |-> 0, items |-> <<v>>]
PointsNot == [ptr |-> FALSE, size |-> 0, items |-> <<>>]
Array(s) == [ptr |-> FALSE, size |-> Len(s), items |-> s]
Heaped(s) == [ptr |-> s # <<>>, size |-> Len(s), items |-> s]
Chosen(tag, v) == [ptr |-> FALSE, size |-> tag, items |-> <<v>>]

\* Events with negative times, bytes of their own and an enumerator that is negative.
ConnectionInfo(type) ==
    <<Has(type), Has(CHOOSE s \in MobileSubtypes : \A t \in MobileSubtypes : t <= s)>>
LogEvents ==
    {PbDefaults(gdt_cct_LogEvent_fields),
     [PbDefaults(gdt_cct_LogEvent_fields) EXCEPT
        ![1] = Has(-3), ![2] = Points(<<7, 0>>), ![4] = Has(-600),
        ![6] = Has(ConnectionInfo(NetworkType_NONE))]}

LogRequestMessages ==
    {[PbDefaults(gdt_cct_LogRequest_fields) EXCEPT
        ![1] = c, ![2] = Has(100), ![3] = Heaped(es)] :
        c \in {Has(<<Has(Max(ClientTypes)), Has([PbDefaults(gdt_cct_IosClientInfo_fields) EXCEPT ![7] = Points(<<>>)])>>),
               PbDefaults(gdt_cct_LogRequest_fields)[1]},
        es \in {<<>>} \cup {<<e>> : e \in LogEvents}}

BatchedLogRequests == {<<Heaped(<<r>>)>> : r \in LogRequestMessages} \cup {<<Heaped(<<>>)>>}

LogResponses ==
    {<<w, Has(<<Heaped(qs), Has(500)>>)>> :
        w \in {Has(-1), Holds(0)},
        qs \in {<<>>, <<<<Has(4), Holds(0)>>, <<Holds(0), Has(-128)>>>>}}

\* A scaled tag is at most 31, so the last two members stay unset.
Configurations ==
    {[PbDefaults(logs_proto_mobilesdk_ios_ICoreConfiguration_fields) EXCEPT
        ![1] = Has(Max(ConfigurationTypes)), ![2] = Heaped(us), ![3] = Points(<<1>>),
        ![6] = Has(Max(PodNames)), ![17] = Has(1), ![18] = Has(Max(DeploymentTypes))] :
        us \in {<<>>, <<Max(ServiceTypes), Min(ServiceTypes)>>}}

\* The kinds of field these messages do not use: numbers of each width and sign, static
\* arrays and strings, an array of fixed count, and a oneof with a member on the heap.
Kinds == <<[PB_REQUIRED_STATIC(1, "SINT32", 1, 0) EXCEPT !.bits = ByteBits],
           PB_REPEATED_STATIC(2, "INT32", 2),
           [PB_OPTIONAL_STATIC(3, "STRING", 3, <<>>) EXCEPT !.max = 3],
           PB_REPEATED_FIXED_COUNT(4, "FIXED32", 4),
           PB_ONEOF_FIELD(5, "FIXED64", "static", 5),
           PB_ONEOF_FIELD(6, "BYTES", "pointer", 5),
           PB_OPTIONAL_STATIC(7, "FIXED_LENGTH_BYTES", 6, <<0, 0>>)>>
KindMessages ==
    {<<Holds(v), Array(a), s, [Array(<<17, v + 8>>) EXCEPT !.size = 0], o, Has(<<1, 9>>)>> :
        v \in {-8, 7}, a \in {<<>>, <<-128, 127>>}, s \in {Holds(<<>>), Has(<<5, 15>>)},
        o \in {PointsNot, Chosen(5, 65535), [Points(<<4>>) EXCEPT !.size = 6]}}

Proto3 == <<PB_SINGULAR_STATIC(1, "UINT64", 1, 0),
            PB_SINGULAR_STATIC(2, "BYTES", 2, <<>>),
            PB_SINGULAR_STATIC(3, "MESSAGE", 3, <<PB_SINGULAR_STATIC(1, "FIXED32", 1, 0),
                                                  PB_REPEATED_POINTER(2, "STRING", 2, 0)>>)>>
Proto3Messages ==
    {<<Holds(n), Holds(b), Holds(<<Holds(x), Heaped(ss)>>)>> :
        n \in {0, 40000}, b \in {<<>>, <<0, 1>>}, x \in {0, 250}, ss \in {<<>>, <<<<3>>, <<>>>>}}

\* Single messages, bytes and packed arrays on the heap.
Pointers == <<PB_FIELD(1, "MESSAGE", "optional", "pointer", 1,
                       <<PB_OPTIONAL_STATIC(1, "INT64", 1, 0), PB_OPTIONAL_POINTER(2, "BYTES", 2)>>),
              PB_REPEATED_POINTER(2, "INT32", 2, 0),
              PB_REQUIRED_POINTER(3, "STRING", 3)>>
PointerMessages ==
    {<<e, Heaped(a), Points(<<6>>)>> :
        e \in {PointsNot, Points(<<Holds(0), PointsNot>>), Points(<<Has(-3), Points(<<7>>)>>)},
        a \in {<<>>, <<-1, 5>>}}

\* Callback fields with and without a function, and extensions.
Called(s) == [ptr |-> TRUE, size |-> 0, items |-> s]
Callbacks == <<PB_REPEATED_CALLBACK(1, "SINT32", 1, TRUE),
               PB_OPTIONAL_CALLBACK(2, "BYTES", 2, TRUE),
               PB_OPTIONAL_CALLBACK(3, "INT32", 3, FALSE),
               PB_EXTENSIONS(8, 4, <<PB_OPTEXT_STATIC(9, "INT32", 0), PB_OPTEXT_POINTER(10, "BYTES"),
                                     PB_OPTEXT_CALLBACK(12, "UINT64", TRUE)>>)>>
CallbackMessages ==
    {<<Called(a), Called(b), PointsNot, [Called(<<Has(n), x, y>>) EXCEPT !.ptr = FALSE]>> :
        a \in {<<>>, <<-128, 3>>}, b \in {<<>>, <<<<>>>>, <<<<1, 9>>>>}, n \in {0, -2},
        x \in {PointsNot, [Points(<<7, 0>>) EXCEPT !.size = 1]},
        y \in {Called(<<>>), [Called(<<40000>>) EXCEPT !.size = 1]}}

Enough == 20

SomePbTypes ==
    [BatchedLogRequest |-> gdt_cct_BatchedLogRequest_fields,
     LogResponse |-> gdt_cct_LogResponse_fields,
     ICoreConfiguration |-> logs_proto_mobilesdk_ios_ICoreConfiguration_fields,
     Kinds |-> Kinds, Proto3 |-> Proto3, Callbacks |-> Callbacks, Pointers |-> Pointers]

PbCallsOf(type, messages, styles, memory) ==
    {[type |-> type, msg |-> m, style |-> s, memory |-> memory] : m \in messages, s \in styles}

\* Memory runs out at each allocation of the nested arrays of messages and of the array of
\* strings, and wherever it is early in the others.
SomePbCalls ==
    PbCallsOf("BatchedLogRequest", BatchedLogRequests, {"plain"}, (0..4) \cup {Enough})
    \cup PbCallsOf("LogResponse", LogResponses, {"plain"}, {0, 1, 2, Enough})
    \cup PbCallsOf("ICoreConfiguration", Configurations, {"plain"}, {0, 1, Enough})
    \cup PbCallsOf("Kinds", KindMessages, {"delimited"}, {0, Enough})
    \cup PbCallsOf("Proto3", Proto3Messages, {"nullterminated"}, (0..3) \cup {Enough})
    \cup PbCallsOf("Callbacks", CallbackMessages, {"plain"}, {0, Enough})
    \cup PbCallsOf("Pointers", PointerMessages, {"plain", "delimited"}, 0..4)
=============================================================================
