--------------------------- MODULE NanopbSchemas ---------------------------
(***************************************************************************)
(* The messages of the analytics pods, from the generated field tables: the   *)
(* requests and the response of the CCT transport and the configuration that  *)
(* FirebaseCoreDiagnostics logs.                                              *)
(***************************************************************************)
EXTENDS Nanopb

\* PB_LTYPE_MAP_*, and the size of the struct's member.
PbTypeMap(type) ==
    CASE type \in {"BOOL", "ENUM", "INT32", "INT64"} -> "varint"
      [] type \in {"UENUM", "UINT32", "UINT64"} -> "uvarint"
      [] type \in {"SINT32", "SINT64"} -> "svarint"
      [] type \in {"FIXED32", "FLOAT"} -> "fixed32"
      [] type \in {"FIXED64", "DOUBLE"} -> "fixed64"
      [] type = "BYTES" -> "bytes"
      [] type = "STRING" -> "string"
      [] type = "MESSAGE" -> "submessage"
      [] type = "FIXED_LENGTH_BYTES" -> "fixed_length_bytes"
      [] type = "EXTENSION" -> "extension"

PbMemberBits(type) ==
    CASE type = "BOOL" -> ByteBits
      [] type \in {"INT64", "SINT64", "UINT64", "FIXED64", "DOUBLE"} -> LongBits
      [] OTHER -> ShortBits

\* PB_FIELD: rules and allocation give the kind of slot; ptr is the fields of a submessage or
\* a default.  slot is the position of the member in the struct.
PB_FIELD(tag, type, rules, allocation, slot, ptr) ==
    [tag |-> tag, slot |-> slot, ltype |-> PbTypeMap(type), htype |-> rules,
     atype |-> allocation, bits |-> PbMemberBits(type), max |-> 2, fixed |-> FALSE,
     implicit |-> FALSE, callback |-> FALSE,
     sub |-> IF type \in {"MESSAGE", "EXTENSION"} THEN ptr ELSE <<>>,
     default |-> IF type \in {"MESSAGE", "EXTENSION"} THEN 0 ELSE ptr]

PB_OPTIONAL_STATIC(tag, type, slot, ptr) == PB_FIELD(tag, type, "optional", "static", slot, ptr)
PB_OPTIONAL_POINTER(tag, type, slot) == PB_FIELD(tag, type, "optional", "pointer", slot, <<>>)
PB_REPEATED_POINTER(tag, type, slot, ptr) == PB_FIELD(tag, type, "repeated", "pointer", slot, ptr)
PB_REQUIRED_STATIC(tag, type, slot, ptr) == PB_FIELD(tag, type, "required", "static", slot, ptr)
PB_REQUIRED_POINTER(tag, type, slot) == PB_FIELD(tag, type, "required", "pointer", slot, <<>>)
PB_REPEATED_STATIC(tag, type, slot) == PB_FIELD(tag, type, "repeated", "static", slot, 0)
\* proto3: no has_ flag.
PB_SINGULAR_STATIC(tag, type, slot, ptr) ==
    [PB_OPTIONAL_STATIC(tag, type, slot, ptr) EXCEPT !.implicit = TRUE]
PB_REPEATED_FIXED_COUNT(tag, type, slot) ==
    [PB_REPEATED_STATIC(tag, type, slot) EXCEPT !.fixed = TRUE]
\* callback says whether the program gives the field a function.  A repeated one has no count
\* of its own and no bound, which the decoder takes for an array of zero entries.
PB_OPTIONAL_CALLBACK(tag, type, slot, callback) ==
    [PB_FIELD(tag, type, "optional", "callback", slot, 0) EXCEPT !.callback = callback]
PB_REPEATED_CALLBACK(tag, type, slot, callback) ==
    [PB_FIELD(tag, type, "repeated", "callback", slot, 0) EXCEPT
        !.callback = callback, !.fixed = TRUE, !.max = 0]
\* Extensions are a list that hangs off one field of the message.  A static one counts as
\* required, so that it is always written.
PB_EXTENSIONS(tag, slot, list) == PB_FIELD(tag, "EXTENSION", "optional", "callback", slot, list)
PB_OPTEXT_STATIC(tag, type, ptr) == PB_REQUIRED_STATIC(tag, type, 1, ptr)
PB_OPTEXT_POINTER(tag, type) == PB_OPTIONAL_POINTER(tag, type, 1)
PB_OPTEXT_CALLBACK(tag, type, callback) == PB_OPTIONAL_CALLBACK(tag, type, 1, callback)
\* The members of a union share the slot.
PB_ONEOF_FIELD(tag, type, allocation, slot) == PB_FIELD(tag, type, "oneof", allocation, slot, 0)

-----------------------------------------------------------------------------
\* cct.nanopb

NetworkType_NONE == -1
NetworkTypes == NetworkType_NONE..17
MobileSubtypes == 0..19 \cup {100}
QosTiers == 0..4
ClientTypes == {0, 15}

gdt_cct_NetworkConnectionInfo_fields ==
    <<PB_OPTIONAL_STATIC(1, "ENUM", 1, NetworkType_NONE),
      PB_OPTIONAL_STATIC(2, "UENUM", 2, 0)>>

gdt_cct_LogEvent_fields ==
    <<PB_OPTIONAL_STATIC(1, "INT64", 1, 0),
      PB_OPTIONAL_POINTER(6, "BYTES", 2),
      PB_OPTIONAL_STATIC(11, "INT32", 3, 0),
      PB_OPTIONAL_STATIC(15, "SINT64", 4, 0),
      PB_OPTIONAL_STATIC(17, "INT64", 5, 0),
      PB_OPTIONAL_STATIC(23, "MESSAGE", 6, gdt_cct_NetworkConnectionInfo_fields)>>

gdt_cct_IosClientInfo_fields ==
    LET tags == <<3, 4, 5, 6, 7, 8, 11>>
    IN  [i \in DOMAIN tags |-> PB_OPTIONAL_POINTER(tags[i], "BYTES", i)]

gdt_cct_ClientInfo_fields ==
    <<PB_OPTIONAL_STATIC(1, "UENUM", 1, 0),
      PB_OPTIONAL_STATIC(4, "MESSAGE", 2, gdt_cct_IosClientInfo_fields)>>

gdt_cct_LogRequest_fields ==
    <<PB_OPTIONAL_STATIC(1, "MESSAGE", 1, gdt_cct_ClientInfo_fields),
      PB_OPTIONAL_STATIC(2, "INT32", 2, 0),
      PB_REPEATED_POINTER(3, "MESSAGE", 3, gdt_cct_LogEvent_fields),
      PB_OPTIONAL_STATIC(4, "INT64", 4, 0),
      PB_OPTIONAL_STATIC(8, "INT64", 5, 0),
      PB_OPTIONAL_STATIC(9, "UENUM", 6, 0)>>

gdt_cct_BatchedLogRequest_fields ==
    <<PB_REPEATED_POINTER(1, "MESSAGE", 1, gdt_cct_LogRequest_fields)>>

gdt_cct_QosTierConfiguration_fields ==
    <<PB_OPTIONAL_STATIC(2, "UENUM", 1, 0),
      PB_OPTIONAL_STATIC(3, "INT32", 2, 0)>>

gdt_cct_QosTiersOverride_fields ==
    <<PB_REPEATED_POINTER(1, "MESSAGE", 1, gdt_cct_QosTierConfiguration_fields),
      PB_OPTIONAL_STATIC(2, "INT64", 2, 0)>>

gdt_cct_LogResponse_fields ==
    <<PB_OPTIONAL_STATIC(1, "INT64", 1, 0),
      PB_OPTIONAL_STATIC(3, "MESSAGE", 2, gdt_cct_QosTiersOverride_fields)>>

-----------------------------------------------------------------------------
\* firebasecore.nanopb

ConfigurationTypes == 0..2
ServiceTypes == 0..35 \ {4, 25}
PodNames == 0..2
DeploymentTypes == 0..4

logs_proto_mobilesdk_ios_ICoreConfiguration_fields ==
    LET tags == <<1, 7, 9, 10, 12, 16, 18, 19, 20, 21, 22, 24, 25, 26, 27, 28, 29, 30, 31, 33, 36>>
        pointers == {9, 10, 12, 18, 19, 22, 24, 28, 31}
        enums == {1, 16, 20, 30}
        counts == {21, 27}
        bools == {25, 26, 29, 33, 36}
    IN  [i \in DOMAIN tags |->
            CASE tags[i] = 7 -> PB_REPEATED_POINTER(7, "UENUM", i, 0)
              [] tags[i] \in pointers -> PB_OPTIONAL_POINTER(tags[i], "BYTES", i)
              [] tags[i] \in enums -> PB_OPTIONAL_STATIC(tags[i], "UENUM", i, 0)
              [] tags[i] \in counts -> PB_OPTIONAL_STATIC(tags[i], "INT32", i, 0)
              [] tags[i] \in bools -> PB_OPTIONAL_STATIC(tags[i], "BOOL", i, 0)]
=============================================================================
