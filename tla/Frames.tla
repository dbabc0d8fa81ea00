------------------------------- MODULE Frames -------------------------------
(***************************************************************************)
(* What each side of the socket believes the frames look like. The type    *)
(* bytes and the payload layouts are written down twice in the code, once  *)
(* in TypeScript (ipc.ts) and once in Rust (ipc.rs, wire.rs), and nothing  *)
(* but convention keeps the two together. So this module has four tables,  *)
(* each transcribed from its own code: TsWrites and RustReads for the      *)
(* frames the host sends, RustWrites and TsReads for the runtime's. A      *)
(* layout is a shape and whether its parser refuses trailing bytes. A      *)
(* reader's string is checked for UTF-8 in Rust and not in TypeScript; a   *)
(* presence byte other than 0 and 1 is refused, or read as absent or as    *)
(* present, as that field's reader does.                                   *)
(*                                                                         *)
(* Module Codec gives the shapes their bytes.                              *)
(***************************************************************************)
EXTENDS Codec

CONSTANTS
    \* The descriptor token's exact length (DESCRIPTOR_TOKEN_LEN).
    TokenLen,
    \* The largest stream chunk (STREAM_CHUNK_MAX_BYTES).
    ChunkMax

Whole(shape)   == [shape |-> shape, done |-> TRUE]
Leading(shape) == [shape |-> shape, done |-> FALSE]

----------------------------------------------------------------------------
(* Host to runtime: what ipc.ts writes. *)

TsTypeByte ==
    [Authenticate |-> 1, Run |-> 2, Precompile |-> 3, PrefixRun |-> 4, DisposePrefix |-> 5,
     BridgeResponse |-> 6, Terminate |-> 7, Stats |-> 8, StreamChunk |-> 9, StreamEnd |-> 10,
     StreamPull |-> 11, StreamCancel |-> 12, Close |-> 13]

TsLimits == Rec([i \in 1..10 |-> Opt("refused", U32)])

TsGlobals ==
    List(Dep(<<U8, Blob, U8>>, 1,
             0 :> Nothing @@ 1 :> Blob @@ 2 :> Blob @@ 3 :> Rec(<<Blob, Blob>>)))

TsImports ==
    List(Dep(<<Blob, U8>>, 2, 0 :> Blob @@ 1 :> List(Rec(<<Blob, Node(1)>>))))

TsRebinds == List(Rec(<<Blob, List(Blob)>>))

TsCall == Rec(<<Blob, Blob>>)

TsWrites ==
    [Authenticate   |-> Rec(<<U16, Blob, Blob>>),
     Run            |-> Rec(<<U32, Blob, Opt("refused", Blob), TsLimits, TsGlobals, TsImports,
                              Opt("refused", TsCall)>>),
     Precompile     |-> Rec(<<U32, Blob, Opt("refused", Blob), TsLimits, TsGlobals, TsImports>>),
     PrefixRun      |-> Rec(<<U32, Blob, TsLimits, TsGlobals, TsRebinds, TsCall>>),
     DisposePrefix  |-> Rec(<<Blob>>),
     BridgeResponse |-> Dep(<<U32, U32, U8>>, 3,
                            1 :> Opt("refused", Blob)
                         @@ 0 :> Rec(<<Blob, Blob, Blob, Opt("refused", Blob), Opt("refused", Blob)>>)),
     Terminate      |-> Rec(<<U32, U8>>),
     Stats          |-> Nothing,
     StreamChunk    |-> Rec(<<U32, U32, Blob>>),
     StreamEnd      |-> Dep(<<U32, U32, U8>>, 3, 1 :> Nothing @@ 0 :> Opt("refused", Blob)),
     StreamPull     |-> Rec(<<U32, U32, U32>>),
     StreamCancel   |-> Rec(<<U32, U32, Blob>>),
     Close          |-> Nothing]

----------------------------------------------------------------------------
(* Host to runtime: what ipc.rs and wire.rs read. *)

\* parse_ts_to_rust_message_type: the frame a type byte announces.
parse_ts_to_rust_message_type ==
       1 :> "Authenticate" @@ 2 :> "Run" @@ 3 :> "Precompile" @@ 4 :> "PrefixRun"
    @@ 5 :> "DisposePrefix" @@ 6 :> "BridgeResponse" @@ 7 :> "Terminate" @@ 8 :> "Stats"
    @@ 9 :> "StreamChunk" @@ 10 :> "StreamEnd" @@ 11 :> "StreamPull" @@ 12 :> "StreamCancel"
    @@ 13 :> "Close"

read_bool         == Byte({0, 1})
read_string       == Bytes(TRUE, Huge)
read_value_blob   == Bytes(FALSE, Huge)
read_optional(s)  == Opt("refused", s)

\* Ten optionals in wire order; the hard memory override is the last.
read_resource_limits == Rec([i \in 1..10 |-> read_optional(U32)])

read_global_defs ==
    List(Dep(<<U8, read_string, read_bool>>, 1,
             0 :> Nothing @@ 1 :> read_string @@ 2 :> read_value_blob
          @@ 3 :> Rec(<<read_string, read_string>>)))

read_import_bindings ==
    List(Dep(<<read_string, U8>>, 2,
             0 :> read_string @@ 1 :> List(Rec(<<read_string, Node(1)>>))))

read_import_rebinds == List(Rec(<<read_string, List(read_string)>>))

read_call == Rec(<<read_string, read_value_blob>>)

parse_code_fields ==
    <<read_string, read_optional(read_string), read_resource_limits, read_global_defs>>

parse_authenticate_payload == Whole(Rec(<<U16, Blob, Exactly(TokenLen)>>))

parse_run_payload ==
    Whole(Rec(<<U32>> \o parse_code_fields
              \o <<read_import_bindings, read_optional(read_call)>>))

parse_precompile_payload ==
    Whole(Rec(<<U32>> \o parse_code_fields \o <<read_import_bindings>>))

parse_prefix_run_payload ==
    Whole(Rec(<<U32, read_string, read_resource_limits, read_global_defs, read_import_rebinds,
                read_call>>))

parse_dispose_prefix_payload == Whole(Rec(<<read_string>>))

parse_terminate_payload == Whole(Rec(<<U32, Byte({0, 1})>>))

parse_stream_chunk_payload == Whole(Rec(<<U32, U32, Bytes(FALSE, ChunkMax)>>))

parse_stream_end_payload ==
    Whole(Dep(<<U32, U32, read_bool>>, 3, 1 :> Nothing @@ 0 :> read_optional(read_string)))

parse_stream_pull_payload == Whole(Rec(<<U32, U32, U32>>))

parse_stream_cancel_payload == Whole(Rec(<<U32, U32, read_string>>))

\* The one reader with its own primitives: an odd presence byte reads as
\* absent and bytes after the last field go unread.
parse_bridge_response_payload ==
    Leading(Dep(<<U32, U32, U8>>, 3,
                1 :> Opt("absent", Blob)
             @@ 0 :> Rec(<<read_string, read_string, read_string, Opt("absent", read_string),
                           Opt("absent", Blob)>>)))

RustReads ==
    [Authenticate   |-> parse_authenticate_payload,
     Run            |-> parse_run_payload,
     Precompile     |-> parse_precompile_payload,
     PrefixRun      |-> parse_prefix_run_payload,
     DisposePrefix  |-> parse_dispose_prefix_payload,
     BridgeResponse |-> parse_bridge_response_payload,
     Terminate      |-> parse_terminate_payload,
     \* The payload of these two is not looked at.
     Stats          |-> Leading(Nothing),
     Close          |-> Leading(Nothing),
     StreamChunk    |-> parse_stream_chunk_payload,
     StreamEnd      |-> parse_stream_end_payload,
     StreamPull     |-> parse_stream_pull_payload,
     StreamCancel   |-> parse_stream_cancel_payload]

----------------------------------------------------------------------------
(* Runtime to host: what wire.rs and ipc.rs write. *)

RustTypeByte ==
    [BridgeCall |-> 1, Result |-> 2, PrecompileResult |-> 3, Hello |-> 5, StatsResult |-> 6,
     RunComplete |-> 7, StreamPull |-> 8, StreamCancel |-> 9, StreamChunk |-> 10,
     StreamEnd |-> 11]

encode_string == Blob

encode_string_list == List(encode_string)

encode_optional(s) == Opt("refused", s)

encode_bridge_call_records ==
    List(Rec(<<encode_string, F64, F64, U32, U32, U32, U8>>))

\* code, name, message, stack, fields, reset, prefixStage, cause.
encode_run_error_payload ==
    Rec(<<encode_string, encode_string, encode_string, encode_optional(encode_string),
          encode_optional(Blob), encode_optional(Rec(<<U8, U32>>)), U8,
          encode_optional(Rec(<<encode_string, encode_string, encode_string,
                                encode_optional(encode_string)>>))>>)

encode_telemetry == <<F64, F64, F64, encode_bridge_call_records, encode_optional(U64)>>

encode_run_completion_payload ==
    Dep(<<U32, U32, U8>>, 3,
        1 :> Rec(<<U8, Blob, encode_string_list, encode_string_list, encode_string_list>>
                 \o encode_telemetry \o <<U8, U8>>)
     @@ 0 :> Rec(<<U8, U8, encode_run_error_payload, encode_string_list, encode_string_list>>
                 \o encode_telemetry))

encode_run_complete_payload ==
    Rec(<<U32, U8, F64, F64, F64, encode_string_list, encode_string_list,
          encode_bridge_call_records, encode_optional(Rec(<<encode_string, encode_string>>))>>)

encode_precompile_result_payload ==
    Dep(<<U32, U8>>, 2,
        1 :> Rec(<<U8, encode_string, U8>>) @@ 0 :> Rec(<<U8, U8, encode_run_error_payload>>))

encode_stats_payload ==
    Rec(<<U32, U32, U32, U32, U64, U64, U64, U64, U64, U8,
          List(Rec(<<encode_string, U32, U32>>))>>)

encode_bridge_call_header ==
    Dep(<<U32, U32, U8>>, 3,
        0 :> Rec(<<U8, encode_string, Blob>>)
     @@ 1 :> Rec(<<U8, encode_string, encode_string_list, Blob>>))

encode_hello_payload == Rec(<<U8, Blob, encode_string>>)

encode_stream_end_payload ==
    Dep(<<U32, U32, U8>>, 3, 1 :> Nothing @@ 0 :> encode_optional(encode_string))

encode_stream_pull_payload == Rec(<<U32, U32, U32>>)

encode_stream_cancel_payload == Rec(<<U32, U32, encode_string>>)

RustWrites ==
    [BridgeCall       |-> encode_bridge_call_header,
     Result           |-> encode_run_completion_payload,
     PrecompileResult |-> encode_precompile_result_payload,
     Hello            |-> encode_hello_payload,
     StatsResult      |-> encode_stats_payload,
     RunComplete      |-> encode_run_complete_payload,
     StreamPull       |-> encode_stream_pull_payload,
     StreamCancel     |-> encode_stream_cancel_payload,
     StreamChunk      |-> Rec(<<U32, U32, Blob>>),
     StreamEnd        |-> encode_stream_end_payload]

----------------------------------------------------------------------------
(* Runtime to host: what ipc.ts reads. *)

parseRustToTsMessageType ==
       1 :> "BridgeCall" @@ 2 :> "Result" @@ 3 :> "PrecompileResult" @@ 4 :> "Log"
    @@ 5 :> "Hello" @@ 6 :> "StatsResult" @@ 7 :> "RunComplete" @@ 8 :> "StreamPull"
    @@ 9 :> "StreamCancel" @@ 10 :> "StreamChunk" @@ 11 :> "StreamEnd"

readStringList == List(Blob)

readBridgeCallRecords == List(Rec(<<Blob, F64, F64, U32, U32, U32, Byte(0..3)>>))

readRunError ==
    Rec(<<Blob, Blob, Blob, Opt("absent", Blob), Opt("absent", Blob),
          Opt("refused", Rec(<<Byte(0..5), U32>>)), Byte({0, 1}),
          Opt("refused", Rec(<<Blob, Blob, Blob, Opt("absent", Blob)>>))>>)

decodeRunCompletionPayload ==
    LET telemetry == <<F64, F64, F64, readBridgeCallRecords, Opt("present", U64)>> IN
    Whole(Dep(<<U32, U32, Byte({0, 1})>>, 3,
              1 :> Rec(<<Byte({1}), Blob, readStringList, readStringList, readStringList>>
                       \o telemetry \o <<U8, U8>>)
           @@ 0 :> Rec(<<U8, Byte({1}), readRunError, readStringList, readStringList>>
                       \o telemetry)))

decodeRunCompletePayload ==
    Whole(Rec(<<U32, Byte(0..2), F64, F64, F64, readStringList, readStringList,
                readBridgeCallRecords, Opt("absent", Rec(<<Blob, Blob>>))>>))

decodePrecompileResultPayload ==
    Whole(Dep(<<U32, Byte({0, 1})>>, 2,
              1 :> Rec(<<Byte({1}), Blob, U8>>) @@ 0 :> Rec(<<U8, Byte({1}), readRunError>>)))

decodeStatsPayload ==
    Whole(Rec(<<U32, U32, U32, U32, U64, U64, U64, U64, U64, Byte({0, 1}),
                List(Rec(<<Blob, U32, U32>>))>>))

\* readImportKey keeps the specifier and the path as the bytes they came in.
decodeBridgeCallPayload ==
    Leading(Dep(<<U32, U32, Byte({0, 1})>>, 3,
                0 :> Rec(<<Byte({0}), Blob, Blob>>)
             @@ 1 :> Rec(<<Byte({1}), Key(Rec(<<Blob, List(Blob)>>)), Blob>>)))

TsReads ==
    [BridgeCall       |-> decodeBridgeCallPayload,
     Result           |-> decodeRunCompletionPayload,
     PrecompileResult |-> decodePrecompileResultPayload,
     Hello            |-> Leading(Rec(<<U8, Blob, Blob>>)),
     StatsResult      |-> decodeStatsPayload,
     RunComplete      |-> decodeRunCompletePayload,
     StreamPull       |-> Whole(Rec(<<U32, U32, U32>>)),
     StreamCancel     |-> Whole(Rec(<<U32, U32, Blob>>)),
     StreamChunk      |-> Whole(Rec(<<U32, U32, Blob>>)),
     StreamEnd        |-> Whole(Dep(<<U32, U32, U8>>, 3,
                                    1 :> Nothing @@ 0 :> Opt("absent", Blob)))]

\* encodeImportKey: how the host names an import handler in its dispatch map.
encodeImportKey(specifier, path) ==
    Enc(Rec(<<Blob, List(Blob)>>), <<specifier, path>>)

----------------------------------------------------------------------------
(* The envelope: a length prefix that counts the type byte and the payload. *)

encodeFrame(name, v) ==
    LET payload == Enc(TsWrites[name], v) IN
    BigEndian(4, Len(payload) + 1) \o <<TsTypeByte[name]>> \o payload

write_frame(name, v) ==
    LET payload == Enc(RustWrites[name], v) IN
    BigEndian(4, Len(payload) + 1) \o <<RustTypeByte[name]>> \o payload

\* What a reader makes of the bytes that have arrived: a whole frame, a need
\* for more, an orderly end (no byte of a next frame) or a broken stream.
NeedMore  == [is |-> "wait"]
Ended     == [is |-> "ended"]
Broken    == [is |-> "broken"]

\* Mutant: the length is believed whatever the ceiling is.
TakeUncapped(arrived, eof, most) ==
    IF Len(arrived) < 4
    THEN IF ~eof THEN NeedMore ELSE IF arrived = <<>> THEN Ended ELSE Broken
    ELSE LET n == FromBigEndian(SubSeq(arrived, 1, 4)) IN
         IF n = 0 THEN Broken
         ELSE IF Len(arrived) < 4 + n THEN IF eof THEN Broken ELSE NeedMore
         ELSE [is |-> "frame", type |-> arrived[5], payload |-> SubSeq(arrived, 6, 4 + n),
               size |-> 4 + n]

read_frame_with_limit(arrived, eof, most) ==
    IF Len(arrived) < 4
    THEN IF ~eof THEN NeedMore ELSE IF arrived = <<>> THEN Ended ELSE Broken
    ELSE LET n == FromBigEndian(SubSeq(arrived, 1, 4)) IN
         IF n = 0 \/ n > most THEN Broken
         ELSE IF Len(arrived) < 4 + n THEN IF eof THEN Broken ELSE NeedMore
         ELSE [is |-> "frame", type |-> arrived[5], payload |-> SubSeq(arrived, 6, 4 + n),
               size |-> 4 + n]

\* FrameReader: chunks are queued as they come and a frame is taken once the
\* bytes buffered cover it; the end of the socket rejects the pending read.
tryReadFrame(chunks, eof, most) ==
    LET arrived == FlattenSeq(chunks) IN
    IF Len(arrived) < 4 THEN IF eof THEN Ended ELSE NeedMore
    ELSE LET n == FromBigEndian(SubSeq(arrived, 1, 4)) IN
         IF n = 0 \/ n > most THEN Broken
         ELSE IF Len(arrived) < 4 + n THEN IF eof THEN Ended ELSE NeedMore
         ELSE [is |-> "frame", type |-> arrived[5], payload |-> SubSeq(arrived, 6, 4 + n),
               size |-> 4 + n]

\* take(n): the first n bytes leave the queue, across chunks if need be.
RECURSIVE TakeChunks(_, _)
TakeChunks(chunks, n) ==
    IF n = 0 THEN chunks
    ELSE IF Len(Head(chunks)) <= n THEN TakeChunks(Tail(chunks), n - Len(Head(chunks)))
    ELSE <<SubSeq(Head(chunks), n + 1, Len(Head(chunks)))>> \o Tail(chunks)

----------------------------------------------------------------------------
(* Limits, resolved where the frame is parsed. *)

\* Defaults of 2^16 and more are Huge, like every number on the wire here.
DefaultLimits == <<128, 5000, 30000, Huge, Huge, Huge, Huge, 10, 30000>>

\* Rounded square root of 8 * cap.
heap_band_mb(cap) ==
    IF cap = 0 THEN 0
    ELSE CHOOSE b \in 1..(8 * cap) : (2 * b - 1) * (2 * b - 1) < 32 * cap
                                     /\ 32 * cap < (2 * b + 1) * (2 * b + 1)

resolve_heap_lines(cap, override, band) ==
    CASE override = <<>> /\ band = "strict"  -> <<0, cap>>
      [] override = <<>> /\ band = "managed" -> <<cap, cap + heap_band_mb(cap)>>
      [] override = <<0>>                    -> <<0, 0>>
      [] OTHER -> IF band = "strict" \/ cap >= override[1] THEN <<0, override[1]>>
                  ELSE <<cap, override[1]>>

\* An absent field takes its default, an explicit zero stays (no limit).
ResourceLimits(raw, band) ==
    LET field(i) == IF raw[i] = <<>> THEN DefaultLimits[i] ELSE raw[i][1] IN
    resolve_heap_lines(field(1), raw[10], band) \o [i \in 1..8 |-> field(i + 1)]
=============================================================================
