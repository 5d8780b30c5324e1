------------------------------ MODULE R2wpCbor ------------------------------
(***************************************************************************)
(* The deterministic CBOR profile of R2WP, protocol/cbor.rs and the first  *)
(* part of protocol/encode.rs.  A byte string is modelled as a sequence of *)
(* tokens: a token is one CBOR head (major type, additional information,   *)
(* argument) with the string content that follows it, so that every way to *)
(* write a value that the decoder must refuse can be written down here.    *)
(*                                                                         *)
(* TLC computes with 32-bit integers.  Bounds up to 2^26 have their value; *)
(* the ones above keep their order: U32Max, 2^32, MaxSafeInteger, Int64Max *)
(* and U64Max are moved down to just above 2^26.                           *)
(***************************************************************************)
EXTENDS Integers, Sequences, SequencesExt

U32Max == 2^27 - 1
MaxSafeInteger == 2^28 - 1
Int64Max == 2^29 - 1
Int64Min == -(2^29)
U64Max == 2^30 - 1

MaxNestingDepth == 16
MaxMapEntries == 4096

-----------------------------------------------------------------------------
(* Values.  The content of a text or byte string is known by a name, a     *)
(* number (its place in the byte order, for ids that are sorted) and its   *)
(* length in bytes.                                                        *)

Content(name, num, len) == [name |-> name, num |-> num, len |-> len]

Null == [null |-> TRUE]
Bool(b) == [bool |-> b]
Unsigned(n) == [uint |-> n]
Negative(n) == [nint |-> n]
Bytes(c) == [bytes |-> c]
Text(c) == [text |-> c]
Array(items) == [array |-> items]
\* The entries of a map are pairs <<key, value>>.
Map(entries) == [map |-> entries]

Is(value, type) == type \in DOMAIN value

\* A text written in the source.
Word(s) == Text(Content(s, 0, Len(s)))

Keys(value) == {value.map[i][1] : i \in DOMAIN value.map}
Field(value, key) ==
    LET i == CHOOSE i \in DOMAIN value.map : value.map[i][1] = key
    IN  value.map[i][2]

-----------------------------------------------------------------------------
(* Tokens. *)

\* NoArgument: the input ends inside the head.
NoArgument == -1

Token(major, info, argument, body) ==
    [major |-> major, info |-> info, argument |-> argument, body |-> body]

ArgumentWidth(info) ==
    CASE info = 24 -> 1 [] info = 25 -> 2 [] info = 26 -> 4 [] info = 27 -> 8
      [] OTHER -> 0

TokenSize(t) ==
    1 + (IF t.argument = NoArgument THEN 0 ELSE ArgumentWidth(t.info))
      + (IF t.body = <<>> THEN 0 ELSE t.body[1].len)

Size(tokens) == FoldSeq(LAMBDA t, n : n + TokenSize(t), 0, tokens)

Remaining(tokens, i) == Size(SubSeq(tokens, i, Len(tokens)))

-----------------------------------------------------------------------------
(* encode.rs: write_head, encode_value *)

\* write_head: the shortest head that holds the argument.
WriteHead(major, argument, body) ==
    Token(major,
          CASE argument <= 23 -> argument
            [] argument \in 24 .. 255 -> 24
            [] argument \in 256 .. 65535 -> 25
            [] argument \in 65536 .. U32Max -> 26
            [] OTHER -> 27,
          argument, body)

SortedEntries(entries) == SortSeq(entries, LAMBDA a, b : a[1] < b[1])

\* The values encode_value does not refuse.
RECURSIVE Encodable(_, _)
Encodable(value, depth) ==
    /\ Is(value, "nint") => value.nint \in (-1 - U64Max) .. -1
    /\ Is(value, "array") =>
          /\ depth + 1 <= MaxNestingDepth
          /\ \A i \in DOMAIN value.array : Encodable(value.array[i], depth + 1)
    /\ Is(value, "map") =>
          /\ depth + 1 <= MaxNestingDepth
          /\ Len(value.map) <= MaxMapEntries
          /\ \A i, j \in DOMAIN value.map :
                i # j => value.map[i][1] # value.map[j][1]
          /\ \A i \in DOMAIN value.map : Encodable(value.map[i][2], depth + 1)

RECURSIVE EncodeValue(_)
EncodeValue(value) ==
    CASE Is(value, "null") -> <<Token(7, 22, 22, <<>>)>>
      [] Is(value, "bool") ->
            LET info == IF value.bool THEN 21 ELSE 20
            IN  <<Token(7, info, info, <<>>)>>
      [] Is(value, "uint") -> <<WriteHead(0, value.uint, <<>>)>>
      [] Is(value, "nint") -> <<WriteHead(1, -1 - value.nint, <<>>)>>
      [] Is(value, "bytes") -> <<WriteHead(2, value.bytes.len, <<value.bytes>>)>>
      [] Is(value, "text") -> <<WriteHead(3, value.text.len, <<value.text>>)>>
      [] Is(value, "array") ->
            FoldLeft(LAMBDA out, v : out \o EncodeValue(v),
                     <<WriteHead(4, Len(value.array), <<>>)>>, value.array)
      [] Is(value, "map") ->
            FoldLeft(LAMBDA out, e : out \o <<WriteHead(0, e[1], <<>>)>>
                                         \o EncodeValue(e[2]),
                     <<WriteHead(5, Len(value.map), <<>>)>>,
                     SortedEntries(value.map))

-----------------------------------------------------------------------------
(* cbor.rs: read_head, decode_value.  A result is [err |-> reason] or has  *)
(* the value and the index of the token after it.                          *)

Err(reason) == [err |-> reason]
Failed(result) == "err" \in DOMAIN result
Done(value, next) == [val |-> value, next |-> next]

\* Step applied to the result of an earlier step, which is computed once.
With(value, Step(_)) == CHOOSE r \in {Step(v) : v \in {value}} : TRUE

LeastArgument(info) ==
    CASE info = 24 -> 24 [] info = 25 -> 256 [] info = 26 -> 65536
      [] info = 27 -> U32Max + 1

\* Fault: an argument may be written longer than it needs.
ReadHeadAnyForm(tokens, i) ==
    IF i > Len(tokens) THEN Err("truncated")
    ELSE LET t == tokens[i]
         IN  CASE t.info \in 24 .. 27 /\ t.argument = NoArgument -> Err("truncated")
               [] t.info = 31 -> Err("indefinite_length")
               [] t.info \in 28 .. 30 -> Err("reserved_additional_info")
               [] OTHER -> Done(t.argument, i + 1)

ReadHead(tokens, i) ==
    IF i > Len(tokens) THEN Err("truncated")
    ELSE LET t == tokens[i]
             float == t.major = 7 /\ t.info \in 25 .. 27
         IN  CASE t.info \in 24 .. 27 /\ t.argument = NoArgument -> Err("truncated")
               [] /\ t.info \in 24 .. 27 /\ t.argument # NoArgument /\ ~float
                  /\ t.argument < LeastArgument(t.info) -> Err("non_shortest_form")
               [] t.info = 31 -> Err("indefinite_length")
               [] t.info \in 28 .. 30 -> Err("reserved_additional_info")
               [] OTHER -> Done(t.argument, i + 1)

\* The simple values and the refused major types; a head with additional
\* information 24 cannot carry 20..22 in shortest form.
DecodeSimple(t, next) ==
    CASE t.major = 6 -> Err("tag_not_allowed")
      [] t.info \in 25 .. 27 -> Err("float_not_allowed")
      [] t.argument \in {20, 21} -> Done(Bool(t.argument = 21), next)
      [] t.argument = 22 -> Done(Null, next)
      [] OTHER -> Err("simple_not_allowed")

DecodeString(tokens, i, argument) ==
    LET t == tokens[i]
        value == t.body[1]
    IN  CASE argument > MaxSafeInteger -> Err("length_out_of_range")
          [] t.body = <<>> \/ value.len < argument -> Err("truncated")
          [] t.major = 2 -> Done(Bytes(value), i + 1)
          [] t.major = 3 /\ value.name = "not_utf8" -> Err("invalid_utf8")
          [] OTHER -> Done(Text(value), i + 1)

RECURSIVE DecodeValue(_, _, _)
RECURSIVE DecodeItems(_, _, _, _)
RECURSIVE DecodeEntries(_, _, _, _, _)

DecodeValue(tokens, i, depth) ==
    LET head == ReadHead(tokens, i)
        t == tokens[i]
        n == head.val
    IN  IF Failed(head) THEN head
        ELSE CASE t.major = 0 -> Done(Unsigned(n), i + 1)
               [] t.major = 1 -> Done(Negative(-1 - n), i + 1)
               [] t.major \in {2, 3} -> DecodeString(tokens, i, n)
               [] t.major = 4 ->
                     CASE depth + 1 > MaxNestingDepth -> Err("nesting_depth_exceeded")
                       [] n > MaxSafeInteger -> Err("length_out_of_range")
                       [] n > Remaining(tokens, i + 1) -> Err("truncated")
                       [] OTHER -> DecodeItems(tokens, i + 1, n, depth + 1)
               [] t.major = 5 ->
                     CASE depth + 1 > MaxNestingDepth -> Err("nesting_depth_exceeded")
                       [] n > MaxMapEntries -> Err("map_entries_exceeded")
                       [] 2 * n > Remaining(tokens, i + 1) -> Err("truncated")
                       [] OTHER -> DecodeEntries(tokens, i + 1, n, depth + 1, <<>>)
               [] t.major \in {6, 7} -> DecodeSimple(t, i + 1)

\* n more items of an array.
DecodeItems(tokens, i, n, depth) ==
    IF n = 0 THEN Done(Array(<<>>), i)
    ELSE LET first == DecodeValue(tokens, i, depth)
             rest == DecodeItems(tokens, first.next, n - 1, depth)
         IN  IF Failed(first) THEN first
             ELSE IF Failed(rest) THEN rest
             ELSE Done(Array(<<first.val>> \o rest.val.array), rest.next)

\* n more entries of a map after the ones with the keys in seen: a key that
\* was seen anywhere before is a duplicate, not a key out of order.
DecodeEntries(tokens, i, n, depth, seen) ==
    IF n = 0 THEN Done(Map(<<>>), i)
    ELSE LET head == ReadHead(tokens, i)
             key == head.val
             value == DecodeValue(tokens, i + 1, depth)
             rest == DecodeEntries(tokens, value.next, n - 1, depth,
                                   Append(seen, key))
         IN  CASE Failed(head) -> head
               [] tokens[i].major # 0 -> Err("map_key_not_unsigned")
               [] key \in ToSet(seen) -> Err("duplicate_map_key")
               [] seen # <<>> /\ key < seen[Len(seen)] -> Err("map_key_order")
               [] Failed(value) -> value
               [] Failed(rest) -> rest
               [] OTHER -> Done(Map(<< <<key, value.val>> >> \o rest.val.map),
                                rest.next)

\* decode_deterministic_cbor: exactly one item and nothing after it.
DecodeCbor(tokens) ==
    LET result == DecodeValue(tokens, 1, 0)
    IN  CASE tokens = <<>> -> Err("empty_input")
          [] tokens # <<>> /\ ~Failed(result) /\ result.next # Len(tokens) + 1 ->
                Err("trailing_data")
          [] OTHER -> result
=============================================================================
