--------------------------- MODULE ResponseMachine --------------------------
(***************************************************************************)
(* The transition table of httpclient_parser_execute, the code Ragel       *)
(* generated from httpclient_parser.rl.                                    *)
(***************************************************************************)
EXTENDS Grammars

\* In a header name: any name, and one that goes on with a letter of a known name.
AnyName == <<Do({":"}, <<"write_field">>, 22), On(token, 21)>>
Name(symbols, next) == <<On(symbols, next)>> \o AnyName

\* In a header value that may still be the value of a known header.
Value(symbols, next) ==
  <<Do({"LF"}, <<"write_value">>, 20), Do({"CR"}, <<"write_value">>, 24), On(symbols, next), On(ANY, 23)>>

ChunkHeader1 ==
  Rows(1,
    << <<Do({"H"}, <<"mark">>, 8), Do(XDIGIT, <<"mark">>, 2)>>,
       <<Do({"LF"}, <<"chunk_size", "done">>, 120), Do({"CR"}, <<"chunk_size">>, 3),
         Do({";"}, <<"chunk_size">>, 4), On(XDIGIT, 2)>> >>)
  @@ Rows(120,
       << <<>> >>)

ChunkHeader2 ==
  Rows(3,
    << <<Do({"LF"}, <<"done">>, 120)>>,
       <<Do(token, <<"start_field">>, 5)>>,
       <<Do({"LF"}, <<"write_field", "start_value", "write_value", "done">>, 120),
         Do({"CR"}, <<"write_field", "start_value", "write_value">>, 3),
         Do({";"}, <<"write_field", "start_value", "write_value">>, 4),
         Do({"="}, <<"write_field", "start_value">>, 6), On(token, 5)>> >>)

ChunkHeader3 ==
  Rows(6,
    << <<Do(token, <<"start_value">>, 7)>>,
       <<Do({"LF"}, <<"write_value", "done">>, 120), Do({"CR"}, <<"write_value">>, 3),
         Do({";"}, <<"write_value">>, 4), On(token, 7)>> >>)

StatusLine ==
  Rows(8,
    << <<On({"T"}, 9)>>,
       <<On({"T"}, 10)>>,
       <<On({"P"}, 11)>>,
       <<On({"/"}, 12)>>,
       <<On(DIGIT, 13)>>,
       <<On({"."}, 14), On(DIGIT, 13)>>,
       <<On(DIGIT, 15)>>,
       <<Do({"SP"}, <<"http_version">>, 16), On(DIGIT, 15)>>,
       <<Do(DIGIT, <<"mark">>, 17)>>,
       <<Do({"SP"}, <<"status_code">>, 18), On(DIGIT, 17)>>,
       <<On({"LF"}, 0), Do(ANY, <<"mark">>, 19)>>,
       <<Do({"LF"}, <<"reason_phrase">>, 20), Do({"CR"}, <<"reason_phrase">>, 24), On(ANY, 19)>> >>)

Field1 ==
  Rows(20,
    << <<Do({"LF"}, <<"done">>, 120), On({"CR"}, 3), Do({"C", "c"}, <<"start_field">>, 25),
         Do({"T", "t"}, <<"start_field">>, 44), Do(token, <<"start_field">>, 21)>>,
      AnyName>>)

Field2 ==
  Rows(22,
    << <<Do({"LF"}, <<"start_value", "write_value">>, 20),
         Do({"CR"}, <<"start_value", "write_value">>, 24), Do(SPACE, <<"start_value">>, 22),
         Do(ANY, <<"start_value">>, 23)>>,
       <<Do({"LF"}, <<"write_value">>, 20), Do({"CR"}, <<"write_value">>, 24), On(ANY, 23)>>,
       <<On({"LF"}, 20)>> >>)

Connection1 ==
  Rows(25,
    <<Name({"O", "o"}, 26),
      Name({"N", "n"}, 27),
       <<On({"N", "n"}, 28), On({"T", "t"}, 101)>> \o AnyName,
      Name({"E", "e"}, 29)>>)

Connection2 ==
  Rows(29,
    <<Name({"C", "c"}, 30),
      Name({"T", "t"}, 31),
      Name({"I", "i"}, 32),
      Name({"O", "o"}, 33),
      Name({"N", "n"}, 34)>>)

Connection3 ==
  Rows(34,
    << <<Do({":"}, <<"write_field">>, 35), On(token, 21)>>,
       <<Do({"LF"}, <<"start_value", "write_value">>, 36),
         Do({"CR"}, <<"start_value", "write_value">>, 95), Do({"C", "c"}, <<"start_value">>, 96),
         Do(SPACE, <<"start_value">>, 35), Do(ANY, <<"start_value">>, 23)>> >>)

EmptyConnection ==
  Rows(36,
    << <<Do({"LF"}, <<"done">>, 122), On({"CR"}, 89), Do({"C", "c"}, <<"start_field">>, 90),
         Do({"T", "t"}, <<"start_field">>, 44), On(SPACE, 37), Do(token, <<"start_field">>, 21)>>,
       <<On({"C", "c"}, 38), On(SPACE, 37)>>,
       <<On({"L", "l"}, 39)>>,
       <<On({"O", "o"}, 40)>>,
       <<On({"S", "s"}, 41)>>,
       <<On({"E", "e"}, 42)>>,
       <<On({"LF"}, 43), On({"CR"}, 88)>>,
       <<Do({"LF"}, <<"write_connection_close", "done">>, 120),
         Do({"CR"}, <<"write_connection_close">>, 3),
         Do({"C", "c"}, <<"write_connection_close", "start_field">>, 25),
         Do({"T", "t"}, <<"write_connection_close", "start_field">>, 44),
         Do(token, <<"write_connection_close", "start_field">>, 21)>> >>)

TransferEncoding1 ==
  Rows(44,
    <<Name({"R", "r"}, 45),
      Name({"A", "a"}, 46),
      Name({"N", "n"}, 47),
      Name({"S", "s"}, 48)>>)

TransferEncoding2 ==
  Rows(48,
    <<Name({"F", "f"}, 49),
      Name({"E", "e"}, 50),
      Name({"R", "r"}, 51),
      Name({"-"}, 52),
      Name({"E", "e"}, 53)>>)

TransferEncoding3 ==
  Rows(53,
    <<Name({"N", "n"}, 54),
      Name({"C", "c"}, 55),
      Name({"O", "o"}, 56),
      Name({"D", "d"}, 57),
      Name({"I", "i"}, 58)>>)

TransferEncoding4 ==
  Rows(58,
    <<Name({"N", "n"}, 59),
      Name({"G", "g"}, 60),
       <<Do({":"}, <<"write_field">>, 61), On(token, 21)>>,
       <<Do({"LF"}, <<"start_value", "write_value">>, 62),
         Do({"CR"}, <<"start_value", "write_value">>, 80), Do({"C", "c"}, <<"start_value">>, 81),
         Do(SPACE, <<"start_value">>, 61), Do(ANY, <<"start_value">>, 23)>> >>)

EmptyTransferEncoding1 ==
  Rows(62,
    << <<Do({"LF"}, <<"done">>, 121), On({"CR"}, 72),
         Do({"C", "c"}, <<"start_value", "start_field">>, 73),
         Do({"T", "t"}, <<"start_field">>, 44), On(SPACE, 63), Do(token, <<"start_field">>, 21)>>,
       <<Do({"C", "c"}, <<"start_value">>, 64), On(SPACE, 63)>>,
       <<On({"H", "h"}, 65)>>,
       <<On({"U", "u"}, 66)>>,
       <<On({"N", "n"}, 67)>>,
       <<On({"K", "k"}, 68)>>,
       <<On({"E", "e"}, 69)>>,
       <<On({"D", "d"}, 70)>>,
       <<Do({"LF"}, <<"write_value", "trans_chunked">>, 20), Do({"CR"}, <<"write_value">>, 71)>>,
       <<Do({"LF"}, <<"trans_chunked">>, 20)>> >>)

EmptyTransferEncoding2 ==
  Rows(121,
    << <<Do({"C", "c"}, <<"start_value">>, 64), On(SPACE, 63)>> >>)
  @@ Rows(72,
       << <<Do({"LF"}, <<"done">>, 121), Do({"C", "c"}, <<"start_value">>, 64), On(SPACE, 63)>>,
          <<On({"H", "h"}, 74), On({"O", "o"}, 26)>> \o AnyName,
         Name({"U", "u"}, 75),
         Name({"N", "n"}, 76)>>)

EmptyTransferEncoding3 ==
  Rows(76,
    <<Name({"K", "k"}, 77),
      Name({"E", "e"}, 78),
      Name({"D", "d"}, 79),
       <<Do({"LF"}, <<"write_value", "trans_chunked">>, 20),
         Do({"CR"}, <<"write_value">>, 71)>> \o AnyName,
       <<On({"LF"}, 62), Do({"C", "c"}, <<"start_value">>, 64), On(SPACE, 63)>> >>)

Chunked ==
  Rows(81,
    <<Value({"H", "h"}, 82),
      Value({"U", "u"}, 83),
      Value({"N", "n"}, 84),
      Value({"K", "k"}, 85),
      Value({"E", "e"}, 86),
      Value({"D", "d"}, 87),
       <<Do({"LF"}, <<"write_value", "trans_chunked">>, 20), Do({"CR"}, <<"write_value">>, 71),
         On(ANY, 23)>> >>)

EmptyConnectionEnd1 ==
  Rows(88,
    << <<On({"LF"}, 43)>> >>)
  @@ Rows(122,
       << <<On({"C", "c"}, 38), On(SPACE, 37)>> >>)
  @@ Rows(89,
       << <<Do({"LF"}, <<"done">>, 122), On({"C", "c"}, 38), On(SPACE, 37)>>,
          <<On({"L", "l"}, 91), On({"O", "o"}, 26)>> \o AnyName,
         Name({"O", "o"}, 92),
         Name({"S", "s"}, 93)>>)

EmptyConnectionEnd2 ==
  Rows(93,
    <<Name({"E", "e"}, 94),
       <<On({"LF"}, 43), On({"CR"}, 88)>> \o AnyName,
       <<On({"LF"}, 36), On({"C", "c"}, 38), On(SPACE, 37)>> >>)

CloseValue ==
  Rows(96,
    <<Value({"L", "l"}, 97),
      Value({"O", "o"}, 98),
      Value({"S", "s"}, 99),
      Value({"E", "e"}, 100),
       <<Do({"LF"}, <<"write_value">>, 43), Do({"CR"}, <<"write_value">>, 88), On(ANY, 23)>> >>)

ContentLength1 ==
  Rows(101,
    <<Name({"E", "e"}, 102),
      Name({"N", "n"}, 103),
      Name({"T", "t"}, 104),
      Name({"-"}, 105),
      Name({"L", "l"}, 106)>>)

ContentLength2 ==
  Rows(106,
    <<Name({"E", "e"}, 107),
      Name({"N", "n"}, 108),
      Name({"G", "g"}, 109),
      Name({"T", "t"}, 110),
      Name({"H", "h"}, 111)>>)

ContentLength3 ==
  Rows(111,
    << <<Do({":"}, <<"write_field">>, 112), On(token, 21)>>,
       <<Do({"LF"}, <<"start_value", "write_value">>, 113),
         Do({"CR"}, <<"start_value", "write_value">>, 118), Do(SPACE, <<"start_value">>, 112),
         Do(DIGIT, <<"start_value">>, 119), Do(ANY, <<"start_value">>, 23)>> >>)

EmptyContentLength1 ==
  Rows(113,
    << <<Do({"LF"}, <<"done">>, 123), On({"CR"}, 116), Do({"C", "c"}, <<"start_field">>, 25),
         Do({"T", "t"}, <<"start_field">>, 44), On(SPACE, 114),
         Do(DIGIT, <<"start_value", "start_field">>, 117), Do(token, <<"start_field">>, 21)>>,
       <<On(SPACE, 114), Do(DIGIT, <<"start_value">>, 115)>>,
       <<Do({"LF"}, <<"write_content_len", "write_value">>, 20),
         Do({"CR"}, <<"write_content_len", "write_value">>, 24), On(DIGIT, 115)>> >>)
  @@ Rows(123,
       << <<On(SPACE, 114), Do(DIGIT, <<"start_value">>, 115)>> >>)
  @@ Rows(116,
       << <<Do({"LF"}, <<"done">>, 123), On(SPACE, 114), Do(DIGIT, <<"start_value">>, 115)>>,
          <<Do({"LF"}, <<"write_content_len", "write_value">>, 20),
            Do({"CR"}, <<"write_content_len", "write_value">>, 24), On(DIGIT, 117)>> \o AnyName>>)

EmptyContentLength2 ==
  Rows(118,
    << <<On({"LF"}, 113), On(SPACE, 114), Do(DIGIT, <<"start_value">>, 115)>>,
       <<Do({"LF"}, <<"write_content_len", "write_value">>, 20),
         Do({"CR"}, <<"write_content_len", "write_value">>, 24), On(DIGIT, 119), On(ANY, 23)>> >>)

ResponseTable ==
  ChunkHeader1 @@ ChunkHeader2 @@ ChunkHeader3 @@ StatusLine @@ Field1 @@ Field2
  @@ Connection1 @@ Connection2 @@ Connection3 @@ EmptyConnection @@ TransferEncoding1
  @@ TransferEncoding2 @@ TransferEncoding3 @@ TransferEncoding4 @@ EmptyTransferEncoding1
  @@ EmptyTransferEncoding2 @@ EmptyTransferEncoding3 @@ Chunked @@ EmptyConnectionEnd1
  @@ EmptyConnectionEnd2 @@ CloseValue @@ ContentLength1 @@ ContentLength2
  @@ ContentLength3 @@ EmptyContentLength1 @@ EmptyContentLength2
=============================================================================
