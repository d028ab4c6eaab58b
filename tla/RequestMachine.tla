--------------------------- MODULE RequestMachine ---------------------------
(***************************************************************************)
(* The transition table of http_parser_execute, the code Ragel generated   *)
(* from http11_parser.rl. A row is the "case" of a state with the actions  *)
(* on the way to the next one; the edge on the bytes ^, { and } that need  *)
(* uri_relaxed is on the symbols "^+", "{+" and "}+".                      *)
(***************************************************************************)
EXTENDS Grammars

\* Two hexadecimal digits, then state z.
Percent(f, z) == << <<On(XDIGIT, f + 1)>>, <<On(XDIGIT, z)>> >>

\* Up to four hexadecimal digits before ":" (then next) or one of the given ends;
\* in DottedH16 the first digit may also be all of an octet.
H16(f, next, ends) ==
  [i \in 1 .. 4 |-> ends \o <<On({":"}, next)>> \o (IF i < 4 THEN <<On(XDIGIT, f + i)>> ELSE <<>>)]

DottedH16(f, next, ends) == [H16(f, next, ends) EXCEPT ![1] = <<On({"."}, 55)>> \o @]

\* An octet whose first digit was 1 (f) or 2 (f + 2), ended by the symbol end; z after its last digit.
Octet(f, end, next, z) ==
  << <<On({end}, next), On(DIGIT, f + 1)>>,
     <<On({end}, next), On(DIGIT, z)>>,
     <<On({end}, next), On({"0"}, f + 3), On({"5"}, f + 4)>>,
     <<On(DIGIT, z)>>,
     <<On({"0"}, z)>> >>

\* A group that may be the first octet of an IPv4 address; h is the group after one digit.
Mixed(f, h, next, ends) ==
  LET colon == ends \o <<On({":"}, next)>>
      dot == colon \o <<On({"."}, 55)>>
  IN  << dot \o <<On(DIGIT, f + 1), On(HEX, h)>>,
         dot \o <<On(DIGIT, f + 2), On(HEX, h + 1)>>,
         dot \o <<On(XDIGIT, h + 2)>>,
         dot \o <<On({"0"}, f + 4), On({"5"}, f + 5), On(XDIGIT, h)>>,
         colon \o <<On(DIGIT, f + 2), On(HEX, h + 1)>>,
         colon \o <<On({"0"}, f + 2), On(XDIGIT, h + 1)>>,
         colon \o <<On(XDIGIT, h)>> >>

Close == <<On({"]"}, 61)>>

\* The ways out of a path.
PathEnd ==
  <<Do({"SP"}, <<"request_path", "request_uri">>, 4),
    Do({"#"}, <<"request_path", "request_uri">>, 20),
    Do({"?"}, <<"request_path">>, 29)>>

RequestLine1 ==
  Rows(1,
    << <<Do({"<"}, <<"mark">>, 194), Do({"@"}, <<"mark">>, 198),
         Do(UPPER \cup DIGIT, <<"mark">>, 2)>>,
       <<Do({"SP"}, <<"request_method">>, 3), On(UPPER \cup DIGIT, 175)>>,
       <<Do({"SP"}, <<"mark", "request_path", "request_uri">>, 4),
         Do({"#"}, <<"mark", "request_path", "request_uri">>, 20), Do({"%"}, <<"mark">>, 24),
         Do({"/"}, <<"mark">>, 33), Do({"?"}, <<"mark", "request_path">>, 29),
         Do(sub_delims \cup DIGIT \cup {"-", ".", "@"}, <<"mark">>, 19),
         Do(ALPHA, <<"mark">>, 173)>> >>)

RequestLine2 ==
  Rows(4,
    << <<Do({"H"}, <<"mark">>, 5)>>,
       <<On({"T"}, 6)>>,
       <<On({"T"}, 7)>>,
       <<On({"P"}, 8)>>,
       <<On({"/"}, 9)>>,
       <<On({"1"}, 10)>>,
       <<On({"."}, 11)>>,
       <<On({"0", "1"}, 12)>>,
       <<Do({"LF"}, <<"http_version">>, 13), Do({"CR"}, <<"http_version">>, 17)>> >>)

Header1 ==
  Rows(13,
    << <<Do({"LF"}, <<"start_field", "done">>, 348), Do({"CR"}, <<"start_field">>, 18),
         Do(FIELD, <<"start_field">>, 14)>>,
       <<Do({":"}, <<"write_field">>, 15), On(FIELD, 14)>>,
       <<On({"DEL", "NUL"}, 0), Do({"LF"}, <<"start_value", "write_value">>, 13),
         Do({"CR"}, <<"start_value", "write_value">>, 17), Do(BLANK, <<"start_value">>, 15),
         Do(ANY, <<"start_value">>, 16)>>,
       <<On({"DEL", "NUL"}, 0), Do({"LF"}, <<"write_value">>, 13),
         Do({"CR"}, <<"write_value">>, 17), On(ANY, 16)>> >>)

Header2 ==
  Rows(17,
    << <<On({"LF"}, 13)>> >>)
  @@ Rows(348,
       << <<Do({":"}, <<"write_field">>, 15), On(FIELD, 14)>> >>)
  @@ Rows(18,
       << <<Do({"LF"}, <<"done">>, 348), Do({":"}, <<"write_field">>, 15), On(FIELD, 14)>> >>)

RelativePath ==
  Rows(19,
    << <<On({"%"}, 24), On({"/"}, 26), On(pchar_char \ {":", "x80"}, 19)>> \o PathEnd>>)

Fragment1 ==
  Rows(20,
    << <<Do({"SP"}, <<"mark", "fragment">>, 4), Do({"%"}, <<"mark">>, 22),
         Do(pchar_char \cup {"/", "?"}, <<"mark">>, 21)>> >>)

Fragment2 ==
  Rows(21,
    << <<Do({"SP"}, <<"fragment">>, 4), On({"%"}, 22), On(pchar_char \cup {"/", "?"}, 21)>> >>
    \o Percent(22, 21))

RelativePct ==
  Rows(24, Percent(24, 19))

Path ==
  Rows(26,
    << <<On({"%"}, 27), On(pchar_char \cup {"/"}, 26)>> \o PathEnd>>
    \o Percent(27, 26))

Query1 ==
  Rows(29,
    << <<Do({"SP"}, <<"start_query", "query_string", "request_uri">>, 4),
         Do({"#"}, <<"start_query", "query_string", "request_uri">>, 20),
         Do({"%"}, <<"start_query">>, 31), Do(pchar_char \cup {"/", "?"}, <<"start_query">>, 30)>>,
       <<Do({"SP"}, <<"query_string", "request_uri">>, 4),
         Do({"#"}, <<"query_string", "request_uri">>, 20), On({"%"}, 31),
         On(pchar_char \cup {"/", "?"}, 30)>> >>)

Query2 ==
  Rows(31, Percent(31, 30))

Slash ==
  Rows(33,
    << <<On({"%"}, 27), On({"/"}, 34), On(pchar_char, 26)>> \o PathEnd>>)

Authority1 ==
  Rows(34,
    << <<On({"%"}, 36), On({"/"}, 26), On({":"}, 38), On({"@"}, 42), On({"["}, 47),
         On(reg_char, 35)>> \o PathEnd,
       <<On({"%"}, 36), On({"/"}, 26), On({":"}, 38), On({"@"}, 42), On(reg_char, 35)>> \o PathEnd>>
    \o Percent(36, 35))

Authority2 ==
  Rows(38,
    << <<On({"%"}, 40), On({"/"}, 26), On({"@"}, 42), On(DIGIT, 38),
         On(pchar_char \ {"x80"}, 39)>> \o PathEnd,
       <<On({"%"}, 40), On({"@"}, 42), On(pchar_char \ {"x80"}, 39)>> >>
    \o Percent(40, 39))

Authority3 ==
  Rows(42,
    << <<On({"%"}, 44), On({"/"}, 26), On({":"}, 46), On({"["}, 47), On(reg_char, 43)>> \o PathEnd,
       <<On({"%"}, 44), On({"/"}, 26), On({":"}, 46), On(reg_char, 43)>> \o PathEnd>>
    \o Percent(44, 43)
    \o << <<On({"/"}, 26), On(DIGIT, 46)>> \o PathEnd>>)

Literal1 ==
  Rows(47,
    << <<On({"x06"}, 48), On({":"}, 167), On({"v"}, 169), On(XDIGIT, 91)>>,
       <<On(XDIGIT, 49)>> >>
    \o H16(49, 53, <<>>)
    \o << <<On({"1"}, 84), On({"2"}, 87), On(DIGIT, 54), On(HEX, 90)>>,
          <<On({"."}, 55), On({":"}, 80), On(XDIGIT, 77)>>,
          <<On({"1"}, 72), On({"2"}, 74), On(DIGIT, 56)>>,
          <<On({"."}, 57)>>,
          <<On({"1"}, 67), On({"2"}, 69), On(DIGIT, 58)>> >>)

Literal2 ==
  Rows(58,
    << <<On({"."}, 59)>>,
       <<On({"1"}, 62), On({"2"}, 64), On(DIGIT, 60)>>,
       <<On({"]"}, 61)>>,
       <<On({"/"}, 26), On({":"}, 46)>> \o PathEnd>>
    \o Octet(62, "]", 61, 60) \o Octet(67, ".", 59, 58))

Literal3 ==
  Rows(72,
    Octet(72, ".", 57, 56)
    \o << <<On({":"}, 80), On(XDIGIT, 78)>>,
          <<On({":"}, 80), On(XDIGIT, 79)>>,
          <<On({":"}, 80)>>,
          <<On(XDIGIT, 81)>>,
          <<On({"]"}, 61), On(XDIGIT, 82)>>,
          <<On({"]"}, 61), On(XDIGIT, 83)>>,
          <<On({"]"}, 61), On(XDIGIT, 60)>> >>)

Literal4 ==
  Rows(84, Mixed(84, 77, 80, <<>>))

LiteralGroups1 ==
  Rows(91,
    H16(91, 95, <<>>)
    \o << <<On({":"}, 166), On(XDIGIT, 96)>> >>
    \o H16(96, 100, <<>>)
    \o << <<On({":"}, 165), On(XDIGIT, 101)>> >>)

LiteralGroups2 ==
  Rows(101,
    H16(101, 105, <<>>)
    \o << <<On({":"}, 164), On(XDIGIT, 106)>> >>
    \o H16(106, 110, <<>>)
    \o << <<On({":"}, 163), On(XDIGIT, 111)>> >>)

LiteralGroups3 ==
  Rows(111,
    H16(111, 115, <<>>)
    \o << <<On({":"}, 151), On(XDIGIT, 116)>> >>
    \o H16(116, 120, <<>>)
    \o << <<On({":"}, 150), On(XDIGIT, 121)>> >>)

LiteralGroups4 ==
  Rows(121,
    H16(121, 125, <<>>)
    \o << <<On({":"}, 126), On(XDIGIT, 121)>> >>)

LiteralTail1 ==
  Rows(126,
    << <<On({"1"}, 143), On({"2"}, 146), On({"]"}, 61), On({"x02", "x03"}, 48), On(DIGIT, 127),
         On(HEX, 149)>> >>
    \o DottedH16(127, 131, Close)
    \o << <<On({"1"}, 136), On({"2"}, 139), On(DIGIT, 132), On(HEX, 142)>> >>)

LiteralTail2 ==
  Rows(132, DottedH16(132, 80, Close))

LiteralTail3 ==
  Rows(136, Mixed(136, 133, 80, Close))

LiteralTail4 ==
  Rows(143,
    Mixed(143, 128, 131, Close)
    \o << <<On({"1"}, 143), On({"2"}, 146), On({"x02", "x03"}, 48), On(DIGIT, 127), On(HEX, 149)>> >>)

LiteralTail5 ==
  Rows(151,
    << <<On({"1"}, 156), On({"2"}, 159), On({"x02", "x03"}, 48), On(DIGIT, 152), On(HEX, 162)>> >>
    \o DottedH16(152, 131, <<>>))

LiteralTail6 ==
  Rows(156,
    Mixed(156, 153, 131, <<>>)
    \o << <<On({"x02", "x03"}, 48), On(XDIGIT, 49)>>,
          <<On({"x02", "x03"}, 48)>>,
          <<On({"x03"}, 48)>> >>)

LiteralTail7 ==
  Rows(166,
    << <<On({"x04"}, 48)>>,
       <<On({":"}, 168)>>,
       <<On({"1"}, 143), On({"2"}, 146), On({"]"}, 61), On({"x02", "x03", "x04", "x05"}, 48),
         On(DIGIT, 127), On(HEX, 149)>>,
       <<On(XDIGIT, 170)>>,
       <<On({"."}, 171), On(XDIGIT, 170)>>,
       <<On(pchar_char \ {"@", "x80"}, 172)>> >>)

LiteralTail8 ==
  Rows(172,
    << <<On({"]"}, 61), On(pchar_char \ {"@", "x80"}, 172)>> >>)

Scheme ==
  Rows(173,
    << <<On({"%"}, 24), On({"/"}, 26), On({":"}, 174),
         On({"!", "(", ";", "=", "@", "^+", "{+", "}+"}, 19), On(reg_char, 173)>> \o PathEnd,
       <<Do({"SP"}, <<"mark", "request_path", "request_uri">>, 4),
         Do({"#"}, <<"mark", "request_path", "request_uri">>, 20), Do({"%"}, <<"mark">>, 27),
         Do({"/"}, <<"mark">>, 33), Do({"?"}, <<"mark", "request_path">>, 29),
         Do(pchar_char, <<"mark">>, 26)>> >>)

Method1 ==
  Rows(175,
    << <<Do({"SP"}, <<"request_method">>, 3), On(UPPER \cup DIGIT, 176)>>,
       <<Do({"SP"}, <<"request_method">>, 3), On(UPPER \cup DIGIT, 177)>>,
       <<Do({"SP"}, <<"request_method">>, 3), On(UPPER \cup DIGIT, 178)>>,
       <<Do({"SP"}, <<"request_method">>, 3), On(UPPER \cup DIGIT, 179)>>,
       <<Do({"SP"}, <<"request_method">>, 3), On(UPPER \cup DIGIT, 180)>>,
       <<Do({"SP"}, <<"request_method">>, 3), On(UPPER \cup DIGIT, 181)>>,
       <<Do({"SP"}, <<"request_method">>, 3), On(UPPER \cup DIGIT, 182)>>,
       <<Do({"SP"}, <<"request_method">>, 3), On(UPPER \cup DIGIT, 183)>>,
       <<Do({"SP"}, <<"request_method">>, 3), On(UPPER \cup DIGIT, 184)>>,
       <<Do({"SP"}, <<"request_method">>, 3), On(UPPER \cup DIGIT, 185)>>,
       <<Do({"SP"}, <<"request_method">>, 3), On(UPPER \cup DIGIT, 186)>>,
       <<Do({"SP"}, <<"request_method">>, 3), On(UPPER \cup DIGIT, 187)>> >>)

Method2 ==
  Rows(187,
    << <<Do({"SP"}, <<"request_method">>, 3), On(UPPER \cup DIGIT, 188)>>,
       <<Do({"SP"}, <<"request_method">>, 3), On(UPPER \cup DIGIT, 189)>>,
       <<Do({"SP"}, <<"request_method">>, 3), On(UPPER \cup DIGIT, 190)>>,
       <<Do({"SP"}, <<"request_method">>, 3), On(UPPER \cup DIGIT, 191)>>,
       <<Do({"SP"}, <<"request_method">>, 3), On(UPPER \cup DIGIT, 192)>>,
       <<Do({"SP"}, <<"request_method">>, 3), On(UPPER \cup DIGIT, 193)>> >>)

\* Variant: the final state of an XML request is missing.
XmlEndless ==
  Rows(193,
    << <<Do({"SP"}, <<"request_method">>, 3)>>,
       <<On(ALPHA \cup XDIGIT \cup {"-", "."}, 195)>>,
       <<Do(SPACE \cup {"/", ">"}, <<"request_path">>, 196),
         On(ALPHA \cup XDIGIT \cup {"-", "."}, 195)>>,
       <<On({">"}, 197), On(ANY, 196)>>,
       <<Do({"NUL"}, <<"xml", "done">>, 349), On({">"}, 197), On(ANY, 196)>> >>)

Xml ==
  Rows(193,
    << <<Do({"SP"}, <<"request_method">>, 3)>>,
       <<On(ALPHA \cup XDIGIT \cup {"-", "."}, 195)>>,
       <<Do(SPACE \cup {"/", ">"}, <<"request_path">>, 196),
         On(ALPHA \cup XDIGIT \cup {"-", "."}, 195)>>,
       <<On({">"}, 197), On(ANY, 196)>>,
       <<Do({"NUL"}, <<"xml", "done">>, 349), On({">"}, 197), On(ANY, 196)>> >>)
  @@ Rows(349,
       << <<>> >>)

SocketStart ==
  Rows(198,
    << <<Do({"SP"}, <<"request_path">>, 199), On({"%"}, 203), On({"/"}, 208),
         On(pchar_char \ {":", "x80"}, 202)>>,
       <<Do({"{", "{+"}, <<"mark">>, 200)>>,
       <<On({"}", "}+"}, 201), On(ANY, 200)>>,
       <<Do({"NUL"}, <<"json", "done">>, 349), On({"}", "}+"}, 201), On(ANY, 200)>> >>)

SocketPath1 ==
  Rows(202,
    << <<Do({"SP"}, <<"request_path">>, 199), On({"%"}, 203), On({"/"}, 205),
         On(pchar_char \ {":", "x80"}, 202)>> >>
    \o Percent(203, 202)
    \o << <<Do({"SP"}, <<"request_path">>, 199), On({"%"}, 206), On(pchar_char \cup {"/"}, 205)>> >>
    \o Percent(206, 205))

SocketPath2 ==
  Rows(208,
    << <<Do({"SP"}, <<"request_path">>, 199), On({"%"}, 206), On({"/"}, 209),
         On(pchar_char, 205)>> >>)

(***************************************************************************)
(* States 209 to 347 parse the path of a socket message after "@".  They   *)
(* are the states 34 to 172 once more, without a query and a fragment, and *)
(* with a space to state 199 as the only end of the path.                  *)
(***************************************************************************)
SocketTarget(t) == IF t = 26 THEN 205 ELSE t + 175

SocketEdge(e) ==
  IF e.on = {"SP"} THEN Do({"SP"}, <<"request_path">>, 199) ELSE On(e.on, SocketTarget(e.to))

Socket(rows) ==
  [s \in {r + 175 : r \in DOMAIN rows} |->
     LET kept == SelectSeq(rows[s - 175], LAMBDA e : e.on \notin {{"#"}, {"?"}})
     IN  [i \in DOMAIN kept |-> SocketEdge(kept[i])]]

SocketAuthority1 == Socket(Authority1)
SocketAuthority2 == Socket(Authority2)
SocketAuthority3 == Socket(Authority3)
SocketLiteral1 == Socket(Literal1)
SocketLiteral2 == Socket(Literal2)
SocketLiteral3 == Socket(Literal3)
SocketLiteral4 == Socket(Literal4)
SocketLiteralGroups1 == Socket(LiteralGroups1)
SocketLiteralGroups2 == Socket(LiteralGroups2)
SocketLiteralGroups3 == Socket(LiteralGroups3)
SocketLiteralGroups4 == Socket(LiteralGroups4)
SocketLiteralTail1 == Socket(LiteralTail1)
SocketLiteralTail2 == Socket(LiteralTail2)
SocketLiteralTail3 == Socket(LiteralTail3)
SocketLiteralTail4 == Socket(LiteralTail4)
SocketLiteralTail5 == Socket(LiteralTail5)
SocketLiteralTail6 == Socket(LiteralTail6)
SocketLiteralTail7 == Socket(LiteralTail7)
SocketLiteralTail8 == Socket(LiteralTail8)

RequestTable ==
  RequestLine1 @@ RequestLine2 @@ Header1 @@ Header2 @@ RelativePath @@ Fragment1
  @@ Fragment2 @@ RelativePct @@ Path @@ Query1 @@ Query2 @@ Slash @@ Authority1
  @@ Authority2 @@ Authority3 @@ Literal1 @@ Literal2 @@ Literal3 @@ Literal4
  @@ LiteralGroups1 @@ LiteralGroups2 @@ LiteralGroups3 @@ LiteralGroups4 @@ LiteralTail1
  @@ LiteralTail2 @@ LiteralTail3 @@ LiteralTail4 @@ LiteralTail5 @@ LiteralTail6
  @@ LiteralTail7 @@ LiteralTail8 @@ Scheme @@ Method1 @@ Method2 @@ Xml @@ SocketStart
  @@ SocketPath1 @@ SocketPath2 @@ SocketAuthority1 @@ SocketAuthority2
  @@ SocketAuthority3 @@ SocketLiteral1 @@ SocketLiteral2 @@ SocketLiteral3
  @@ SocketLiteral4 @@ SocketLiteralGroups1 @@ SocketLiteralGroups2
  @@ SocketLiteralGroups3 @@ SocketLiteralGroups4 @@ SocketLiteralTail1
  @@ SocketLiteralTail2 @@ SocketLiteralTail3 @@ SocketLiteralTail4 @@ SocketLiteralTail5
  @@ SocketLiteralTail6 @@ SocketLiteralTail7 @@ SocketLiteralTail8
=============================================================================
