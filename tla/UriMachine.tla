----------------------------- MODULE UriMachine -----------------------------
(***************************************************************************)
(* The transition table of Uri::Create, the code Ragel generated from      *)
(* uri.rl.                                                                 *)
(***************************************************************************)
EXTENDS Grammars

\* Two hexadecimal digits, then state z.
Percent(f, z) == << <<On(XDIGIT, f + 1)>>, <<On(XDIGIT, z)>> >>

\* Up to four hexadecimal digits before ":" (then next) or one of the given ends;
\* in DottedH16 the first digit may also be all of an octet.
H16(f, next, ends) ==
  [i \in 1 .. 4 |-> ends \o <<On({":"}, next)>> \o (IF i < 4 THEN <<On(XDIGIT, f + i)>> ELSE <<>>)]

DottedH16(f, next, ends) == [H16(f, next, ends) EXCEPT ![1] = <<On({"."}, 72)>> \o @]

\* Variant: 25 may be followed by any digit.
OctetLax(f, end, next, z) ==
  << <<On({end}, next), On(DIGIT, f + 1)>>,
     <<On({end}, next), On(DIGIT, z)>>,
     <<On({end}, next), On({"5"}, f + 3), On(DIGIT, z)>>,
     <<On({end}, next), On(DIGIT, z)>> >>

\* An octet whose first digit was 1 (f) or 2 (f + 2), ended by the symbol end; z after its last digit.
Octet(f, end, next, z) ==
  << <<On({end}, next), On(DIGIT, f + 1)>>,
     <<On({end}, next), On(DIGIT, z)>>,
     <<On({end}, next), On({"5"}, f + 3), On(DIGIT, z)>>,
     <<On({end}, next), On(DIGIT \ {"6"}, z)>> >>

\* A group that may be the first octet of an IPv4 address; h is the group after one digit.
Mixed(f, h, next, ends) ==
  LET colon == ends \o <<On({":"}, next)>>
      dot == colon \o <<On({"."}, 72)>>
  IN  << dot \o <<On(DIGIT, f + 1), On(HEX, h)>>,
         dot \o <<On(DIGIT, f + 2), On(HEX, h + 1)>>,
         dot \o <<On(XDIGIT, h + 2)>>,
         dot \o <<On({"5"}, f + 5), On(DIGIT, f + 4), On(HEX, h)>>,
         dot \o <<On(XDIGIT, h + 1)>>,
         dot \o <<On(DIGIT \ {"6"}, f + 2), On(XDIGIT, h + 1)>>,
         dot \o <<On(DIGIT, f + 4), On(HEX, h)>>,
         colon \o <<On(XDIGIT, h)>> >>

Close == <<On({"]"}, 460)>>

\* Variant: a host before "?" is not saved.
HostEndUnsaved(port) ==
  <<Do({"#"}, <<"save_host">>, 453), Do({"/"}, <<"save_host">>, 455),
    Do({":"}, <<"save_host">>, port), On({"?"}, 456)>>

\* The ways out of a host; port is the state after ":".
HostEnd(port) ==
  <<Do({"#"}, <<"save_host">>, 453), Do({"/"}, <<"save_host">>, 455),
    Do({":"}, <<"save_host">>, port), Do({"?"}, <<"save_host">>, 456)>>

\* The rest of a host name, where a user may no longer or may still follow.
HostName == HostEnd(461) \o <<On({"%"}, 36), On(reg_char, 470)>>
UserName ==
  HostEnd(468) \o <<On({"%"}, 31), Do({"@"}, <<"save_userinfo">>, 469), On(reg_char, 467)>>

Relative ==
  Rows(451,
    << <<On({"#"}, 453), On({"%"}, 3), On({"/"}, 458), On({"?"}, 456),
         On(DIGIT \cup sub_delims \cup {"-", ".", "@", "x80"}, 452), Do(ALPHA, <<"mark">>, 508)>>,
       <<On({"#"}, 453), On({"%"}, 3), On({"/"}, 455), On({"?"}, 456),
         On(pchar_char \ {":"}, 452)>> >>)

Fragment1 ==
  Rows(453,
    << <<Do({"%"}, <<"mark">>, 1), Do(pchar_char \cup {"/", "?"}, <<"mark">>, 454)>> >>)

Fragment2 ==
  Rows(454,
    << <<On({"%"}, 1), On(pchar_char \cup {"/", "?"}, 454)>> >>)
  @@ Rows(1,
       Percent(1, 454) \o Percent(3, 452))
  @@ Rows(455,
       << <<On({"#"}, 453), On({"%"}, 5), On({"?"}, 456), On(pchar_char \cup {"/"}, 455)>> >>)

Fragment3 ==
  Rows(5, Percent(5, 455))

Query1 ==
  Rows(456,
    << <<Do({"#"}, <<"mark", "save_query">>, 453), Do({"%"}, <<"mark">>, 7),
         Do(pchar_char \cup {"/", "?"}, <<"mark">>, 457)>> >>)

Query2 ==
  Rows(457,
    << <<Do({"#"}, <<"save_query">>, 453), On({"%"}, 7), On(pchar_char \cup {"/", "?"}, 457)>> >>)
  @@ Rows(7, Percent(7, 457))
  @@ Rows(458,
       << <<On({"#"}, 453), On({"%"}, 5), On({"/"}, 459), On({"?"}, 456), On(pchar_char, 455)>> >>)

Authority1 ==
  Rows(459,
    << <<Do({"x02"}, <<"mark">>, 9), Do({"#"}, <<"mark", "save_host">>, 453),
         Do({"%"}, <<"mark">>, 31), Do({"/"}, <<"mark", "save_host">>, 455),
         Do({"0"}, <<"mark">>, 490), Do({"1"}, <<"mark">>, 504), Do({"2"}, <<"mark">>, 506),
         Do({":"}, <<"mark", "save_host">>, 468), Do({"?"}, <<"mark", "save_host">>, 456),
         Do({"@"}, <<"mark", "save_userinfo">>, 469), Do({"["}, <<"mark">>, 38),
         Do(DIGIT, <<"mark">>, 505), Do(reg_char, <<"mark">>, 467)>> >>)
  @@ Rows(9,
       << <<On(DIGIT \ {"5", "6"}, 10)>>,
          <<On(DIGIT, 11)>>,
          <<On({"."}, 12)>>,
          <<On({"x02"}, 13), On({"0"}, 15), On({"1"}, 27), On({"2"}, 29), On(DIGIT, 28)>>,
          <<On(DIGIT \ {"5", "6"}, 14)>>,
          <<On(DIGIT, 15)>>,
          <<On({"."}, 16)>>,
          <<On({"x02"}, 17), On({"0"}, 19), On({"1"}, 23), On({"2"}, 25), On(DIGIT, 24)>>,
          <<On(DIGIT \ {"5", "6"}, 18)>>,
          <<On(DIGIT, 19)>>,
          <<On({"."}, 20)>>,
          <<On({"x02"}, 21), On({"0"}, 460), On({"1"}, 463), On({"2"}, 465), On(DIGIT, 464)>>,
          <<On(DIGIT \ {"5", "6"}, 22)>> >>)

Authority2 ==
  Rows(22,
    << <<On(DIGIT, 460)>> >>)

AddressEnd ==
  Rows(460,
    <<HostEnd(461)>>)

Port ==
  Rows(461,
    << <<Do({"#"}, <<"mark", "save_port">>, 453), Do({"/"}, <<"mark", "save_port">>, 455),
         Do({"?"}, <<"mark", "save_port">>, 456), Do(DIGIT, <<"mark">>, 462)>>,
       <<Do({"#"}, <<"save_port">>, 453), Do({"/"}, <<"save_port">>, 455),
         Do({"?"}, <<"save_port">>, 456), On(DIGIT, 462)>>,
       <<On(DIGIT, 464)>> \o HostEnd(461),
       <<On(DIGIT, 460)>> \o HostEnd(461),
       <<On({"5"}, 466), On(DIGIT, 460)>> \o HostEnd(461),
       <<On(DIGIT \ {"6"}, 460)>> \o HostEnd(461)>>)

AddressOctets ==
  Rows(23,
    Octet(23, ".", 20, 19) \o Octet(27, ".", 16, 15))

UserInfo ==
  Rows(467,
    <<UserName>>)
  @@ Rows(31, Percent(31, 467))
  @@ Rows(468,
       << <<Do({"#"}, <<"mark", "save_port">>, 453), On({"%"}, 34),
            Do({"/"}, <<"mark", "save_port">>, 455), Do({"?"}, <<"mark", "save_port">>, 456),
            Do({"@"}, <<"save_userinfo">>, 469), Do(DIGIT, <<"mark">>, 489),
            On(pchar_char \ {"x80"}, 33)>> >>)
  @@ Rows(33,
       << <<On({"%"}, 34), Do({"@"}, <<"save_userinfo">>, 469), On(pchar_char \ {"x80"}, 33)>> >>)

UserInfoPct ==
  Rows(34, Percent(34, 33))

Host ==
  Rows(469,
    << <<Do({"x02"}, <<"mark">>, 9), Do({"#"}, <<"mark", "save_host">>, 453),
         Do({"%"}, <<"mark">>, 36), Do({"/"}, <<"mark", "save_host">>, 455),
         Do({"0"}, <<"mark">>, 471), Do({"1"}, <<"mark">>, 485), Do({"2"}, <<"mark">>, 487),
         Do({":"}, <<"mark", "save_host">>, 461), Do({"?"}, <<"mark", "save_host">>, 456),
         Do({"["}, <<"mark">>, 38), Do(DIGIT, <<"mark">>, 486), Do(reg_char, <<"mark">>, 470)>>,
      HostName>>)
  @@ Rows(36, Percent(36, 470))

HostOctets1 ==
  Rows(471,
    << <<On({"."}, 472)>> \o HostName,
       <<On({"x02"}, 13), On({"0"}, 473), On({"1"}, 481), On({"2"}, 483), On(DIGIT, 482)>> \o
         HostName,
       <<On({"."}, 474)>> \o HostName,
       <<On({"x02"}, 17), On({"0"}, 475), On({"1"}, 477), On({"2"}, 479), On(DIGIT, 478)>> \o
         HostName,
       <<On({"."}, 476)>> \o HostName>>)

HostOctets2 ==
  Rows(476,
    << <<On({"x02"}, 21)>> \o HostName,
       <<On({"."}, 476), On(DIGIT, 478)>> \o HostName,
       <<On({"."}, 476), On(DIGIT, 475)>> \o HostName,
       <<On({"."}, 476), On({"5"}, 480), On(DIGIT, 475)>> \o HostName,
       <<On({"."}, 476), On(DIGIT \ {"6"}, 475)>> \o HostName>>)

HostOctets3 ==
  Rows(481,
    << <<On({"."}, 474), On(DIGIT, 482)>> \o HostName,
       <<On({"."}, 474), On(DIGIT, 473)>> \o HostName,
       <<On({"."}, 474), On({"5"}, 484), On(DIGIT, 473)>> \o HostName,
       <<On({"."}, 474), On(DIGIT \ {"6"}, 473)>> \o HostName>>)

HostOctets4 ==
  Rows(485,
    << <<On({"."}, 472), On(DIGIT, 486)>> \o HostName,
       <<On({"."}, 472), On(DIGIT, 471)>> \o HostName,
       <<On({"."}, 472), On({"5"}, 488), On(DIGIT, 471)>> \o HostName,
       <<On({"."}, 472), On(DIGIT \ {"6"}, 471)>> \o HostName>>)

LiteralGroups1 ==
  Rows(38,
    << <<On({":"}, 146), On({"v"}, 225), On(XDIGIT, 39)>> >>
    \o H16(39, 43, <<>>)
    \o << <<On({":"}, 141), On(XDIGIT, 44)>> >>
    \o H16(44, 48, <<>>))

LiteralGroups2 ==
  Rows(48,
    << <<On({":"}, 136), On(XDIGIT, 49)>> >>
    \o H16(49, 53, <<>>)
    \o << <<On({":"}, 131), On(XDIGIT, 54)>> >>
    \o H16(54, 58, <<>>)
    \o << <<On({":"}, 126), On(XDIGIT, 59)>> >>)

LiteralGroups3 ==
  Rows(59,
    H16(59, 63, <<>>)
    \o << <<On({":"}, 113), On(XDIGIT, 64)>> >>
    \o H16(64, 68, <<>>)
    \o << <<On({"x02"}, 69), On({"0"}, 96), On({"1"}, 104), On({"2"}, 107), On({":"}, 111),
            On(DIGIT, 110), On(HEX, 112)>>,
          <<On(DIGIT \ {"5", "6"}, 70)>> >>)

GroupOctets1 ==
  Rows(70,
    << <<On(DIGIT, 71)>>,
       <<On({"."}, 72)>>,
       <<On({"x02"}, 73), On({"0"}, 75), On({"1"}, 92), On({"2"}, 94), On(DIGIT, 93)>>,
       <<On(DIGIT \ {"5", "6"}, 74)>>,
       <<On(DIGIT, 75)>>,
       <<On({"."}, 76)>>,
       <<On({"x02"}, 77), On({"0"}, 79), On({"1"}, 88), On({"2"}, 90), On(DIGIT, 89)>>,
       <<On(DIGIT \ {"5", "6"}, 78)>>,
       <<On(DIGIT, 79)>>,
       <<On({"."}, 80)>>,
       <<On({"x02"}, 81), On({"0"}, 83), On({"1"}, 84), On({"2"}, 86), On(DIGIT, 85)>>,
       <<On(DIGIT \ {"5", "6"}, 82)>>,
       <<On(DIGIT, 83)>>,
       <<On({"]"}, 460)>> >>)

GroupOctets2 ==
  Rows(84,
    Octet(84, "]", 460, 83) \o Octet(88, ".", 80, 79) \o Octet(92, ".", 76, 75))

LastGroup1 ==
  Rows(96,
    DottedH16(96, 100, <<>>)
    \o << <<On({":"}, 83), On(XDIGIT, 101)>>,
          <<On({"]"}, 460), On(XDIGIT, 102)>>,
          <<On({"]"}, 460), On(XDIGIT, 103)>>,
          <<On({"]"}, 460), On(XDIGIT, 83)>>,
          <<On({"."}, 72), On({":"}, 100), On(DIGIT, 105), On(HEX, 97)>>,
          <<On({"."}, 72), On({":"}, 100), On(DIGIT, 106), On(HEX, 98)>> >>)

LastGroup2 ==
  Rows(106,
    << <<On({"."}, 72), On({":"}, 100), On(XDIGIT, 99)>>,
       <<On({"."}, 72), On({"5"}, 109), On({":"}, 100), On(DIGIT, 108), On(HEX, 97)>>,
       <<On({"."}, 72), On({":"}, 100), On(XDIGIT, 98)>>,
       <<On({"."}, 72), On({":"}, 100), On(DIGIT \ {"6"}, 106), On(XDIGIT, 98)>>,
       <<On({"."}, 72), On({":"}, 100), On(DIGIT, 108), On(HEX, 97)>>,
       <<On(XDIGIT, 101)>>,
       <<On({":"}, 100), On(XDIGIT, 97)>>,
       <<On({"x02"}, 69), On({"0"}, 114), On({"1"}, 118), On({"2"}, 121), On(DIGIT, 124),
         On(HEX, 125)>> >>)

LastGroup3 ==
  Rows(114, DottedH16(114, 111, <<>>))

LastGroup4 ==
  Rows(118, Mixed(118, 115, 111, <<>>))

ElidedLast1 ==
  Rows(126,
    << <<On(XDIGIT, 127)>> >>
    \o H16(127, 113, <<>>)
    \o << <<On(XDIGIT, 132)>> >>
    \o H16(132, 126, <<>>)
    \o << <<On(XDIGIT, 137)>> >>)

ElidedLast2 ==
  Rows(137,
    H16(137, 131, <<>>)
    \o << <<On(XDIGIT, 142)>> >>
    \o H16(142, 136, <<>>)
    \o << <<On({":"}, 147)>> >>)

Elided1 ==
  Rows(147,
    << <<On({"x02"}, 69), On({"0"}, 148), On({"1"}, 217), On({"2"}, 220), On({"]"}, 460),
         On(DIGIT, 223), On(HEX, 224)>> >>
    \o DottedH16(148, 152, Close)
    \o << <<On({"x02"}, 69), On({"0"}, 153), On({"1"}, 209), On({"2"}, 212), On(DIGIT, 215),
            On(HEX, 216)>> >>)

Elided2 ==
  Rows(153,
    DottedH16(153, 157, Close)
    \o << <<On({"x02"}, 69), On({"0"}, 158), On({"1"}, 201), On({"2"}, 204), On(DIGIT, 207),
            On(HEX, 208)>> >>
    \o DottedH16(158, 162, Close))

Elided3 ==
  Rows(162,
    << <<On({"x02"}, 69), On({"0"}, 163), On({"1"}, 193), On({"2"}, 196), On(DIGIT, 199),
         On(HEX, 200)>> >>
    \o DottedH16(163, 167, Close)
    \o << <<On({"x02"}, 69), On({"0"}, 168), On({"1"}, 185), On({"2"}, 188), On(DIGIT, 191),
            On(HEX, 192)>> >>)

Elided4 ==
  Rows(168,
    DottedH16(168, 172, Close)
    \o << <<On({"x02"}, 69), On({"0"}, 173), On({"1"}, 177), On({"2"}, 180), On(DIGIT, 183),
            On(HEX, 184)>> >>
    \o DottedH16(173, 111, Close))

ElidedOctets1 ==
  Rows(177, Mixed(177, 174, 111, Close))

ElidedOctets2 ==
  Rows(185, Mixed(185, 169, 172, Close))

ElidedOctets3 ==
  Rows(193, Mixed(193, 164, 167, Close))

ElidedOctets4 ==
  Rows(201, Mixed(201, 159, 162, Close))

ElidedOctets5 ==
  Rows(209, Mixed(209, 154, 157, Close))

ElidedOctets6 ==
  Rows(217, Mixed(217, 149, 152, Close))

FutureLiteral ==
  Rows(225,
    << <<On(XDIGIT, 226)>>,
       <<On({"."}, 227), On(XDIGIT, 226)>>,
       <<On(pchar_char \ {"@", "x80"}, 228)>>,
       <<On({"]"}, 460), On(pchar_char \ {"@", "x80"}, 228)>> >>)

UserOctets1 ==
  Rows(489,
    << <<Do({"#"}, <<"save_port">>, 453), On({"%"}, 34), Do({"/"}, <<"save_port">>, 455),
         Do({"?"}, <<"save_port">>, 456), Do({"@"}, <<"save_userinfo">>, 469), On(DIGIT, 489),
         On(pchar_char \ {"x80"}, 33)>>,
       <<On({"."}, 491)>> \o UserName,
       <<On({"x02"}, 13), On({"0"}, 492), On({"1"}, 500), On({"2"}, 502), On(DIGIT, 501)>> \o
         UserName,
       <<On({"."}, 493)>> \o UserName>>)

UserOctets2 ==
  Rows(493,
    << <<On({"x02"}, 17), On({"0"}, 494), On({"1"}, 496), On({"2"}, 498), On(DIGIT, 497)>> \o
         UserName,
       <<On({"."}, 495)>> \o UserName,
       <<On({"x02"}, 21)>> \o UserName,
       <<On({"."}, 495), On(DIGIT, 497)>> \o UserName,
       <<On({"."}, 495), On(DIGIT, 494)>> \o UserName>>)

UserOctets3 ==
  Rows(498,
    << <<On({"."}, 495), On({"5"}, 499), On(DIGIT, 494)>> \o UserName,
       <<On({"."}, 495), On(DIGIT \ {"6"}, 494)>> \o UserName,
       <<On({"."}, 493), On(DIGIT, 501)>> \o UserName,
       <<On({"."}, 493), On(DIGIT, 492)>> \o UserName>>)

UserOctets4 ==
  Rows(502,
    << <<On({"."}, 493), On({"5"}, 503), On(DIGIT, 492)>> \o UserName,
       <<On({"."}, 493), On(DIGIT \ {"6"}, 492)>> \o UserName,
       <<On({"."}, 491), On(DIGIT, 505)>> \o UserName,
       <<On({"."}, 491), On(DIGIT, 490)>> \o UserName>>)

UserOctets5 ==
  Rows(506,
    << <<On({"."}, 491), On({"5"}, 507), On(DIGIT, 490)>> \o UserName,
       <<On({"."}, 491), On(DIGIT \ {"6"}, 490)>> \o UserName>>)

SchemePart ==
  Rows(508,
    << <<On({"#"}, 453), On({"%"}, 3), On({"/"}, 455), Do({":"}, <<"save_scheme">>, 509),
         On({"?"}, 456), On({"!", "(", ";", "=", "@", "x80"}, 452), On(reg_char, 508)>>,
       <<On({"#"}, 453), On({"%"}, 5), On({"/"}, 510), On({"?"}, 456), On(pchar_char, 455)>>,
       <<On({"#"}, 453), On({"%"}, 5), On({"/"}, 511), On({"?"}, 456), On(pchar_char, 455)>> >>)

(***************************************************************************)
(* After a scheme the authority is parsed by states of its own, which mark *)
(* and save the path as well: the states of a relative reference once more *)
(* under other numbers, with mark at the "/" that begins the path, and     *)
(* save_path where a path ends.                                            *)
(***************************************************************************)
Twin(s) ==
  CASE s \in {453, 456} -> s
    [] s = 455 -> 513
    [] s \in {459, 460} -> s + 52
    [] s \in 461 .. 507 -> s + 53
    [] s \in 9 .. 22 -> s + 220
    [] s \in 23 .. 228 -> s + 222

\* Variant: a path that begins where the authority ends is not marked.
WithPathUnmarked(e) ==
  Do(e.on, IF e.to \in {453, 456} THEN e.do \o <<"save_path">> ELSE e.do, Twin(e.to))

WithPath(e) ==
  LET marks == IF "mark" \in {e.do[i] : i \in DOMAIN e.do} THEN e.do ELSE e.do \o <<"mark">>
      do == CASE e.to \in {453, 456} -> marks \o <<"save_path">>
              [] e.to = 455 -> marks
              [] OTHER -> e.do
  IN  Do(e.on, do, Twin(e.to))

Absolute(rows) ==
  [t \in {Twin(s) : s \in DOMAIN rows} |->
     LET row == rows[CHOOSE s \in DOMAIN rows : Twin(s) = t]
     IN  [i \in DOMAIN row |-> WithPath(row[i])]]

AbsolutePath ==
  Rows(513,
    << <<Do({"#"}, <<"save_path">>, 453), On({"%"}, 243), Do({"?"}, <<"save_path">>, 456),
         On(pchar_char \cup {"/"}, 513)>> >>)
  @@ Rows(243, Percent(243, 513))

AbsoluteAuthority1 == Absolute(Authority1)
AbsoluteAuthority2 == Absolute(Authority2)
AbsoluteAddressEnd == Absolute(AddressEnd)
AbsolutePort == Absolute(Port)
AbsoluteAddressOctets == Absolute(AddressOctets)
AbsoluteUserInfo == Absolute(UserInfo)
AbsoluteUserInfoPct == Absolute(UserInfoPct)
AbsoluteHost == Absolute(Host)
AbsoluteHostOctets1 == Absolute(HostOctets1)
AbsoluteHostOctets2 == Absolute(HostOctets2)
AbsoluteHostOctets3 == Absolute(HostOctets3)
AbsoluteHostOctets4 == Absolute(HostOctets4)
AbsoluteLiteralGroups1 == Absolute(LiteralGroups1)
AbsoluteLiteralGroups2 == Absolute(LiteralGroups2)
AbsoluteLiteralGroups3 == Absolute(LiteralGroups3)
AbsoluteGroupOctets1 == Absolute(GroupOctets1)
AbsoluteGroupOctets2 == Absolute(GroupOctets2)
AbsoluteLastGroup1 == Absolute(LastGroup1)
AbsoluteLastGroup2 == Absolute(LastGroup2)
AbsoluteLastGroup3 == Absolute(LastGroup3)
AbsoluteLastGroup4 == Absolute(LastGroup4)
AbsoluteElidedLast1 == Absolute(ElidedLast1)
AbsoluteElidedLast2 == Absolute(ElidedLast2)
AbsoluteElided1 == Absolute(Elided1)
AbsoluteElided2 == Absolute(Elided2)
AbsoluteElided3 == Absolute(Elided3)
AbsoluteElided4 == Absolute(Elided4)
AbsoluteElidedOctets1 == Absolute(ElidedOctets1)
AbsoluteElidedOctets2 == Absolute(ElidedOctets2)
AbsoluteElidedOctets3 == Absolute(ElidedOctets3)
AbsoluteElidedOctets4 == Absolute(ElidedOctets4)
AbsoluteElidedOctets5 == Absolute(ElidedOctets5)
AbsoluteElidedOctets6 == Absolute(ElidedOctets6)
AbsoluteFutureLiteral == Absolute(FutureLiteral)
AbsoluteUserOctets1 == Absolute(UserOctets1)
AbsoluteUserOctets2 == Absolute(UserOctets2)
AbsoluteUserOctets3 == Absolute(UserOctets3)
AbsoluteUserOctets4 == Absolute(UserOctets4)
AbsoluteUserOctets5 == Absolute(UserOctets5)

UriTable ==
  Relative @@ Fragment1 @@ Fragment2 @@ Fragment3 @@ Query1 @@ Query2 @@ Authority1
  @@ Authority2 @@ AddressEnd @@ Port @@ AddressOctets @@ UserInfo @@ UserInfoPct @@ Host
  @@ HostOctets1 @@ HostOctets2 @@ HostOctets3 @@ HostOctets4 @@ LiteralGroups1
  @@ LiteralGroups2 @@ LiteralGroups3 @@ GroupOctets1 @@ GroupOctets2 @@ LastGroup1
  @@ LastGroup2 @@ LastGroup3 @@ LastGroup4 @@ ElidedLast1 @@ ElidedLast2 @@ Elided1
  @@ Elided2 @@ Elided3 @@ Elided4 @@ ElidedOctets1 @@ ElidedOctets2 @@ ElidedOctets3
  @@ ElidedOctets4 @@ ElidedOctets5 @@ ElidedOctets6 @@ FutureLiteral @@ UserOctets1
  @@ UserOctets2 @@ UserOctets3 @@ UserOctets4 @@ UserOctets5 @@ SchemePart
  @@ AbsolutePath @@ AbsoluteAuthority1 @@ AbsoluteAuthority2 @@ AbsoluteAddressEnd
  @@ AbsolutePort @@ AbsoluteAddressOctets @@ AbsoluteUserInfo @@ AbsoluteUserInfoPct
  @@ AbsoluteHost @@ AbsoluteHostOctets1 @@ AbsoluteHostOctets2 @@ AbsoluteHostOctets3
  @@ AbsoluteHostOctets4 @@ AbsoluteLiteralGroups1 @@ AbsoluteLiteralGroups2
  @@ AbsoluteLiteralGroups3 @@ AbsoluteGroupOctets1 @@ AbsoluteGroupOctets2
  @@ AbsoluteLastGroup1 @@ AbsoluteLastGroup2 @@ AbsoluteLastGroup3 @@ AbsoluteLastGroup4
  @@ AbsoluteElidedLast1 @@ AbsoluteElidedLast2 @@ AbsoluteElided1 @@ AbsoluteElided2
  @@ AbsoluteElided3 @@ AbsoluteElided4 @@ AbsoluteElidedOctets1 @@ AbsoluteElidedOctets2
  @@ AbsoluteElidedOctets3 @@ AbsoluteElidedOctets4 @@ AbsoluteElidedOctets5
  @@ AbsoluteElidedOctets6 @@ AbsoluteFutureLiteral @@ AbsoluteUserOctets1
  @@ AbsoluteUserOctets2 @@ AbsoluteUserOctets3 @@ AbsoluteUserOctets4
  @@ AbsoluteUserOctets5

(***************************************************************************)
(* The actions at the end of the string.                                   *)
(***************************************************************************)
HostStates == {460} \cup 463 .. 467 \cup 470 .. 488 \cup 490 .. 507

EofRelative ==
     [s \in {462, 489} |-> <<"save_port">>]
  @@ [s \in HostStates |-> <<"save_host">>]
  @@ [s \in {513} |-> <<"save_path">>]
  @@ [s \in {457} |-> <<"save_query">>]
  @@ [s \in {454} |-> <<"save_fragment">>]
  @@ [s \in {456} |-> <<"mark", "save_query">>]
  @@ [s \in {453} |-> <<"mark", "save_fragment">>]
  @@ [s \in {461, 468} |-> <<"mark", "save_port">>]
  @@ [s \in {459, 469} |-> <<"mark", "save_host">>]

EofAbsolute ==
     [s \in {514, 521} |-> <<"mark", "save_port", "save_path">>]
  @@ [s \in {511, 522} |-> <<"mark", "save_host", "save_path">>]
  @@ [s \in {515, 542} |-> <<"save_port", "mark", "save_path">>]
  @@ [s \in {Twin(t) : t \in HostStates} |-> <<"save_host", "mark", "save_path">>]

EofActions(s) ==
  IF s \in DOMAIN EofRelative THEN EofRelative[s]
  ELSE IF s \in DOMAIN EofAbsolute THEN EofAbsolute[s]
  ELSE <<>>
=============================================================================
