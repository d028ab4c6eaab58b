------------------------------ MODULE Grammars ------------------------------
(***************************************************************************)
(* The grammars of http11_parser.rl, httpclient_parser.rl and uri.rl as    *)
(* productions: every rule has a set of alternatives, each a sequence of   *)
(* rules, symbols, character sets (Class) and actions.  Entering (>) and   *)
(* leaving (%) actions stand where they occur and are performed with the   *)
(* next symbol that is read; finishing (@) actions follow the symbol they  *)
(* are performed with.                                                     *)
(***************************************************************************)
EXTENDS Bytes

unreserved == ALPHA \cup DIGIT \cup {"-", ".", "!"}
sub_delims == {"!", "(", "+", ";", "="} \cup Relaxed
reg_char == unreserved \cup sub_delims
pchar_char == reg_char \cup {":", "@", "x80"}
token == ASCII \ (SEPARATOR \cup CNTRL)
\* HTTP_CTL = (0 - 31) | 127 is a difference of two characters, that is, NUL and DEL.
HTTP_CTL == {"NUL", "DEL"}
FIELD == ASCII \ (HTTP_CTL \cup SEPARATOR)

Class ==
  [alpha |-> ALPHA, digit |-> DIGIT, xdigit |-> XDIGIT, any |-> ANY,
   space |-> SPACE, blank |-> BLANK, scheme_char |-> ALPHA \cup DIGIT \cup {"+", "-", "."},
   reg_char |-> reg_char, user_char |-> reg_char \cup {":"}, segment_nc_char |-> reg_char \cup {"@"},
   pchar_nc_char |-> pchar_char \ {":"}, pchar_char |-> pchar_char,
   query_char |-> pchar_char \cup {"/", "?"},
   digit19 |-> DIGIT \ {"0"}, digit04 |-> {"0", "1", "2", "3"}, digit05 |-> {"0", "1", "2", "3", "5"},
   method_char |-> UPPER \cup DIGIT, zero_one |-> {"0", "1"},
   field_char |-> FIELD, content_char |-> ANY \ HTTP_CTL,
   xml_char |-> ALPHA \cup DIGIT \cup {"-", "."}, open |-> {"{", "{+"}, close |-> {"}", "}+"},
   token |-> token, reason_char |-> ANY \ {"LF"}, value_char |-> ANY, value_space |-> SPACE,
   lws_CR |-> {"CR"}, lws_LF |-> {"LF"}, end_CR |-> {"CR"}, end_LF |-> {"LF"}, end_NUL |-> {"NUL"},
   aA |-> {"a", "A"}, cC |-> {"c", "C"}, dD |-> {"d", "D"}, eE |-> {"e", "E"}, fF |-> {"f", "F"},
   gG |-> {"g", "G"}, hH |-> {"h", "H"}, iI |-> {"i", "I"}, kK |-> {"k", "K"}, lL |-> {"l", "L"},
   nN |-> {"n", "N"}, oO |-> {"o", "O"}, rR |-> {"r", "R"}, sS |-> {"s", "S"}, tT |-> {"t", "T"},
   uU |-> {"u", "U"}]

\* The operators :> and :>> : where both a Strong and a Weak set allow a symbol,
\* the alternatives with the weak one are dropped.
Strong == {"end_CR", "end_LF", "end_NUL"}
Weak == {"content_char", "lws_CR", "lws_LF", "reason_char", "value_char", "value_space", "any"}

\* Repetition of one item.
Times(n, item) == [i \in 1 .. n |-> item]
Groups(n) == [i \in 1 .. 2 * n |-> IF i % 2 = 1 THEN "h16" ELSE ":"]

\* The actions; the finishing ones are performed with the symbol before them.
Finishing == {"done", "xml", "json", "trans_chunked"}
Actions ==
  Finishing \cup
  {"mark", "start_field", "write_field", "start_value", "write_value", "start_query",
   "query_string", "request_method", "request_uri", "request_path", "http_version", "fragment",
   "chunk_size", "status_code", "reason_phrase", "write_content_len", "write_connection_close",
   "save_scheme", "save_userinfo", "save_host", "save_port", "save_path", "save_query",
   "save_fragment"}

-----------------------------------------------------------------------------
(***************************************************************************)
(* Rules shared by http11_parser.rl and uri.rl, from RFC 3986.             *)
(***************************************************************************)
UriParts ==
  [pct_encoded |-> {<<"%", "xdigit", "xdigit">>},
   pchar |-> {<<"pchar_char">>, <<"pct_encoded">>},
   segment |-> {<<>>, <<"pchar", "segment">>},
   path_abempty |-> {<<>>, <<"/", "segment", "path_abempty">>},
   path_absolute |-> {<<"/">>, <<"/", "path_rootless">>},
   path_rootless |-> {<<"pchar", "segment", "path_abempty">>},
   query |-> {<<>>, <<"query_char", "query">>, <<"pct_encoded", "query">>},
   userinfo |-> {<<>>, <<"user_char", "userinfo">>, <<"pct_encoded", "userinfo">>},
   reg_name |-> {<<>>, <<"reg_char", "reg_name">>, <<"pct_encoded", "reg_name">>},
   port |-> {<<>>, <<"digit", "port">>},
   IPv4address |-> {<<"dec_octet", ".", "dec_octet", ".", "dec_octet", ".", "dec_octet">>},
   h16 |-> {Times(n, "xdigit") : n \in 1 .. 4},
   ls32 |-> {<<"h16", ":", "h16">>, <<"IPv4address">>},
   xdigits |-> {<<"xdigit">>, <<"xdigit", "xdigits">>},
   future |-> {<<"user_char">>, <<"user_char", "future">>},
   IP_literal |-> {<<"[", "IPv6address", "]">>, <<"[", "v", "xdigits", ".", "future", "]">>},
   host |-> {<<"IP_literal">>, <<"IPv4address">>, <<"reg_name">>},
   scheme_rest |-> {<<>>, <<"scheme_char", "scheme_rest">>}]

(***************************************************************************)
(* http11_parser.rl.  6( h16 ":" ) is, to Ragel, the byte 6 and one group, *)
(* likewise for 5 to 2; ("0"-"4") is the difference of two sets, "0".     *)
(***************************************************************************)
RequestUri ==
  [dec_octet |-> {<<"digit">>, <<"1", "digit">>, <<"1", "digit", "digit">>,
                  <<"2", "0", "digit">>, <<"2", "5", "0">>},
   groups1 |-> {<<"h16", ":">>, <<"h16", ":", "groups1">>},
   groups2 |-> {<<"h16", ":", "groups1">>}, groups3 |-> {<<"h16", ":", "groups2">>},
   groups4 |-> {<<"h16", ":", "groups3">>}, groups5 |-> {<<"h16", ":", "groups4">>},
   groups6 |-> {<<"h16", ":", "groups5">>},
   IPv6address |-> {<<"x06", "h16", ":", "ls32">>,
                    <<":", ":", "x05", "h16", ":", "ls32">>,
                    <<"opt0", ":", ":", "x04", "h16", ":", "ls32">>,
                    <<"opt1", ":", ":", "x03", "h16", ":", "ls32">>,
                    <<"opt2", ":", ":", "x02", "h16", ":", "ls32">>,
                    <<"opt3", ":", ":", "h16", ":", "ls32">>,
                    <<"opt4", ":", ":", "ls32">>,
                    <<"opt5", ":", ":", "h16">>,
                    <<"opt6", ":", ":">>},
   opt0 |-> {<<>>, <<"h16">>}, opt1 |-> {<<>>, <<"groups1", "h16">>},
   opt2 |-> {<<>>, <<"groups2", "h16">>}, opt3 |-> {<<>>, <<"groups3", "h16">>},
   opt4 |-> {<<>>, <<"groups4", "h16">>}, opt5 |-> {<<>>, <<"groups5", "h16">>},
   opt6 |-> {<<>>, <<"groups6", "h16">>},
   authority |-> {<<"user_opt", "host">>, <<"user_opt", "host", ":", "port">>},
   user_opt |-> {<<>>, <<"userinfo", "@">>},
   segment_nz_nc |-> {<<"nc">>, <<"nc", "segment_nz_nc">>},
   nc |-> {<<"segment_nc_char">>, <<"pct_encoded">>},
   relative_part |-> {<<"/", "/", "authority", "path_abempty">>, <<"path_absolute">>,
                      <<"segment_nz_nc", "path_abempty">>, <<>>},
   hier_part |-> {<<"/", "/", "authority", "path_abempty">>, <<"path_absolute">>,
                  <<"path_rootless">>, <<>>},
   query_opt |-> {<<>>, <<"?", "start_query", "query", "query_string">>},
   fragment_opt |-> {<<>>, <<"#", "mark", "query", "fragment">>},
   URI_reference |->
     {<<"alpha", "scheme_rest", ":", "mark", "hier_part", "request_path", "query_opt",
        "request_uri", "fragment_opt">>,
      <<"mark", "relative_part", "request_path", "query_opt", "request_uri", "fragment_opt">>}]

Request ==
  [main |-> {<<"Request_Line", "headers", "CRLF", "done">>,
             <<"mark", "<", "xml_name", "request_path", "xml_sep", "anything", ">", "end_NUL",
               "xml", "done">>,
             <<"mark", "@", "relative_part", "request_path", "SP", "mark", "open", "anything",
               "close", "end_NUL", "json", "done">>},
   Request_Line |-> {<<"mark", "Method", "request_method", "SP", "URI_reference", "SP", "mark",
                       "H", "T", "T", "P", "/", "1", ".", "zero_one", "http_version", "CRLF">>},
   Method |-> {Times(n, "method_char") : n \in 1 .. 20},
   CRLF |-> {<<"CR", "LF">>, <<"LF">>},
   headers |-> {<<>>, <<"message_header", "headers">>},
   message_header |-> {<<"start_field", "field_name", "write_field", ":", "lws_any", "start_value",
                         "content", "write_value", "value_end">>},
   field_name |-> {<<"field_char">>, <<"field_char", "field_name">>},
   lws_any |-> {<<>>, <<"lws", "lws_any">>},
   lws |-> {<<"blanks">>, <<"lws_CR", "lws_LF", "blanks">>, <<"lws_LF", "blanks">>},
   blanks |-> {<<"blank">>, <<"blank", "blanks">>},
   content |-> {<<>>, <<"content_char", "content">>, <<"lws", "content">>},
   value_end |-> {<<"end_CR", "LF">>, <<"end_LF">>},
   xml_name |-> {<<"xml_char">>, <<"xml_char", "xml_name">>},
   xml_sep |-> {<<"/">>, <<"space">>, <<">">>},
   anything |-> {<<>>, <<"any", "anything">>}]

RequestRules == Request @@ RequestUri @@ UriParts

-----------------------------------------------------------------------------
\* httpclient_parser.rl
ResponseRules ==
  [main |-> {<<"Status_Line", "headers", "CRLF", "done">>,
             <<"mark", "xdigits", "chunk_size", "chunk_extension", "value_end", "done">>},
   Status_Line |-> {<<"mark", "H", "T", "T", "P", "/", "digits", ".", "digits", "http_version",
                      "SP", "mark", "digits", "status_code", "SP", "mark", "reason",
                      "reason_phrase", "value_end">>},
   digits |-> {<<"digit">>, <<"digit", "digits">>},
   xdigits |-> {<<"xdigit">>, <<"xdigit", "xdigits">>},
   reason |-> {<<"reason_char">>, <<"reason_char", "reason">>},
   CRLF |-> {<<"CR", "LF">>, <<"LF">>},
   value_end |-> {<<"end_CR", "LF">>, <<"end_LF">>},
   headers |-> {<<>>, <<"message_header", "headers">>},
   message_header |->
     {<<"start_field", "transfer_encoding", "write_field", ":", "spaces", "start_value", "chunked",
        "write_value", "CRLF", "trans_chunked">>,
      <<"connection", ":", "spaces", "closing", "CRLF", "write_connection_close">>,
      <<"start_field", "content_length", "write_field", ":", "spaces", "start_value", "digits",
        "write_content_len", "write_value", "CRLF">>,
      <<"start_field", "tokens", "write_field", ":", "value_spaces", "start_value", "value",
        "write_value", "value_end">>},
   transfer_encoding |-> {<<"tT", "rR", "aA", "nN", "sS", "fF", "eE", "rR", "-", "eE", "nN", "cC",
                            "oO", "dD", "iI", "nN", "gG">>},
   chunked |-> {<<"cC", "hH", "uU", "nN", "kK", "eE", "dD">>},
   connection |-> {<<"cC", "oO", "nN", "nN", "eE", "cC", "tT", "iI", "oO", "nN">>},
   closing |-> {<<"cC", "lL", "oO", "sS", "eE">>},
   content_length |-> {<<"cC", "oO", "nN", "tT", "eE", "nN", "tT", "-", "lL", "eE", "nN", "gG",
                         "tT", "hH">>},
   spaces |-> {<<>>, <<"space", "spaces">>},
   value_spaces |-> {<<>>, <<"value_space", "value_spaces">>},
   tokens |-> {<<"token">>, <<"token", "tokens">>},
   value |-> {<<>>, <<"value_char", "value">>},
   chunk_extension |->
     {<<>>, <<";", "start_field", "tokens", "write_field", "start_value", "ext_val", "write_value",
              "chunk_extension">>},
   ext_val |-> {<<>>, <<"=", "start_value", "tokens">>}]

-----------------------------------------------------------------------------
\* uri.rl.  In dec_octet, 2 [0-4] digit begins with the byte 2.
UriRules ==
  [main |-> {<<"mark", "alpha", "scheme_rest", "save_scheme", ":", "hier_part", "query_opt",
               "fragment_opt">>,
             <<"relative_part", "query_opt", "fragment_opt">>},
   dec_octet |-> {<<"digit">>, <<"digit19", "digit">>, <<"1", "digit", "digit">>,
                  <<"x02", "digit04", "digit">>, <<"2", "5", "digit05">>},
   IPv6address |->
     {Groups(6) \o <<"ls32">>}
     \cup {<<":", ":">> \o Groups(n) \o <<"ls32">> : n \in 0 .. 5}
     \cup {Groups(n) \o <<"h16", ":", ":">>
             \o Groups(4 - n) \o <<"ls32">> : n \in 0 .. 4}
     \cup {<<":", ":", "h16">>, <<":", ":">>,
           Groups(5) \o <<"h16", ":", ":", "h16">>,
           Groups(6) \o <<"h16", ":", ":">>},
   authority |-> {<<"mark", "user_opt", "mark", "host", "save_host", "port_opt">>},
   user_opt |-> {<<>>, <<"userinfo", "save_userinfo", "@">>},
   port_opt |-> {<<>>, <<":", "mark", "port", "save_port">>},
   segment_nz_nc |-> {<<"nc">>, <<"nc", "segment_nz_nc">>},
   nc |-> {<<"pchar_nc_char">>, <<"pct_encoded">>},
   hier_part |-> {<<"/", "/", "authority", "mark", "path_abempty", "save_path">>,
                  <<"path_absolute">>, <<"path_rootless">>, <<>>},
   relative_part |-> {<<"/", "/", "authority", "path_abempty">>, <<"path_absolute">>,
                      <<"segment_nz_nc", "path_abempty">>, <<>>},
   query_opt |-> {<<>>, <<"?", "mark", "query", "save_query">>},
   fragment_opt |-> {<<>>, <<"#", "mark", "query", "save_fragment">>}]
  @@ UriParts
=============================================================================
