------------------------------ MODULE Parsers ------------------------------
(***************************************************************************)
(* The three generated parsers run in step with the grammars they were     *)
(* generated from.  The machine side is the code: a state cs, moved by the *)
(* table over the bytes, performing actions on the pointers mark,          *)
(* field_start, field_len and query_start.  The grammar side keeps every   *)
(* parse that is still possible: what it may read next, which actions it   *)
(* owes, and which pointers still hold what this parse put there.          *)
(***************************************************************************)
EXTENDS Grammars, SequencesExt

Rq == INSTANCE RequestMachine
Rs == INSTANCE ResponseMachine
Ur == INSTANCE UriMachine

Machine == {"request", "response", "uri"}
Table == [request |-> Rq!RequestTable, response |-> Rs!ResponseTable, uri |-> Ur!UriTable]
Rules == [request |-> RequestRules, response |-> ResponseRules, uri |-> UriRules]
Start == [request |-> 1, response |-> 1, uri |-> 451]
FirstFinal == [request |-> 348, response |-> 120, uri |-> 451]

\* The pointers an action sets, and those whose contents it hands on.
Sets(a) ==
  CASE a \in {"mark", "start_value"} -> {"mark"}
    [] a = "start_field" -> {"field_start"}
    [] a = "write_field" -> {"field_len"}
    [] a = "start_query" -> {"query_start"}
    [] OTHER -> {}

Uses(a) ==
  CASE a = "write_field" -> {"field_start"}
    [] a = "write_value" -> {"field_start", "field_len", "mark"}
    [] a = "query_string" -> {"query_start"}
    [] a \in {"mark", "start_value", "start_field", "start_query", "done", "trans_chunked",
              "write_connection_close"} -> {}
    [] OTHER -> {"mark"}

\* The actions of Uri::Create after which mark is NULL; save_host leaves it alone.
Clears == {"save_scheme", "save_port", "save_userinfo", "save_path", "save_query", "save_fragment"}

VARIABLES
  machine,   \* the parser at work
  relaxed,   \* parser->uri_relaxed, which http_parser_init never sets
  cs,        \* the state of the machine
  live,      \* the parses still possible
  did,       \* the actions of the last step
  due,       \* the action sequences the parses owed in that step
  mark,      \* Uri::Create: whether mark points into the string
  null,      \* Uri::Create: whether a string was built from a NULL mark
  quirks,    \* the places passed where two parses move the same pointer
  status     \* "reading", "done" or "error"

vars == <<machine, relaxed, cs, live, did, due, mark, null, quirks, status>>

-----------------------------------------------------------------------------
\* The terminals a stack of grammar symbols may begin with, the actions owed
\* with each, and what remains after it.
RECURSIVE Predict(_, _, _)
Predict(rules, stack, owed) ==
  IF stack = <<>> THEN {[on |-> "$", owed |-> owed, rest |-> <<>>]}
  ELSE LET x == Head(stack)
       IN  IF x \in DOMAIN rules
           THEN UNION {Predict(rules, alt \o Tail(stack), owed) : alt \in rules[x]}
           ELSE IF x \in Actions THEN Predict(rules, Tail(stack), Append(owed, x))
           ELSE {[on |-> x, owed |-> owed, rest |-> Tail(stack)]}

Matches(x, c) == IF x \in DOMAIN Class THEN c \in Class[x] ELSE x = c

Hits(c) ==
  LET all == {p \in live : Matches(p.on, c)}
  IN  IF \E p \in all : p.on \in Strong THEN {p \in all : p.on \notin Weak} ELSE all

\* What a parse owes on reading its terminal: also the finishing actions after it.
Finish(p) ==
  SubSeq(p.rest, 1, Cardinality({i \in DOMAIN p.rest : \A j \in 1 .. i : p.rest[j] \in Finishing}))
Owes(p) == p.owed \o Finish(p)

\* The pointers of a parse after the machine has performed the actions in order.
Apply(p, actions) ==
  LET own == Range(Owes(p))
      step(st, a) ==
        [fit |-> (IF a \in own THEN st.fit \cup Sets(a) ELSE st.fit \ Sets(a))
                   \ (IF a \in Clears THEN {"mark"} ELSE {}),
         mis |-> IF a \in own /\ ~ Uses(a) \subseteq st.fit THEN st.mis \cup {a} ELSE st.mis]
  IN  FoldLeft(step, [fit |-> p.fit, mis |-> p.mis], actions)

Advance(p, actions) ==
  LET st == Apply(p, actions)
      rest == SubSeq(p.rest, Len(Finish(p)) + 1, Len(p.rest))
  IN  {[on |-> q.on, owed |-> q.owed, rest |-> q.rest, fit |-> st.fit, mis |-> st.mis] :
         q \in Predict(Rules[machine], rest, <<>>)}

\* Uri::Create's mark: std::string(NULL, n) is what a save without a mark does.
Marking(actions) ==
  LET step(st, a) ==
        CASE a = "mark" -> [mark |-> TRUE, null |-> st.null]
          [] a \in Clears -> [mark |-> FALSE, null |-> st.null \/ (~ st.mark /\ a # "save_userinfo")]
          [] OTHER -> st
  IN  IF machine = "uri" THEN FoldLeft(step, [mark |-> mark, null |-> null], actions)
      ELSE [mark |-> mark, null |-> null]

\* Where two parses share a pointer: the line of a known header ends before its
\* value, digits follow the first ":" of an authority, a port has no digits.
Quirk(state, c, actions) ==
  CASE machine = "response" /\ state \in {35, 61, 80, 95, 112, 118} /\ c = "LF" -> {"empty header"}
    [] machine = "uri" /\ state \in {468, 521} /\ c \in DIGIT -> {"digits"}
    [] machine = "uri" /\ state \in {514, 521} /\ "save_port" \in Range(actions) -> {"no port"}
    [] OTHER -> {}

\* Variant: the first final state is not counted.
IsFinishedPast == cs > FirstFinal[machine]

\* http_parser_is_finished and httpclient_parser_is_finished.
IsFinished ==
  IF machine = "response" THEN cs = FirstFinal[machine] ELSE cs >= FirstFinal[machine]

-----------------------------------------------------------------------------
Init ==
  /\ machine \in Machine
  /\ relaxed \in (IF machine = "request" THEN BOOLEAN ELSE {FALSE})
  /\ cs = Start[machine]
  /\ live = {[on |-> q.on, owed |-> q.owed, rest |-> q.rest, fit |-> {}, mis |-> {}] :
               q \in Predict(Rules[machine], <<"main">>, <<>>)}
  /\ did = <<>> /\ due = {}
  /\ mark = FALSE /\ null = FALSE /\ quirks = {}
  /\ status = "reading"

\* One byte of the buffer.
Read(c) ==
  /\ status = "reading"
  /\ c \notin (IF relaxed THEN Relaxable ELSE Relaxed)
  /\ LET e == EdgeOn(Table[machine][cs], c)
         hits == Hits(c)
         m == Marking(e.do)
     IN  /\ cs' = e.to
         /\ did' = e.do
         /\ due' = {Owes(p) : p \in hits}
         /\ live' = UNION {Advance(p, e.do) : p \in hits}
         /\ mark' = m.mark /\ null' = m.null
         /\ quirks' = quirks \cup Quirk(cs, c, e.do)
         /\ status' = IF e.to = 0 THEN "error"
                      ELSE IF "done" \in Range(e.do) THEN "done" ELSE "reading"
  /\ UNCHANGED <<machine, relaxed>>

\* The end of the string given to Uri::Create, with the actions of the end.
Eof ==
  /\ status = "reading" /\ machine = "uri"
  /\ LET ended == {p \in live : p.on = "$"}
         actions == Ur!EofActions(cs)
         m == Marking(actions)
     IN  /\ did' = actions
         /\ due' = {p.owed : p \in ended}
         /\ live' = UNION {Advance(p, actions) : p \in ended}
         /\ mark' = m.mark /\ null' = m.null
         /\ quirks' = quirks \cup Quirk(cs, "$", actions)
  /\ cs' = IF cs >= FirstFinal["uri"] THEN cs ELSE 0
  /\ status' = IF cs >= FirstFinal["uri"] THEN "done" ELSE "error"
  /\ UNCHANGED <<machine, relaxed>>

Next == Eof \/ \E c \in ANY : Read(c)
Spec == Init /\ [][Next]_vars

-----------------------------------------------------------------------------
\* Types of the variables; a state the machine can be in has a row.
TypeOK ==
  /\ machine \in Machine /\ relaxed \in BOOLEAN /\ mark \in BOOLEAN /\ null \in BOOLEAN
  /\ cs \in {0} \cup DOMAIN Table[machine]
  /\ quirks \subseteq {"empty header", "digits", "no port"}
  /\ status \in {"reading", "done", "error"}

(***************************************************************************)
(* The code accepts the language of its grammar: it reports an error with  *)
(* the first byte after which no parse is left, never sooner or later, and *)
(* is in a final state exactly when a parse is complete.                   *)
(***************************************************************************)
Agree ==
  /\ (cs = 0) <=> (live = {})
  /\ (cs >= FirstFinal[machine]) <=> \E p \in live : p.on = "$"

(***************************************************************************)
(* In every step the code performs the actions that the possible parses    *)
(* owe, no more and no less, and in the order in which each parse first    *)
(* comes to them: request_path before request_uri, write_field before      *)
(* start_value, save_port before save_path.                                *)
(***************************************************************************)
ActionsAgree ==
  cs # 0 =>
    /\ Range(did) = UNION {Range(w) : w \in due}
    /\ \A w \in due : \A i, j \in DOMAIN w :
         i < j /\ (\A k \in 1 .. i : w[k] # w[j])
           => \E a, b \in DOMAIN did : a < b /\ did[a] = w[i] /\ did[b] = w[j]

(***************************************************************************)
(* The parses still open share mark, field_start, field_len and            *)
(* query_start.  When the code accepts, some complete parse has had each   *)
(* of its elements handed on from where this parse set the pointers - but  *)
(* for three spoilers: the name of a header after an empty Content-Length, *)
(* Connection or Transfer-Encoding, the user of user:1@host, and the path  *)
(* behind a port without digits.  The last is also the only way in which   *)
(* Uri::Create builds a string from a NULL mark ("http://host:/").         *)
(***************************************************************************)
Spoilt(q) ==
  CASE q = "empty header" -> {"write_value"}
    [] q = "digits" -> {"save_userinfo"}
    [] q = "no port" -> {"save_path"}

MarksFit ==
  /\ status = "done" =>
       \E p \in live : p.on = "$" /\ p.mis \subseteq UNION {Spoilt(q) : q \in quirks}
  /\ null => "no port" \in quirks

(***************************************************************************)
(* The caller learns from is_finished of the end of a head: never before   *)
(* header_done has been called, and always once it has been called and no  *)
(* parse could go on.  A response head that ends after an empty known      *)
(* header leaves parses open; is_finished should say so and does not, as   *)
(* the machine is then in another final state than the first.              *)
(***************************************************************************)
FinishedAtDone ==
  /\ IsFinished /\ machine # "uri" => status = "done"
  /\ status = "done" /\ (\A p \in live : p.on = "$") => IsFinished
=============================================================================
