------------------------------- MODULE Bytes -------------------------------
(***************************************************************************)
(* The alphabet of the three generated parsers and the form in which their *)
(* transition tables are written.  A symbol stands for all bytes that none *)
(* of the parsers tells apart: "!" for !$&'*_~, "(" for parentheses and    *)
(* comma, "3" for 3 and 4, "6" for 6 to 9, "j" and "J" for the letters no  *)
(* keyword uses, "DQ" for the double quote and the backslash, "|" for | and*)
(* the backquote, "CTL" for the control characters without a role, "x80"   *)
(* for every byte outside ASCII.  "^+", "{+" and "}+" are ^, { and } while *)
(* uri_relaxed is set, the bytes the request parser widens to 606, 635 and *)
(* 637.                                                                    *)
(***************************************************************************)
EXTENDS Naturals, Sequences, TLC

Relaxable == {"^", "{", "}"}
Relaxed == {"^+", "{+", "}+"}

DIGIT == {"0", "1", "2", "3", "5", "6"}
HEX == {"A", "B", "C", "D", "E", "F", "a", "b", "c", "d", "e", "f"}
XDIGIT == DIGIT \cup HEX
UPPER == {"A", "B", "C", "D", "E", "F", "G", "H", "I", "J", "K", "L", "N",
          "O", "P", "R", "S", "T", "U"}
LOWER == {"a", "b", "c", "d", "e", "f", "g", "h", "i", "j", "k", "l", "n",
          "o", "r", "s", "t", "u", "v"}
ALPHA == UPPER \cup LOWER
BLANK == {"HT", "SP"}
SPACE == {"HT", "LF", "VT", "CR", "SP"}
CNTRL == {"NUL", "CTL", "x02", "x03", "x04", "x05", "x06", "HT", "LF", "VT",
          "CR", "DEL"}
SEPARATOR == {"(", "<", ">", "@", ";", ":", "DQ", "/", "[", "]", "?", "=",
              "{", "}", "{+", "}+", "SP", "HT"}
ASCII == CNTRL \cup SEPARATOR \cup ALPHA \cup DIGIT \cup Relaxable \cup Relaxed
           \cup {"!", "#", "%", "+", "-", ".", "|"}
ANY == ASCII \cup {"x80"}

(***************************************************************************)
(* One edge of a machine: on a symbol of the set, perform the actions in   *)
(* order and go to the state; state 0 is the error state.  A row lists the *)
(* edges of a state, the first that matches is taken, none means an error. *)
(***************************************************************************)
Do(symbols, actions, target) ==
  [on |-> symbols, do |-> actions, to |-> target]

On(symbols, target) == Do(symbols, <<>>, target)

Rows(first, rows) ==
  [s \in first .. first + Len(rows) - 1 |-> rows[s - first + 1]]

Stuck == [on |-> {}, do |-> <<>>, to |-> 0]

\* The edge a machine takes in a state with the given row, on symbol c.
EdgeOn(row, c) ==
  LET fits == {i \in DOMAIN row : c \in row[i].on}
  IN  IF fits = {} THEN Stuck
      ELSE row[CHOOSE i \in fits : \A j \in fits : i <= j]
=============================================================================
