--------------------------- MODULE MCHttpParsing ---------------------------
(* HttpParsing for TLC: a bare GET whose method can be cut; one with a     *)
(* query and a traceparent under its canonical name, with spaces around    *)
(* it, upper-case digits and a value that is cut into a valid one; one     *)
(* with "HTTP/2" in its target and as its version, and a traceparent under *)
(* each of its names; a POST with other headers around a lower-case        *)
(* traceparent of a later version, and a body that itself looks like a     *)
(* request; and GETs whose traceparent is no valid one: an unknown         *)
(* version, a zero trace id, a span id that is not hexadecimal.            *)
EXTENDS HttpParsing

Ids == <<"-", "a", "0", "-", "b", "-", "0", "1">>

Bare == [method |-> <<"G", "ET">>, target |-> <<"/">>, version |-> "1.",
         headers |-> <<>>, body |-> <<>>]

Query ==
  [Bare EXCEPT
     !.method = <<"GET">>, !.target = <<"/", "rolldice", "?", "sides=20">>,
     !.headers = <<"Traceparent", ":", "SP", "00", "-", "A", "0", "-", "b", "-",
                   "0", "1", "SP", "x", "SP", "CR", "LF">>]

Two ==
  [Bare EXCEPT
     !.target = <<"/", "HTTP/", "2", "x">>, !.version = "2",
     !.headers = <<"traceparent", ":", "00">> \o Ids \o <<"CR", "LF",
                   "Traceparent", ":", "00", "-", "1", "1", "-", "a", "-", "0", "0",
                   "CR", "LF">>]

Post ==
  [Bare EXCEPT
     !.method = <<"POST">>, !.target = <<"/", "rolldice">>,
     !.headers = <<"host", ":", "h", "CR", "LF", "traceparent", ":", "01">>
                   \o Ids \o <<"-", "new", "CR", "LF", "nocolon", "CR", "LF">>,
     !.body = <<"GET", "SP", "/", "SP", "HTTP/", "1.">>]

Invalid(tp) ==
  [Bare EXCEPT !.headers = <<"traceparent", ":">> \o tp \o <<"CR", "LF">>]

MCRequests ==
  {Bare, Query, Two, Post,
   Invalid(<<"FF">> \o Ids),
   Invalid(<<"00", "-", "0", "0", "-", "b", "-", "0", "1">>),
   Invalid(<<"00", "-", "a", "0", "-", "x", "-", "0", "1">>)}

(* 200, 404, 500 after extra spaces, four digits, no digits.               *)
MCResponses ==
  {[spaces |-> 0, digits |-> <<2, 0, 0>>], [spaces |-> 0, digits |-> <<4, 0, 4>>],
   [spaces |-> 3, digits |-> <<5, 0, 0>>],
   [spaces |-> 0, digits |-> <<1, 0, 0, 0>>], [spaces |-> 0, digits |-> <<>>]}
=============================================================================
