---------------------------- MODULE HttpParsing ----------------------------
(***************************************************************************)
(* What the hooks of roll-dice/preload_tracer.cpp make of the bytes they   *)
(* see: parse_request_line and parse_request_headers on what read() has    *)
(* returned, the test that decides whether it starts a request span, the   *)
(* SDK's extraction of the parent (http_trace_context.h), and              *)
(* parse_response_status on what write() has written.                      *)
(*                                                                         *)
(* The client's requests are a stream that read() cuts anywhere.  Text is  *)
(* a sequence of symbols, each a run of characters that the parsers do not *)
(* look into.  "HTTP/1." and "HTTP/2" are two symbols each, so that a cut  *)
(* can fall inside them; "1." stands for the minor version too, on which   *)
(* nothing depends.  In a traceparent the version and the span id are one  *)
(* symbol, the trace id and the flags two.                                 *)
(***************************************************************************)
EXTENDS Naturals, Sequences, FiniteSets, SequencesExt

CONSTANTS Requests,     \* what clients send: records, see Text
          MaxRequests,  \* bound: requests on a connection
          Responses,    \* what the server answers: records, see FromStatus
          NoCode        \* parse_response_status found none

CRLF  == <<"CR", "LF">>
White == {"SP", "CR", "LF"}

VARIABLES
  sent,    \* the requests of the connection
  stream,  \* their text
  start,   \* how much of it comes before a request
  pos,     \* symbols the server has read
  last,    \* where the last read began and ended
  span,    \* the request span it started, if any, as a set
  digits,  \* the digits of the response's status, once there is one
  written, \* what write() returned: characters of the response written
  status   \* what parse_response_status makes of them

client == <<sent, stream, start>>
vars == <<client, pos, last, span, digits, written, status>>
-----------------------------------------------------------------------------
(* std::string::find; 0 is npos.                                           *)
Find(s, t) ==
  LET I == {i \in 1..(Len(s) - Len(t) + 1) : SubSeq(s, i, i + Len(t) - 1) = t}
  IN IF I = {} THEN 0 ELSE CHOOSE i \in I : \A j \in I : i <= j

From(s, i)   == SubSeq(s, i, Len(s))
Before(s, t) == IF Find(s, t) = 0 THEN s ELSE SubSeq(s, 1, Find(s, t) - 1)

(* operator>> of a stream: white space is skipped, a word extracted.       *)
SkipWhite(s) ==
  LET i == SelectInSeq(s, LAMBDA e : e \notin White) IN
  IF i = 0 THEN <<>> ELSE From(s, i)

Word(s) ==
  LET t == SkipWhite(s)
      i == SelectInSeq(t, LAMBDA e : e \in White)
  IN IF i = 0 THEN t ELSE SubSeq(t, 1, i - 1)

ParseRequestLine(line) ==
  LET method == Word(line)
      target == Word(From(SkipWhite(line), Len(method) + 1))
  IN [method |-> method, path |-> Before(target, <<"?">>)]

(* A line begins at the start and after every CR LF, and goes up to the    *)
(* next one or to the end.                                                 *)
LineBegins(s) ==
  {i \in 1..Len(s) : i = 1 \/ (i > 2 /\ <<s[i - 2], s[i - 1]>> = CRLF)}

Line(s, i) == Before(From(s, i), CRLF)

(* The lines up to the empty one, without those that have no colon.        *)
Headers(s) ==
  {i \in LineBegins(s) :
     /\ \A j \in LineBegins(s) : j <= i => Line(s, j) # <<>>
     /\ Find(Line(s, i), <<":">>) # 0}

CaseKept(k)  == k
LowerCase(k) == IF k = <<"Traceparent">> THEN <<"traceparent">> ELSE k

Trim(s) ==
  LET i == SelectInSeq(s, LAMBDA e : e # "SP") IN
  IF i = 0 THEN <<>> ELSE From(s, i)

Key(line)   == LowerCase(Before(line, <<":">>))
Value(line) == Trim(From(line, Find(line, <<":">>) + 1))

Named(s, key) == {i \in Headers(s) : Key(Line(s, i)) = key}

AfterLine(data) ==
  IF Find(data, CRLF) = 0 THEN <<>> ELSE From(data, Find(data, CRLF) + 2)

(* A map, in which the last of equal keys remains.                         *)
ParseRequestHeaders(data) ==
  LET s == AfterLine(data) IN
  [key \in {Key(Line(s, i)) : i \in Headers(s)} |->
     Value(Line(s, Max(Named(s, key))))]

(* HeaderCarrier::Get.                                                     *)
Get(headers, key) == IF key \in DOMAIN headers THEN headers[key] ELSE <<>>

(* detail::SplitString(s, '-', results, 4): the k-th of at most four       *)
(* fields; what a fourth separator cuts off is ignored.                    *)
Dashes(s) == {i \in DOMAIN s : s[i] = "-"}

DashAt(s, k) ==
  CHOOSE i \in Dashes(s) : Cardinality({j \in Dashes(s) : j <= i}) = k

Field(s, k) ==
  SubSeq(s, IF k = 1 THEN 1 ELSE DashAt(s, k - 1) + 1,
            IF k > Cardinality(Dashes(s)) THEN Len(s) ELSE DashAt(s, k) - 1)

(* kHexDigits has a value for digits of either case, the same one.         *)
LowerHex == {"00", "01", "ff", "0", "1", "a", "b"}
UpperHex == {"FF", "A"}
Hex == LowerHex \cup UpperHex
HexToInt(c) == IF c = "FF" THEN "ff" ELSE IF c = "A" THEN "a" ELSE c

IsValidHex(s)  == \A i \in DOMAIN s : s[i] \in Hex
HexToBinary(s) == [i \in DOMAIN s |-> HexToInt(s[i])]
IsValidId(s)   == \E i \in DOMAIN s : s[i] # "0"

(* kVersionSize, kTraceIdSize, kSpanIdSize, kTraceFlagsSize and            *)
(* kTraceParentSize, in symbols.                                           *)
FieldSize == <<1, 2, 1, 2>>
kTraceParentSize == 9

(* Trace id, span id and flags.                                            *)
ContextOf(tp) ==
  <<HexToBinary(Field(tp, 2)), HexToBinary(Field(tp, 3)), HexToBinary(Field(tp, 4))>>

ExtractLeniently(tp) ==
  IF /\ Cardinality(Dashes(tp)) >= 3
     /\ \A k \in 1..4 : IsValidHex(Field(tp, k))
     /\ HexToBinary(Field(tp, 1)) # <<"ff">>
     /\ IsValidId(HexToBinary(Field(tp, 2))) /\ IsValidId(HexToBinary(Field(tp, 3)))
  THEN ContextOf(tp)
  ELSE <<>>

(* The context, or the invalid one.                                        *)
ExtractContextFromTraceHeaders(tp) ==
  IF /\ Cardinality(Dashes(tp)) >= 3
     /\ \A k \in 1..4 : /\ Len(Field(tp, k)) = FieldSize[k]
                        /\ IsValidHex(Field(tp, k))
     /\ LET version == HexToBinary(Field(tp, 1)) IN
          /\ version # <<"ff">>
          /\ IF version = <<"00">> THEN Len(tp) = kTraceParentSize
                                   ELSE Len(tp) >= kTraceParentSize
     /\ IsValidId(HexToBinary(Field(tp, 2))) /\ IsValidId(HexToBinary(Field(tp, 3)))
  THEN ContextOf(tp)
  ELSE <<>>

(* StringUtil::Trim, on both sides.                                        *)
Trimmed(s) ==
  LET t == SkipWhite(s) IN
  SubSeq(t, 1, SelectLastInSeq(t, LAMBDA e : e \notin White))

(* HttpTraceContext().Extract.                                             *)
Extract(headers) ==
  ExtractContextFromTraceHeaders(Trimmed(Get(headers, <<"traceparent">>)))

HasVersion(data) ==
  Find(data, <<"HTTP/", "1.">>) # 0 \/ Find(data, <<"HTTP/", "2">>) # 0

HttpLikeAnyLine(data, line) ==
  /\ line.method # <<>> /\ line.path # <<>> /\ Head(line.path) = "/"

HttpLikeAnyPath(data, line) ==
  /\ line.method # <<>> /\ line.path # <<>>
  /\ HasVersion(data)

(* The "if" of read().                                                     *)
HttpLike(data, line) ==
  /\ line.method # <<>> /\ line.path # <<>> /\ Head(line.path) = "/"
  /\ HasVersion(data)
-----------------------------------------------------------------------------
(* The text of a request, which the client adds to the stream.             *)
Text(r) ==
  r.method \o <<"SP">> \o r.target \o <<"SP", "HTTP/", r.version>> \o CRLF
    \o r.headers \o CRLF \o r.body

(* Methods and targets have no white space and are not empty, methods have *)
(* no slash, targets begin with one.                                       *)
ASSUME RequestAssumption ==
  \A r \in Requests :
    /\ r.method \in Seq(STRING \ (White \cup {"HTTP/"})) /\ r.method # <<>>
    /\ r.target \in Seq(STRING \ White) /\ r.target # <<>> /\ r.target[1] = "/"
    /\ r.version \in {"1.", "2"}
    /\ r.headers \in Seq(STRING) /\ r.body \in Seq(STRING)

(* Header lines end in CR LF and none is empty.                            *)
ASSUME HeaderAssumption ==
  \A r \in Requests : LET h == r.headers IN
    /\ h # <<>> => Len(h) > 1 /\ <<h[Len(h) - 1], h[Len(h)]>> = CRLF
    /\ \A i \in LineBegins(h) : Line(h, i) # <<>>

Init ==
  /\ sent = <<>> /\ stream = <<>> /\ start = <<>>
  /\ pos = 0 /\ last = [from |-> 0, to |-> 0] /\ span = {}
  /\ digits = <<>> /\ written = 0 /\ status = NoCode

(* The response that Write models comes after the last request.            *)
ClientSend(r) ==
  /\ Len(sent) < MaxRequests /\ written = 0
  /\ sent' = Append(sent, r)
  /\ stream' = stream \o Text(r)
  /\ start' = Append(start, Len(stream))
  /\ UNCHANGED <<pos, last, span, digits, written, status>>

Read(n) ==
  LET data == SubSeq(stream, pos + 1, pos + n)
      line == ParseRequestLine(Before(data, CRLF))
  IN /\ pos + n <= Len(stream)
     /\ pos' = pos + n
     /\ last' = [from |-> pos, to |-> pos + n]
     /\ span' = IF HttpLike(data, line)
                THEN {[method |-> line.method, path |-> line.path,
                       parent |-> Extract(ParseRequestHeaders(data))]}
                ELSE {}
     /\ UNCHANGED <<client, digits, written, status>>
-----------------------------------------------------------------------------
(* A response head: "HTTP/1.", a version digit, then these characters: a   *)
(* space and perhaps more, the digits of the status, and a reason; SPACE   *)
(* and REASON are not digits.                                              *)
SPACE == 10
REASON == 11
FromStatus(w) ==
  [i \in 1..(w.spaces + 1) |-> SPACE] \o w.digits \o <<SPACE, REASON>>

ASSUME ResponseAssumption ==
  \A w \in Responses : w.spaces \in Nat /\ w.digits \in Seq(0..9)

Number(ds) == FoldLeft(LAMBDA n, d : 10 * n + d, 0, ds)

(* p starts at the space after the version and skips spaces; strtol takes  *)
(* the digits from p on, also those behind len.                            *)
AfterSpaces(w) == SelectInSeq(FromStatus(w), LAMBDA e : e # SPACE)

DigitsButLast(w) ==
  LET t == From(FromStatus(w), AfterSpaces(w))
      i == SelectInSeq(t, LAMBDA e : e > 9)
  IN SubSeq(t, 1, i - 2)

DigitsAt(w) ==
  LET t == From(FromStatus(w), AfterSpaces(w))
      i == SelectInSeq(t, LAMBDA e : e > 9)
  IN SubSeq(t, 1, i - 1)

ParseResponseStatus(w, isHead, len) ==
  IF \/ len < 12 \/ ~isHead
     \/ 8 + AfterSpaces(w) - 1 >= len
     \/ DigitsAt(w) = <<>> \/ Number(DigitsAt(w)) > 999
  THEN NoCode
  ELSE Number(DigitsAt(w))

(* write() returns n, perhaps less than it was asked to write, of the head *)
(* of the response or of something else.                                   *)
Write(w, isHead, n) ==
  /\ pos = Len(stream) /\ sent # <<>> /\ written = 0
  /\ digits' = w.digits
  /\ written' = n
  /\ status' = ParseResponseStatus(w, isHead, n)
  /\ UNCHANGED <<client, pos, last, span>>

Next ==
  \/ \E r \in Requests : ClientSend(r)
  \/ \E n \in 1..Len(stream) : Read(n)
  \/ \E w \in Responses, isHead \in BOOLEAN :
       \E n \in 1..(8 + Len(FromStatus(w))) : Write(w, isHead, n)

Spec == Init /\ [][Next]_vars
-----------------------------------------------------------------------------
(* The last read began with request i, or inside of its method.            *)
Begun(i) ==
  /\ last.to > 0
  /\ last.from \in start[i]..(start[i] + Len(sent[i].method) - 1)

(* Its request line ends there, before the CR LF.                          *)
LineEnd(i) == start[i] + Len(sent[i].method) + Len(sent[i].target) + 4

(* What such a read has of the method and of the target.                   *)
MethodRead(i) == From(sent[i].method, last.from - start[i] + 1)

TargetRead(i) ==
  LET n == last.to - start[i] - Len(sent[i].method) - 1 IN
  SubSeq(sent[i].target, 1,
         IF n < Len(sent[i].target) THEN n ELSE Len(sent[i].target))

(* A read that begins with a request starts a span if it goes as far as    *)
(* the end of the request line, and if it is cut before, only when the     *)
(* part of the target it has contains "HTTP/1." or "HTTP/2" itself.  The   *)
(* span has the request's method and the part of its path that was read.   *)
(* The same holds of a read that begins inside of the method, and with the *)
(* rest of the method.                                                     *)
LineAsSent ==
  \A i \in DOMAIN sent : Begun(i) =>
    /\ span # {} <=> last.to >= LineEnd(i) \/ HasVersion(TargetRead(i))
    /\ \A s \in span : /\ s.method = MethodRead(i)
                       /\ s.path = Before(TargetRead(i), <<"?">>)

(* A read that begins behind the method, in what is left of a request line *)
(* that an earlier read has cut, starts no span: a target is never taken   *)
(* for a method, and no request line makes two spans.                      *)
RestStartsNone ==
  \A i \in DOMAIN sent :
    last.to > 0 /\ last.from \in (start[i] + Len(sent[i].method))..LineEnd(i)
      => span = {}
-----------------------------------------------------------------------------
(* A traceparent, with the given hexadecimal digits (the standard wants    *)
(* LowerHex), and what it names: version, trace id, span id and flags;     *)
(* later versions may add fields.                                          *)
IsTraceparent(s, H) ==
  /\ Len(s) >= 9
  /\ s[1] \in H \ {"ff", "FF"} /\ s[2] = "-"
  /\ s[3] \in H /\ s[4] \in H /\ ~(s[3] = "0" /\ s[4] = "0") /\ s[5] = "-"
  /\ s[6] \in H \ {"0"} /\ s[7] = "-"
  /\ s[8] \in H /\ s[9] \in H
  /\ Len(s) = 9 \/ (s[1] # "00" /\ s[10] = "-")

ParentIn(s) ==
  <<<<HexToInt(s[3]), HexToInt(s[4])>>, <<HexToInt(s[6])>>,
    <<HexToInt(s[8]), HexToInt(s[9])>>>>

(* The header lines that are traceparents, and their values.               *)
Traceparents(h) ==
  {i \in LineBegins(h) : /\ i < Len(h) /\ h[i + 1] = ":"
                         /\ h[i] \in {"traceparent", "Traceparent"}}

SentValue(h, i) == Trimmed(From(Line(h, i), 3))

(* The parent that the last of them names, if it is a traceparent.         *)
SentParent(h) ==
  IF Traceparents(h) = {} THEN <<>>
  ELSE LET v == SentValue(h, Max(Traceparents(h))) IN
       IF IsTraceparent(v, Hex) THEN ParentIn(v) ELSE <<>>

(* Its parent is none, or what the beginning of one of the request's       *)
(* traceparents names: a cut never makes up an id, shortens one or puts    *)
(* together two headers.                                                   *)
ParentAsSent ==
  \A s \in span, i \in DOMAIN sent : Begun(i) =>
    LET h == sent[i].headers IN
    \/ s.parent = <<>>
    \/ \E j \in Traceparents(h) :
         /\ Len(SentValue(h, j)) >= kTraceParentSize
         /\ IsTraceparent(SubSeq(SentValue(h, j), 1, kTraceParentSize), Hex)
         /\ s.parent = ParentIn(SentValue(h, j))

(* When one read returns the whole head of a request, a span is started    *)
(* and continues the trace that the request's last traceparent names,      *)
(* whatever the case of the header and whatever follows in the same read.  *)
WholeHeadTraced ==
  \A i \in DOMAIN sent :
    /\ Begun(i)
    /\ last.to >= start[i] + Len(Text(sent[i])) - Len(sent[i].body)
    => span = {[method |-> MethodRead(i),
                path |-> Before(sent[i].target, <<"?">>),
                parent |-> SentParent(sent[i].headers)]}
-----------------------------------------------------------------------------
(* parse_response_status finds the code of the response or none; a write   *)
(* cut short never makes another code of it.                               *)
StatusIsSent == status \in {NoCode, Number(digits)}
=============================================================================
