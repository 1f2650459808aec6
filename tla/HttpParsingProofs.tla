------------------------- MODULE HttpParsingProofs -------------------------
(***************************************************************************)
(* Theorems about HttpParsing, for any requests and responses and however  *)
(* the stream is cut: what the request line, the headers, the traceparent  *)
(* and the status line are taken for.                                      *)
(***************************************************************************)
EXTENDS HttpParsing, SequenceTheorems, FiniteSetTheorems, WellFoundedInduction,
        TLAPS

(* The least of a set of numbers.                                          *)
LEMMA MinIs ==
  ASSUME NEW I, NEW k \in I, I \subseteq Nat, \A j \in I : k <= j
  PROVE  Min(I) = k
  <1>1. \A x \in I : (\A y \in I : x <= y) => x = k
    OBVIOUS
  <1> QED BY <1>1 DEF Min

(* A set of numbers has a least one.                                       *)
LEMMA LeastNumber ==
  ASSUME NEW I \in SUBSET Nat, I # {}
  PROVE  \E i \in I : \A j \in I : i <= j
  <1> DEFINE R == OpToRel(<, Nat)
  <1>1. \E x \in I : \A y \in I : ~(<<y, x>> \in R)
    <2>1. IsWellFoundedOn(R, Nat)
      BY NatLessThanWellFounded
    <2> HIDE DEF R
    <2> QED BY <2>1, WFMin
  <1>2. \A x, y \in Nat : <<y, x>> \in R <=> y < x
    BY DEF OpToRel
  <1> HIDE DEF R
  <1>3. \E x \in I : \A y \in I : ~(y < x)
    BY <1>1, <1>2, Zenon
  <1> QED BY <1>3

(* The greatest of a set of numbers.                                       *)
LEMMA MaxIs ==
  ASSUME NEW I, NEW k \in I, I \subseteq Nat, \A j \in I : j <= k
  PROVE  Max(I) = k
  <1>1. \A x \in I : (\A y \in I : x >= y) => x = k
    OBVIOUS
  <1> QED BY <1>1 DEF Max

(* A bounded set of numbers has a greatest one.                            *)
LEMMA GreatestNumber ==
  ASSUME NEW I \in SUBSET Nat, I # {}, NEW b \in Nat, \A i \in I : i <= b
  PROVE  \E k \in I : \A j \in I : j <= k
  <1> DEFINE U == {u \in Nat : \A i \in I : i <= u}
  <1>1. U \in SUBSET Nat /\ U # {}
    OBVIOUS
  <1>2. PICK k \in U : \A u \in U : k <= u
    BY <1>1, LeastNumber
  <1>3. k \in I
    <2>1. ASSUME k \notin I PROVE FALSE
      <3>1. \A i \in I : i < k
        BY <1>2, <2>1
      <3>2. k - 1 \in Nat /\ \A i \in I : i <= k - 1
        <4>1. PICK i \in I : i < k
          BY <3>1
        <4>2. k \in Nat /\ k > 0
          BY <1>2, <4>1
        <4> QED BY <3>1, <4>2
      <3>3. k - 1 \in U /\ ~(k <= k - 1)
        BY <1>2, <3>2
      <3> QED BY <1>2, <3>3
    <2> QED BY <2>1
  <1> QED BY <1>2, <1>3

(* A sequence that consists of two, or of three.                           *)
IsConcat(f, s, t, S) ==
  /\ f \in Seq(S) /\ Len(f) = Len(s) + Len(t)
  /\ \A i \in 1..Len(s) : f[i] = s[i]
  /\ \A i \in 1..Len(t) : f[Len(s) + i] = t[i]

IsConcat3(f, s, t, u, S) ==
  /\ f \in Seq(S) /\ Len(f) = Len(s) + Len(t) + Len(u)
  /\ \A i \in 1..Len(s) : f[i] = s[i]
  /\ \A i \in 1..Len(t) : f[Len(s) + i] = t[i]
  /\ \A i \in 1..Len(u) : f[Len(s) + Len(t) + i] = u[i]

(* Concatenation gives such sequences.                                     *)
LEMMA ConcatIs ==
  ASSUME NEW S, NEW s \in Seq(S), NEW t \in Seq(S)
  PROVE  s \o t \in Seq(S) /\ IsConcat(s \o t, s, t, S)
  <1>1. Len(s) \in Nat /\ Len(t) \in Nat
    OBVIOUS
  <1>2. \A i \in 1..Len(s) : i \in 1..(Len(s) + Len(t)) /\ i <= Len(s)
    BY <1>1
  <1>3. \A i \in 1..Len(t) : /\ Len(s) + i \in 1..(Len(s) + Len(t))
                             /\ ~(Len(s) + i <= Len(s))
                             /\ (Len(s) + i) - Len(s) = i
    BY <1>1
  <1>4. /\ s \o t \in Seq(S) /\ Len(s \o t) = Len(s) + Len(t)
        /\ \A i \in 1..(Len(s) + Len(t)) :
             (s \o t)[i] = IF i <= Len(s) THEN s[i] ELSE t[i - Len(s)]
    BY ConcatProperties
  <1> QED BY <1>2, <1>3, <1>4 DEF IsConcat

(* The same for three.                                                     *)
LEMMA Concat3Is ==
  ASSUME NEW S, NEW s \in Seq(S), NEW t \in Seq(S), NEW u \in Seq(S)
  PROVE  IsConcat3(s \o t \o u, s, t, u, S)
  <1>0. Len(s) \in Nat /\ Len(t) \in Nat /\ Len(u) \in Nat
    OBVIOUS
  <1> DEFINE x == s \o t
             f == x \o u
  <1>1. IsConcat(x, s, t, S) /\ x \in Seq(S)
    BY ConcatIs, Zenon
  <1> HIDE DEF x
  <1>2. IsConcat(f, x, u, S)
    BY <1>1, ConcatIs, Zenon
  <1> HIDE DEF f
  <1>3. IsConcat3(f, s, t, u, S)
    <2>1. /\ Len(x) = Len(s) + Len(t) /\ Len(f) = Len(x) + Len(u) /\ f \in Seq(S)
      BY <1>1, <1>2 DEF IsConcat
    <2>2. /\ \A i \in 1..Len(s) : i \in 1..Len(x)
          /\ \A i \in 1..Len(t) : Len(s) + i \in 1..Len(x)
      BY <1>0, <2>1
    <2>3. /\ \A i \in 1..Len(s) : f[i] = s[i]
          /\ \A i \in 1..Len(t) : f[Len(s) + i] = t[i]
      BY <1>1, <1>2, <2>2, Zenon DEF IsConcat
    <2>4. \A i \in 1..Len(u) : f[Len(s) + Len(t) + i] = u[i]
      BY <1>2, <2>1, Zenon DEF IsConcat
    <2>5. Len(f) = Len(s) + Len(t) + Len(u)
      BY <1>0, <2>1
    <2> QED BY <2>1, <2>3, <2>4, <2>5, Zenon DEF IsConcat3
  <1> QED BY <1>3, Zenon DEF f, x

(* A part of a sequence.                                                   *)
LEMMA SubSeqIs ==
  ASSUME NEW S, NEW s \in Seq(S), NEW m \in 1..(Len(s) + 1),
         NEW n \in (m - 1)..Len(s)
  PROVE  /\ SubSeq(s, m, n) \in Seq(S) /\ Len(SubSeq(s, m, n)) = n - m + 1
         /\ \A i \in 1..(n - m + 1) : SubSeq(s, m, n)[i] = s[m + i - 1]
  <1>1. /\ m \in Int /\ n \in Int /\ \A i \in m..n : s[i] \in S
        /\ m <= n \/ n - m + 1 = 0
    OBVIOUS
  <1> QED BY <1>1, SubSeqProperties
-----------------------------------------------------------------------------
(* The status line.                                                        *)

(* The characters after the version.                                       *)
Char == 0..11

StatusText(f, sp, d) ==
  /\ f \in Seq(Char) /\ Len(f) = sp + Len(d) + 3
  /\ \A i \in 1..(sp + 1) : f[i] = SPACE
  /\ \A i \in 1..Len(d) : f[sp + 1 + i] = d[i]
  /\ f[sp + Len(d) + 2] = SPACE /\ f[sp + Len(d) + 3] = REASON

(* Spaces, digits and a reason make a status text.                         *)
LEMMA StatusTextIs ==
  ASSUME NEW sp \in Nat, NEW d \in Seq(Char), NEW s, NEW e, NEW f,
         Len(s) = sp + 1, \A i \in 1..(sp + 1) : s[i] = SPACE,
         Len(e) = 2, e[1] = SPACE, e[2] = REASON,
         IsConcat3(f, s, d, e, Char)
  PROVE  StatusText(f, sp, d)
  <1>1. Len(d) \in Nat
    OBVIOUS
  <1>2. f[sp + Len(d) + 2] = SPACE /\ f[sp + Len(d) + 3] = REASON
    <2>1. /\ Len(s) + Len(d) + 1 = sp + Len(d) + 2
          /\ Len(s) + Len(d) + 2 = sp + Len(d) + 3
          /\ 1 \in 1..Len(e) /\ 2 \in 1..Len(e)
      BY <1>1
    <2>2. /\ f[Len(s) + Len(d) + 1] = e[1]
          /\ f[Len(s) + Len(d) + 2] = e[2]
      BY <2>1 DEF IsConcat3
    <2> QED BY <2>1, <2>2
  <1> QED BY <1>1, <1>2 DEF StatusText, IsConcat3

(* Every response that the server may write has one.                       *)
LEMMA FromStatusIs ==
  ASSUME NEW w \in Responses
  PROVE  /\ w.spaces \in Nat /\ w.digits \in Seq(0..9)
         /\ w.digits \in Seq(Char)
         /\ StatusText(FromStatus(w), w.spaces, w.digits)
  <1> DEFINE s == [i \in 1..(w.spaces + 1) |-> SPACE]
             e == <<SPACE, REASON>>
  <1>1. w.spaces \in Nat /\ w.digits \in Seq(0..9) /\ w.digits \in Seq(Char)
    BY ResponseAssumption DEF Char
  <1>2. /\ s \in Seq(Char) /\ Len(s) = w.spaces + 1
        /\ \A i \in 1..(w.spaces + 1) : s[i] = SPACE
    BY <1>1 DEF SPACE, Char
  <1>3. /\ e \in Seq(Char) /\ Len(e) = 2 /\ e[1] = SPACE /\ e[2] = REASON
    BY DEF SPACE, REASON, Char
  <1>4. FromStatus(w) = s \o w.digits \o e
    BY DEF FromStatus
  <1> HIDE DEF s, e
  <1>5. IsConcat3(s \o w.digits \o e, s, w.digits, e, Char)
    BY <1>1, <1>2, <1>3, Concat3Is, Zenon
  <1>6. StatusText(s \o w.digits \o e, w.spaces, w.digits)
    BY <1>1, <1>2, <1>3, <1>5, StatusTextIs, Zenon
  <1> QED BY <1>1, <1>4, <1>6

(* What is left of it once the spaces are skipped.                         *)
FirstAt(sp, d) == IF Len(d) = 0 THEN sp + 3 ELSE sp + 2
NonSpaces(f) == {i \in 1..Len(f) : f[i] # SPACE}

StartsWith(t, d) ==
  /\ t \in Seq(Char) /\ \A i \in 1..Len(d) : t[i] = d[i]
  /\ Len(d) + 1 \in 1..Len(t) /\ t[Len(d) + 1] > 9

(* The first character that is no space is the first digit or, without     *)
(* any, the reason; from there on come the digits and then no digit.       *)
LEMMA SpacesSkipped ==
  ASSUME NEW sp \in Nat, NEW d \in Seq(0..9), NEW f, StatusText(f, sp, d)
  PROVE  /\ FirstAt(sp, d) \in NonSpaces(f) /\ NonSpaces(f) \subseteq Nat
         /\ \A j \in NonSpaces(f) : FirstAt(sp, d) <= j
         /\ StartsWith(From(f, FirstAt(sp, d)), d)
  <1> USE DEF StartsWith
  <1> DEFINE I == NonSpaces(f)
             k == FirstAt(sp, d)
             t == From(f, k)
             n == Len(d)
  <1>0. n \in Nat /\ \A i \in 1..n : d[i] \in 0..9
    OBVIOUS
  <1>1. /\ f \in Seq(Char) /\ Len(f) = sp + n + 3
        /\ \A i \in 1..(sp + 1) : f[i] = 10
        /\ \A i \in 1..n : f[sp + 1 + i] = d[i]
        /\ f[sp + n + 2] = 10 /\ f[sp + n + 3] = 11
    BY DEF StatusText, SPACE, REASON
  <1> HIDE DEF n, FirstAt
  <1>2. k \in I /\ I \subseteq Nat /\ \A j \in I : k <= j
    <2>1. CASE n = 0
      <3>1. k = sp + 3 /\ f[sp + 3] = 11 /\ f[sp + 2] = 10 /\ Len(f) = sp + 3
        BY <1>0, <1>1, <2>1 DEF n, FirstAt
      <3>2. \A j \in 1..(sp + 3) : j <= sp + 1 \/ j = sp + 2 \/ j = sp + 3
        OBVIOUS
      <3>3. \A j \in 1..(sp + 3) : j < sp + 3 => f[j] = 10
        BY <1>1, <3>1, <3>2
      <3> QED BY <3>1, <3>3 DEF SPACE, NonSpaces
    <2>2. CASE n # 0
      <3>1. k = sp + 2 /\ f[sp + 2] = d[1] /\ 1 \in 1..n
        <4>1. 1 \in 1..n /\ sp + 1 + 1 = sp + 2
          BY <1>0, <2>2
        <4> QED BY <1>1, <2>2, <4>1 DEF n, FirstAt
      <3>2. \A j \in 1..Len(f) : j < sp + 2 => f[j] = 10
        BY <1>1
      <3>3. k \in 1..Len(f) /\ f[k] \in 0..9
        BY <1>0, <1>1, <3>1
      <3>4. \A j \in 1..Len(f) : f[j] # 10 => k <= j
        BY <3>1, <3>2
      <3> HIDE DEF k
      <3> QED BY <3>3, <3>4 DEF SPACE, NonSpaces
    <2> QED BY <2>1, <2>2
  <1>3. CASE n = 0
    <2>1. k = sp + 3 /\ Len(f) = sp + 3 /\ f[sp + 3] = 11
      BY <1>0, <1>1, <1>3 DEF n, FirstAt
    <2>2. /\ SubSeq(f, sp + 3, sp + 3) \in Seq(Char)
          /\ Len(SubSeq(f, sp + 3, sp + 3)) = 1
          /\ SubSeq(f, sp + 3, sp + 3)[1] = f[sp + 3]
      <3>1. /\ sp + 3 \in 1..(Len(f) + 1) /\ sp + 3 \in ((sp + 3) - 1)..Len(f)
            /\ (sp + 3) - (sp + 3) + 1 = 1 /\ (sp + 3) + 1 - 1 = sp + 3
        BY <2>1
      <3> QED BY <1>1, <3>1, SubSeqIs
    <2>3. t = SubSeq(f, sp + 3, sp + 3)
      BY <2>1 DEF From
    <2> HIDE DEF t, k
    <2>4. /\ t \in Seq(Char) /\ n + 1 \in 1..Len(t) /\ t[n + 1] > 9
          /\ \A i \in 1..n : t[i] = d[i]
      BY <1>3, <2>1, <2>2, <2>3
    <2> QED BY <1>2, <2>4 DEF n, t, k
  <1>4. CASE n # 0
    <2>1. k = sp + 2 /\ Len(f) = sp + n + 3
      BY <1>0, <1>1, <1>4 DEF n, FirstAt
    <2>2. /\ t \in Seq(Char) /\ Len(t) = n + 2
          /\ \A i \in 1..(n + 2) : t[i] = f[sp + 1 + i]
      <3>1. /\ sp + 2 \in 1..(Len(f) + 1) /\ Len(f) \in ((sp + 2) - 1)..Len(f)
            /\ Len(f) - (sp + 2) + 1 = n + 2
            /\ \A i \in 1..(n + 2) : (sp + 2) + i - 1 = sp + 1 + i
        BY <1>0, <2>1
      <3>2. /\ SubSeq(f, sp + 2, Len(f)) \in Seq(Char)
            /\ Len(SubSeq(f, sp + 2, Len(f))) = Len(f) - (sp + 2) + 1
            /\ \A i \in 1..(Len(f) - (sp + 2) + 1) :
                 SubSeq(f, sp + 2, Len(f))[i] = f[(sp + 2) + i - 1]
        BY <1>1, <3>1, SubSeqIs
      <3>3. t = SubSeq(f, sp + 2, Len(f))
        BY <2>1 DEF From
      <3> HIDE DEF t, k
      <3> QED BY <3>1, <3>2, <3>3
    <2> HIDE DEF t, k
    <2>3. /\ n + 1 \in 1..Len(t) /\ t[n + 1] > 9
          /\ \A i \in 1..n : t[i] = d[i]
      <3>1. t[n + 1] = f[sp + n + 2]
        <4>1. n + 1 \in 1..(n + 2) /\ sp + 1 + (n + 1) = sp + n + 2
          BY <1>0
        <4> QED BY <2>2, <4>1
      <3>2. \A i \in 1..n : i \in 1..(n + 2)
        BY <1>0
      <3> QED BY <1>0, <1>1, <2>2, <3>1, <3>2
    <2> QED BY <1>2, <2>2, <2>3 DEF n, t, k
  <1> QED BY <1>3, <1>4

(* strtol is given the digits of the status and takes all of them.         *)
LEMMA DigitsAreSent ==
  ASSUME NEW w \in Responses
  PROVE  DigitsAt(w) = w.digits
  <1> DEFINE f == FromStatus(w)
             d == w.digits
             n == Len(d)
             k == FirstAt(w.spaces, d)
             t == From(f, k)
             I == NonSpaces(f)
             J == {i \in 1..Len(t) : t[i] > 9}
  <1>0. /\ k \in I /\ I \subseteq Nat /\ \A j \in I : k <= j
        /\ StartsWith(t, d)
    BY FromStatusIs, SpacesSkipped, Zenon
  <1>1. /\ t \in Seq(Char) /\ \A i \in 1..n : t[i] = d[i]
        /\ n + 1 \in 1..Len(t) /\ t[n + 1] > 9
    BY <1>0 DEF StartsWith
  <1>2. AfterSpaces(w) = k
    <2>1. AfterSpaces(w) = IF I # {} THEN Min(I) ELSE 0
      BY DEF AfterSpaces, SelectInSeq, NonSpaces
    <2> HIDE DEF I, k
    <2> QED BY <1>0, <2>1, MinIs
  <1>3. n \in Nat /\ d \in Seq(Char) /\ \A i \in 1..n : d[i] <= 9
    BY FromStatusIs
  <1> HIDE DEF t, k, d, f, n
  <1>4. SelectInSeq(t, LAMBDA e : e > 9) = n + 1
    <2>1. n + 1 \in J /\ J \subseteq Nat
      BY <1>1, <1>3
    <2>2. ASSUME NEW j \in J, j < n + 1 PROVE FALSE
      <3>1. j \in 1..n
        BY <1>3, <2>2
      <3>2. t[j] = d[j] /\ d[j] <= 9 /\ t[j] > 9 /\ t[j] \in 0..11
        BY <1>1, <1>3, <3>1 DEF Char
      <3> QED BY <3>2
    <2>3. \A j \in J : n + 1 <= j
      BY <1>3, <2>1, <2>2
    <2>4. SelectInSeq(t, LAMBDA e : e > 9) = IF J # {} THEN Min(J) ELSE 0
      BY DEF SelectInSeq
    <2> HIDE DEF J
    <2> QED BY <2>1, <2>3, <2>4, MinIs
  <1>5. DigitsAt(w) = SubSeq(t, 1, n)
    <2>1. (n + 1) - 1 = n
      BY <1>3
    <2> QED BY <1>2, <1>4, <2>1 DEF DigitsAt, t, f
  <1>6. /\ SubSeq(t, 1, n) \in Seq(Char) /\ Len(SubSeq(t, 1, n)) = n
        /\ \A i \in 1..n : SubSeq(t, 1, n)[i] = t[i]
    <2>1. 1 \in 1..(Len(t) + 1) /\ n \in (1 - 1)..Len(t)
      BY <1>1, <1>3
    <2>2. n - 1 + 1 = n /\ \A i \in 1..n : 1 + i - 1 = i
      BY <1>3
    <2> QED BY <1>1, <2>1, <2>2, SubSeqIs
  <1>7. Len(d) = n
    BY DEF n
  <1>8. DigitsAt(w) = d
    BY <1>1, <1>3, <1>5, <1>6, <1>7, SeqEqual
  <1> QED BY <1>8 DEF d

(* parse_response_status finds the code of the response or none, however   *)
(* many digits and spaces there are and wherever the write is cut short.   *)
THEOREM StatusAsSent == Spec => []StatusIsSent
  <1>1. Init => StatusIsSent
    BY DEF Init, StatusIsSent
  <1>2. StatusIsSent /\ [Next]_vars => StatusIsSent'
    <2> SUFFICES ASSUME StatusIsSent, [Next]_vars PROVE StatusIsSent'
      OBVIOUS
    <2>1. ASSUME NEW w \in Responses, NEW isHead \in BOOLEAN, NEW n,
                 Write(w, isHead, n)
          PROVE  StatusIsSent'
      <3>1. status' \in {NoCode, Number(w.digits)}
        BY <2>1, DigitsAreSent, Zenon DEF Write, ParseResponseStatus
      <3> QED BY <2>1, <3>1 DEF StatusIsSent, Write
    <2>2. ASSUME (\E r \in Requests : ClientSend(r)) \/ (\E n : Read(n))
                   \/ UNCHANGED vars
          PROVE  StatusIsSent'
      BY <2>2 DEF StatusIsSent, ClientSend, Read, vars
    <2> QED BY <2>1, <2>2 DEF Next
  <1> QED BY <1>1, <1>2, PTL DEF Spec
-----------------------------------------------------------------------------
(* Parts of a text.                                                        *)

Symbol == STRING \cup {"SP", "CR", "LF", "HTTP/", "1.", "2", ":", "?", "/"}

(* x is the part of s from i to j.                                         *)
IsPart(x, s, i, j) ==
  /\ x \in Seq(Symbol) /\ Len(x) = j - i + 1
  /\ \A k \in 1..(j - i + 1) : x[k] = s[i + k - 1]

(* SubSeq gives it.                                                        *)
LEMMA PartIs ==
  ASSUME NEW s \in Seq(Symbol), NEW i \in 1..(Len(s) + 1),
         NEW j \in (i - 1)..Len(s)
  PROVE  IsPart(SubSeq(s, i, j), s, i, j)
  BY SubSeqIs DEF IsPart

(* A part of a part.                                                       *)
LEMMA PartOfPart ==
  ASSUME NEW s, NEW x, NEW y, NEW i \in Nat \ {0}, NEW j \in Int, j >= i - 1,
         NEW a \in Nat \ {0}, NEW b \in Int, b >= a - 1, b <= j - i + 1,
         IsPart(x, s, i, j), IsPart(y, x, a, b)
  PROVE  IsPart(y, s, i + a - 1, i + b - 1)
  <1>1. /\ y \in Seq(Symbol) /\ Len(y) = b - a + 1
        /\ (i + b - 1) - (i + a - 1) + 1 = b - a + 1
    BY DEF IsPart
  <1>2. ASSUME NEW k \in 1..(b - a + 1)
        PROVE  y[k] = s[(i + a - 1) + k - 1]
    <2>1. /\ a + k - 1 \in 1..(j - i + 1)
          /\ i + (a + k - 1) - 1 = (i + a - 1) + k - 1
      OBVIOUS
    <2> QED BY <2>1 DEF IsPart
  <1> QED BY <1>1, <1>2 DEF IsPart

(* Two parts that are the same.                                            *)
LEMMA PartsEqual ==
  ASSUME NEW x, NEW y, NEW s, NEW i \in Nat, NEW j \in Int,
         IsPart(x, s, i, j), IsPart(y, s, i, j)
  PROVE  x = y
  BY SeqEqual DEF IsPart
-----------------------------------------------------------------------------
(* The request line.                                                       *)

(* std::string::find of two symbols, or of one, finds the first place      *)
(* where they are, if there is one.                                        *)
Finds(f, s, u, v) ==
  /\ f # 0 => /\ f \in 1..(Len(s) - 1) /\ s[f] = u /\ s[f + 1] = v
              /\ \A i \in 1..(f - 1) : ~(s[i] = u /\ s[i + 1] = v)
  /\ f = 0 => \A i \in 1..(Len(s) - 1) : ~(s[i] = u /\ s[i + 1] = v)

FindsOne(f, s, u) ==
  /\ f # 0 => f \in 1..Len(s) /\ s[f] = u /\ \A i \in 1..(f - 1) : s[i] # u
  /\ f = 0 => \A i \in 1..Len(s) : s[i] # u

(* The library searches from the left, and a search that fails gives npos. *)
LEMMA FindIs ==
  ASSUME NEW s \in Seq(Symbol), NEW u \in Symbol, NEW v \in Symbol
  PROVE  Finds(Find(s, <<u, v>>), s, u, v)
  <1> DEFINE I == {i \in 1..(Len(s) - 2 + 1) : SubSeq(s, i, i + 2 - 1) = <<u, v>>}
             f == Find(s, <<u, v>>)
  <1>0. Len(s) \in Nat /\ Len(s) - 2 + 1 = Len(s) - 1
    OBVIOUS
  <1>1. f = IF I = {} THEN 0 ELSE CHOOSE i \in I : \A j \in I : i <= j
    BY DEF Find
  <1>2. ASSUME NEW i \in 1..(Len(s) - 1)
        PROVE  i \in I <=> s[i] = u /\ s[i + 1] = v
    <2>1. /\ i \in 1..(Len(s) + 1) /\ i + 1 \in (i - 1)..Len(s)
          /\ i + 2 - 1 = i + 1 /\ (i + 1) - i + 1 = 2
          /\ i + 1 - 1 = i /\ i + 2 - 1 = i + 1 /\ i \in 1..(Len(s) - 2 + 1)
      BY <1>0
    <2>2. /\ SubSeq(s, i, i + 1) \in Seq(Symbol) /\ Len(SubSeq(s, i, i + 1)) = 2
          /\ SubSeq(s, i, i + 1)[1] = s[i] /\ SubSeq(s, i, i + 1)[2] = s[i + 1]
      <3>1. /\ SubSeq(s, i, i + 1) \in Seq(Symbol)
            /\ Len(SubSeq(s, i, i + 1)) = (i + 1) - i + 1
            /\ \A j \in 1..((i + 1) - i + 1) : SubSeq(s, i, i + 1)[j] = s[i + j - 1]
        BY <2>1, SubSeqIs
      <3> QED BY <2>1, <3>1
    <2>3. /\ <<u, v>> \in Seq(Symbol) /\ Len(<<u, v>>) = 2
          /\ <<u, v>>[1] = u /\ <<u, v>>[2] = v
      OBVIOUS
    <2>4. SubSeq(s, i, i + 1) = <<u, v>> <=> s[i] = u /\ s[i + 1] = v
      <3>1. \A j \in 1..2 : j = 1 \/ j = 2
        OBVIOUS
      <3>2. ASSUME s[i] = u, s[i + 1] = v PROVE SubSeq(s, i, i + 1) = <<u, v>>
        <4> DEFINE x == SubSeq(s, i, i + 1)
                   y == <<u, v>>
        <4>1. /\ x \in Seq(Symbol) /\ y \in Seq(Symbol) /\ Len(x) = Len(y)
              /\ \A j \in 1..Len(x) : x[j] = y[j]
          BY <2>2, <2>3, <3>1, <3>2
        <4> HIDE DEF x, y
        <4>2. x = y
          BY <4>1, SeqEqual
        <4> QED BY <4>2 DEF x, y
      <3> QED BY <2>2, <2>3, <3>2
    <2> QED BY <2>1, <2>4
  <1>3. I \in SUBSET Nat /\ \A i \in I : i \in 1..(Len(s) - 1) /\ i # 0
    <2>1. \A i \in 1..(Len(s) - 2 + 1) : i \in Nat /\ i \in 1..(Len(s) - 1) /\ i # 0
      BY <1>0
    <2>2. \A i \in I : i \in 1..(Len(s) - 2 + 1)
      BY Zenon
    <2> HIDE DEF I
    <2> QED BY <2>1, <2>2
  <1> HIDE DEF I, f
  <1>4. CASE I = {}
    BY <1>1, <1>2, <1>4 DEF f, Finds
  <1>5. CASE I # {}
    <2>1. \E i \in I : \A j \in I : i <= j
      BY <1>3, <1>5, LeastNumber
    <2>2. f \in I /\ \A j \in I : f <= j
      BY <1>1, <1>5, <2>1
    <2>3. f \in 1..(Len(s) - 1) /\ f # 0 /\ s[f] = u /\ s[f + 1] = v
      BY <1>2, <1>3, <2>2
    <2>4. ASSUME NEW i \in 1..(f - 1) PROVE ~(s[i] = u /\ s[i + 1] = v)
      <3>1. i \in 1..(Len(s) - 1) /\ ~(f <= i)
        BY <1>0, <2>3
      <3> QED BY <1>2, <2>2, <3>1
    <2> QED BY <2>3, <2>4 DEF f, Finds
  <1> QED BY <1>4, <1>5

(* The same for one symbol.                                                *)
LEMMA FindOneIs ==
  ASSUME NEW s \in Seq(Symbol), NEW u \in Symbol
  PROVE  FindsOne(Find(s, <<u>>), s, u)
  <1> DEFINE I == {i \in 1..(Len(s) - 1 + 1) : SubSeq(s, i, i + 1 - 1) = <<u>>}
             f == Find(s, <<u>>)
  <1>0. Len(s) \in Nat /\ Len(s) - 1 + 1 = Len(s)
    OBVIOUS
  <1>1. f = IF I = {} THEN 0 ELSE CHOOSE i \in I : \A j \in I : i <= j
    BY DEF Find
  <1>2. ASSUME NEW i \in 1..Len(s) PROVE i \in I <=> s[i] = u
    <2> DEFINE x == SubSeq(s, i, i)
               y == <<u>>
    <2>1. /\ i \in 1..(Len(s) + 1) /\ i \in (i - 1)..Len(s)
          /\ i + 1 - 1 = i /\ i - i + 1 = 1 /\ i \in 1..(Len(s) - 1 + 1)
      BY <1>0
    <2>2. x \in Seq(Symbol) /\ Len(x) = 1 /\ x[1] = s[i]
      <3>1. /\ x \in Seq(Symbol) /\ Len(x) = i - i + 1
            /\ \A j \in 1..(i - i + 1) : x[j] = s[i + j - 1]
        BY <2>1, SubSeqIs
      <3> HIDE DEF x
      <3> QED BY <2>1, <3>1
    <2>3. y \in Seq(Symbol) /\ Len(y) = 1 /\ y[1] = u
      OBVIOUS
    <2> HIDE DEF x, y
    <2>4. x = y <=> s[i] = u
      <3>1. ASSUME s[i] = u PROVE x = y
        BY <2>2, <2>3, <3>1, SeqEqual
      <3> QED BY <2>2, <2>3, <3>1
    <2> QED BY <2>1, <2>4 DEF x, y
  <1>3. I \in SUBSET Nat /\ \A i \in I : i \in 1..Len(s) /\ i # 0
    <2>1. \A i \in 1..(Len(s) - 1 + 1) : i \in Nat /\ i \in 1..Len(s) /\ i # 0
      BY <1>0
    <2>2. \A i \in I : i \in 1..(Len(s) - 1 + 1)
      BY Zenon
    <2> HIDE DEF I
    <2> QED BY <2>1, <2>2
  <1> HIDE DEF I, f
  <1>4. CASE I = {}
    BY <1>1, <1>2, <1>4 DEF f, FindsOne
  <1>5. CASE I # {}
    <2>1. \E i \in I : \A j \in I : i <= j
      BY <1>3, <1>5, LeastNumber
    <2>2. f \in I /\ \A j \in I : f <= j
      BY <1>1, <1>5, <2>1
    <2>3. f \in 1..Len(s) /\ f # 0 /\ s[f] = u
      BY <1>2, <1>3, <2>2
    <2>4. ASSUME NEW i \in 1..(f - 1) PROVE s[i] # u
      <3>1. i \in 1..Len(s) /\ ~(f <= i)
        BY <1>0, <2>3
      <3> QED BY <1>2, <2>2, <3>1
    <2> QED BY <2>3, <2>4 DEF f, FindsOne
  <1> QED BY <1>4, <1>5

(* A stream gives the words that stand between the white space.            *)
LEMMA SkipWhiteIs ==
  ASSUME NEW s \in Seq(Symbol), NEW k \in 1..Len(s), s[k] \notin White,
         \A j \in 1..Len(s) : j < k => s[j] \in White
  PROVE  SkipWhite(s) = SubSeq(s, k, Len(s))
  <1> DEFINE I == {i \in 1..Len(s) : s[i] \notin White}
  <1>1. k \in I /\ I \subseteq Nat /\ \A j \in I : k <= j
    OBVIOUS
  <1>2. SelectInSeq(s, LAMBDA e : e \notin White) = IF I # {} THEN Min(I) ELSE 0
    BY DEF SelectInSeq
  <1> HIDE DEF I
  <1>3. SelectInSeq(s, LAMBDA e : e \notin White) = k
    BY <1>1, <1>2, MinIs
  <1>4. k # 0
    OBVIOUS
  <1> QED BY <1>3, <1>4, Zenon DEF SkipWhite, From

(* A word ends before the first white space after it.                      *)
LEMMA WordIs ==
  ASSUME NEW s, NEW t \in Seq(Symbol), SkipWhite(s) = t,
         NEW n \in 1..Len(t), n + 1 \in 1..Len(t), t[n + 1] \in White,
         \A j \in 1..n : t[j] \notin White
  PROVE  Word(s) = SubSeq(t, 1, n)
  <1> DEFINE I == {i \in 1..Len(t) : t[i] \in White}
  <1>1. n + 1 \in I /\ I \subseteq Nat /\ \A j \in I : n + 1 <= j
    OBVIOUS
  <1>2. SelectInSeq(t, LAMBDA e : e \in White) = IF I # {} THEN Min(I) ELSE 0
    BY DEF SelectInSeq
  <1> HIDE DEF I
  <1>3. SelectInSeq(t, LAMBDA e : e \in White) = n + 1
    BY <1>1, <1>2, MinIs
  <1>4. n + 1 # 0 /\ (n + 1) - 1 = n
    OBVIOUS
  <1> QED BY <1>3, <1>4 DEF Word

(* A word at the end of the text is all that is left.                      *)
LEMMA LastWordIs ==
  ASSUME NEW s, NEW t \in Seq(Symbol), SkipWhite(s) = t,
         \A j \in 1..Len(t) : t[j] \notin White
  PROVE  Word(s) = t
  <1> DEFINE I == {i \in 1..Len(t) : t[i] \in White}
  <1>1. I = {}
    OBVIOUS
  <1>2. SelectInSeq(t, LAMBDA e : e \in White) = IF I # {} THEN Min(I) ELSE 0
    BY DEF SelectInSeq
  <1> HIDE DEF I
  <1>3. SelectInSeq(t, LAMBDA e : e \in White) = 0
    BY <1>1, <1>2
  <1> QED BY <1>3, Zenon DEF Word

(* Method, target and version as RequestAssumption has them.               *)
IsRequest(a, g, w) ==
  /\ a \in Seq(Symbol) /\ Len(a) \in Nat \ {0}
  /\ \A j \in 1..Len(a) : a[j] \notin White /\ a[j] # "HTTP/"
  /\ g \in Seq(Symbol) /\ Len(g) \in Nat \ {0} /\ g[1] = "/"
  /\ \A j \in 1..Len(g) : g[j] \notin White
  /\ w \in {"1.", "2"}

(* A text that begins with a request line, up to its version.              *)
HasLine(x, a, g, w) ==
  LET p == Len(a)
      n == Len(g)
  IN /\ x \in Seq(Symbol) /\ Len(x) >= p + n + 4
     /\ \A j \in 1..p : x[j] = a[j]
     /\ x[p + 1] = "SP"
     /\ \A j \in 1..n : x[p + 1 + j] = g[j]
     /\ x[p + n + 2] = "SP" /\ x[p + n + 3] = "HTTP/" /\ x[p + n + 4] = w

(* More text behind it does not matter.                                    *)
LEMMA HasLineExtends ==
  ASSUME NEW a \in Seq(Symbol), NEW g \in Seq(Symbol), NEW w,
         NEW x, HasLine(x, a, g, w), NEW y \in Seq(Symbol)
  PROVE  HasLine(x \o y, a, g, w)
  <1> DEFINE p == Len(a)
             n == Len(g)
             z == x \o y
  <1>1. x \in Seq(Symbol) /\ Len(x) >= p + n + 4 /\ n \in Nat /\ p \in Nat
        /\ Len(y) \in Nat /\ Len(x) \in Nat
    BY DEF HasLine
  <1>2. IsConcat(z, x, y, Symbol)
    BY <1>1, ConcatIs, Zenon
  <1> HIDE DEF z, p, n
  <1>3. /\ z \in Seq(Symbol) /\ Len(z) >= p + n + 4
        /\ \A i \in 1..Len(x) : z[i] = x[i]
    BY <1>1, <1>2 DEF IsConcat
  <1>4. /\ p + 1 \in 1..Len(x) /\ p + n + 2 \in 1..Len(x)
        /\ p + n + 3 \in 1..Len(x) /\ p + n + 4 \in 1..Len(x)
        /\ \A j \in 1..p : j \in 1..Len(x)
        /\ \A j \in 1..n : p + 1 + j \in 1..Len(x)
    BY <1>1
  <1>5. HasLine(z, a, g, w)
    BY <1>3, <1>4, Zenon DEF HasLine, p, n
  <1> QED BY <1>5 DEF z

(* What the client sends begins with its request line.                     *)
LEMMA TextHasLine ==
  ASSUME NEW r \in Requests
  PROVE  /\ IsRequest(r.method, r.target, r.version)
         /\ r.headers \in Seq(Symbol) /\ r.body \in Seq(Symbol)
         /\ Text(r) \in Seq(Symbol)
         /\ HasLine(Text(r), r.method, r.target, r.version)
  <1> DEFINE a == r.method
             g == r.target
             w == r.version
             b == <<"SP">>
             y == <<"SP", "HTTP/", w>>
             x == a \o b \o g
             z == x \o y
             p == Len(a)
             n == Len(g)
  <1>1. /\ a \in Seq(Symbol \ (White \cup {"HTTP/"})) /\ a # <<>>
        /\ g \in Seq(Symbol \ White) /\ g # <<>> /\ g[1] = "/"
        /\ w \in {"1.", "2"}
        /\ r.headers \in Seq(Symbol) /\ r.body \in Seq(Symbol)
    BY RequestAssumption DEF Symbol
  <1> HIDE DEF a, g, w
  <1>2. /\ g \in Seq(Symbol) /\ n \in Nat \ {0}
        /\ \A j \in 1..n : g[j] \notin White
    BY <1>1
  <1>3. /\ a \in Seq(Symbol) /\ p \in Nat \ {0}
        /\ \A j \in 1..p : a[j] \notin White /\ a[j] # "HTTP/"
    BY <1>1
  <1>4. /\ "SP" \in Symbol /\ "HTTP/" \in Symbol /\ w \in Symbol
        /\ "CR" \in Symbol /\ "LF" \in Symbol
    BY <1>1 DEF Symbol
  <1>5. /\ b \in Seq(Symbol) /\ Len(b) = 1 /\ b[1] = "SP"
        /\ y \in Seq(Symbol) /\ Len(y) = 3
        /\ y[1] = "SP" /\ y[2] = "HTTP/" /\ y[3] = w /\ CRLF \in Seq(Symbol)
    BY <1>4 DEF CRLF
  <1> HIDE DEF b, y
  <1>6. IsConcat3(x, a, b, g, Symbol)
    BY <1>2, <1>3, <1>5, Concat3Is, Zenon
  <1> HIDE DEF x, p, n
  <1>7. /\ x \in Seq(Symbol) /\ Len(x) = p + 1 + n
        /\ \A i \in 1..p : x[i] = a[i]
        /\ x[p + 1] = "SP"
        /\ \A i \in 1..n : x[p + 1 + i] = g[i]
    BY <1>5, <1>6 DEF IsConcat3, p, n
  <1>8. IsConcat(z, x, y, Symbol)
    BY <1>5, <1>7, ConcatIs, Zenon
  <1> HIDE DEF z
  <1>9. /\ z \in Seq(Symbol) /\ Len(z) = p + n + 4
        /\ \A i \in 1..(p + 1 + n) : z[i] = x[i]
        /\ \A i \in 1..3 : z[p + 1 + n + i] = y[i]
    BY <1>2, <1>3, <1>5, <1>7, <1>8 DEF IsConcat
  <1>10. HasLine(z, a, g, w)
    <2>1. /\ p + 1 + n + 1 = p + n + 2 /\ p + 1 + n + 2 = p + n + 3
          /\ p + 1 + n + 3 = p + n + 4 /\ p + 1 \in 1..(p + 1 + n)
          /\ \A j \in 1..p : j \in 1..(p + 1 + n)
          /\ \A j \in 1..n : p + 1 + j \in 1..(p + 1 + n)
      BY <1>2, <1>3
    <2>2. /\ z[p + 1 + n + 1] = "SP" /\ z[p + 1 + n + 2] = "HTTP/"
          /\ z[p + 1 + n + 3] = w
      BY <1>5, <1>9
    <2>3. z[p + n + 2] = "SP" /\ z[p + n + 3] = "HTTP/" /\ z[p + n + 4] = w
      BY <2>1, <2>2
    <2>4. Len(z) >= p + n + 4
      BY <1>2, <1>3, <1>9
    <2> QED BY <1>7, <1>9, <2>1, <2>3, <2>4, Zenon DEF HasLine, p, n
  <1>11. HasLine(z \o CRLF \o r.headers \o CRLF \o r.body, a, g, w)
    BY <1>1, <1>2, <1>3, <1>5, <1>10, HasLineExtends, Zenon
  <1>12. Text(r) = z \o CRLF \o r.headers \o CRLF \o r.body
    BY DEF Text, z, x, y, b, a, g, w
  <1>13. Text(r) \in Seq(Symbol)
    BY <1>11, <1>12 DEF HasLine
  <1>14. IsRequest(a, g, w)
    BY <1>1, <1>2, <1>3 DEF IsRequest, p, n
  <1> QED BY <1>1, <1>11, <1>12, <1>13, <1>14 DEF a, g, w

(* What is read of the text x.                                             *)
Shows(data, x) == \A k \in 1..Len(x) : k <= Len(data) => data[k] = x[k]

(* "HTTP/" and v stand side by side in s.                                  *)
Has(s, v) == \E i \in 1..(Len(s) - 1) : s[i] = "HTTP/" /\ s[i + 1] = v

(* The test of read() in these terms.                                      *)
LEMMA HasVersionIs ==
  ASSUME NEW s \in Seq(Symbol)
  PROVE  HasVersion(s) <=> Has(s, "1.") \/ Has(s, "2")
  <1>1. ASSUME NEW v \in Symbol PROVE Find(s, <<"HTTP/", v>>) # 0 <=> Has(s, v)
    <2> DEFINE f == Find(s, <<"HTTP/", v>>)
    <2>1. Finds(f, s, "HTTP/", v)
      <3>1. "HTTP/" \in Symbol
        BY DEF Symbol
      <3> QED BY <3>1, FindIs, Zenon
    <2> HIDE DEF f
    <2>2. f # 0 <=> Has(s, v)
      BY <2>1, Zenon DEF Finds, Has
    <2> QED BY <2>2 DEF f
  <1>2. "1." \in Symbol /\ "2" \in Symbol
    BY DEF Symbol
  <1> QED BY <1>1, <1>2, Zenon DEF HasVersion

(* How much of the target the first d symbols have, and what.              *)
Cut(a, g, d) == IF d - Len(a) - 1 < Len(g) THEN d - Len(a) - 1 ELSE Len(g)
Part(a, g, d) == SubSeq(g, 1, Cut(a, g, d))

(* It is empty up to the space before the target.                          *)
LEMMA PartOfTarget ==
  ASSUME NEW a, NEW g, NEW w, IsRequest(a, g, w), NEW d \in Nat
  PROVE  /\ Part(a, g, d) \in Seq(Symbol)
         /\ d <= Len(a) + 1 => Part(a, g, d) = <<>>
         /\ d > Len(a) + 1 => /\ Cut(a, g, d) \in 1..Len(g)
                              /\ IsPart(Part(a, g, d), g, 1, Cut(a, g, d))
  <1> DEFINE p == Len(a)
             n == Len(g)
             c == Cut(a, g, d)
  <1>1. p \in Nat \ {0} /\ n \in Nat \ {0} /\ g \in Seq(Symbol)
    BY DEF IsRequest
  <1>2. c = IF d - p - 1 < n THEN d - p - 1 ELSE n
    BY DEF Cut
  <1> HIDE DEF p, c
  <1>3. ASSUME d <= p + 1 PROVE SubSeq(g, 1, c) = <<>>
    <2>1. c \in Int /\ 1 > c
      BY <1>1, <1>2, <1>3
    <2> QED BY <2>1, <1>1, SubSeqEmpty
  <1>4. ASSUME d > p + 1 PROVE c \in 1..n /\ IsPart(SubSeq(g, 1, c), g, 1, c)
    <2>1. c \in 1..n /\ 1 \in 1..(n + 1) /\ c \in (1 - 1)..n
      BY <1>1, <1>2, <1>4
    <2> QED BY <1>1, <2>1, PartIs
  <1>5. <<>> \in Seq(Symbol)
    OBVIOUS
  <1>6. d <= p + 1 \/ d > p + 1
    BY <1>1
  <1> QED BY <1>3, <1>4, <1>5, <1>6 DEF IsPart, Part, p, c

(* A version is found in what is read of a request if the read goes as far *)
(* as the end of the line; a shorter one has it only in the target.        *)
LEMMA VersionFound ==
  ASSUME NEW a, NEW g, NEW w, IsRequest(a, g, w), NEW x, HasLine(x, a, g, w),
         NEW data \in Seq(Symbol), Shows(data, x)
  PROVE  HasVersion(data) <=> \/ Len(data) >= Len(a) + Len(g) + 4
                              \/ HasVersion(Part(a, g, Len(data)))
  <1> DEFINE p == Len(a)
             n == Len(g)
             d == Len(data)
             c == Cut(a, g, d)
             t == Part(a, g, d)
  <1>1. /\ p \in Nat \ {0} /\ n \in Nat \ {0} /\ d \in Nat /\ Len(x) \in Nat
        /\ Len(x) >= p + n + 4
        /\ \A k \in 1..Len(x) : k <= d => data[k] = x[k]
    BY DEF IsRequest, HasLine, Shows
  <1>2. /\ \A j \in 1..p : x[j] # "HTTP/"
        /\ x[p + 1] = "SP" /\ x[p + n + 2] = "SP"
        /\ x[p + n + 3] = "HTTP/" /\ x[p + n + 4] = w
        /\ \A j \in 1..n : x[p + 1 + j] = g[j]
    BY DEF HasLine, IsRequest
  <1>3. w \in {"1.", "2"}
    BY DEF IsRequest
  <1>4. c = IF d - p - 1 < n THEN d - p - 1 ELSE n
    BY DEF Cut
  <1>5. /\ t \in Seq(Symbol)
        /\ d <= p + 1 => t = <<>>
        /\ d > p + 1 => c \in 1..n /\ IsPart(t, g, 1, c)
    BY <1>1, PartOfTarget
  <1> HIDE DEF p, n, c, t, d
  <1>6. d > p + 1 => /\ Len(t) = c /\ \A k \in 1..c : t[k] = g[k]
    <2>1. d > p + 1 => c - 1 + 1 = c /\ \A k \in 1..c : 1 + k - 1 = k
      BY <1>5
    <2> QED BY <1>5, <2>1 DEF IsPart
  <1>7. ASSUME d >= p + n + 4 PROVE Has(data, w)
    <2>1. /\ p + n + 3 \in 1..Len(x) /\ p + n + 3 <= d /\ p + n + 4 \in 1..Len(x)
          /\ p + n + 3 \in 1..(d - 1) /\ (p + n + 3) + 1 = p + n + 4
      BY <1>1, <1>7
    <2>2. data[p + n + 3] = "HTTP/" /\ data[(p + n + 3) + 1] = w
      BY <1>1, <1>2, <1>7, <2>1
    <2> QED BY <2>1, <2>2, Zenon DEF Has, d
  <1>8. ASSUME NEW v \in {"1.", "2"}, d < p + n + 4, Has(data, v) PROVE Has(t, v)
    <2>1. PICK f \in 1..(d - 1) : data[f] = "HTTP/" /\ data[f + 1] = v
      BY <1>8 DEF Has, d
    <2>2. f \in 1..(p + n + 2) /\ f + 1 \in 1..(p + n + 3) /\ f + 1 <= d /\ f <= d
      BY <1>1, <1>8, <2>1
    <2>3. x[f] = "HTTP/" /\ x[f + 1] = v
      BY <1>1, <2>1, <2>2
    <2>4. f \notin 1..p /\ f # p + 1 /\ f # p + n + 2 /\ f + 1 # p + n + 2
      BY <1>2, <2>3
    <2> DEFINE j == f - p - 1
    <2>5. /\ j \in 1..n /\ j + 1 \in 1..n /\ p + 1 + j = f /\ p + 1 + (j + 1) = f + 1
          /\ d > p + 1
      BY <1>1, <2>2, <2>4
    <2>6. j \in 1..(c - 1) /\ j \in 1..c /\ j + 1 \in 1..c
      BY <1>1, <1>4, <2>2, <2>5
    <2> HIDE DEF j
    <2>7. t[j] = "HTTP/" /\ t[j + 1] = v
      BY <1>2, <1>6, <2>3, <2>5, <2>6
    <2> QED BY <1>6, <2>5, <2>6, <2>7 DEF Has
  <1>9. ASSUME NEW v, Has(t, v) PROVE Has(data, v)
    <2>1. d > p + 1
      <3>1. t # <<>>
        <4>1. ~Has(<<>>, v)
          <5>1. Len(<<>>) = 0 /\ ~ \E i \in 1..(0 - 1) : TRUE
            OBVIOUS
          <5> QED BY <5>1, Zenon DEF Has
        <4> QED BY <1>9, <4>1
      <3> QED BY <1>1, <1>5, <3>1
    <2>2. PICK j \in 1..(c - 1) : t[j] = "HTTP/" /\ t[j + 1] = v
      BY <1>6, <1>9, <2>1 DEF Has
    <2> DEFINE f == p + 1 + j
    <2>3. /\ j \in 1..c /\ j + 1 \in 1..c /\ j \in 1..n /\ j + 1 \in 1..n
          /\ f \in 1..Len(x) /\ f + 1 \in 1..Len(x) /\ f <= d /\ f + 1 <= d
          /\ f + 1 = p + 1 + (j + 1) /\ f \in 1..(d - 1)
      BY <1>1, <1>4, <1>5, <2>1, <2>2
    <2>4. g[j] = "HTTP/" /\ g[j + 1] = v
      BY <1>6, <2>1, <2>2, <2>3
    <2>5. x[f] = "HTTP/" /\ x[f + 1] = v
      BY <1>2, <2>3, <2>4
    <2> HIDE DEF f
    <2>6. data[f] = "HTTP/" /\ data[f + 1] = v
      BY <1>1, <2>3, <2>5
    <2> QED BY <2>3, <2>6 DEF Has, d
  <1>10. /\ HasVersion(data) <=> Has(data, "1.") \/ Has(data, "2")
         /\ HasVersion(t) <=> Has(t, "1.") \/ Has(t, "2")
    BY <1>5, HasVersionIs
  <1>11. d >= p + n + 4 \/ d < p + n + 4
    BY <1>1
  <1>12. HasVersion(data) <=> d >= p + n + 4 \/ HasVersion(t)
    <2>1. d >= p + n + 4 => HasVersion(data)
      BY <1>3, <1>7, <1>10
    <2>2. d < p + n + 4 => (HasVersion(data) => HasVersion(t))
      BY <1>8, <1>10
    <2>3. HasVersion(t) => HasVersion(data)
      BY <1>9, <1>10
    <2> QED BY <1>11, <2>1, <2>2, <2>3
  <1> QED BY <1>12 DEF p, n, d, t

(* The first line that parse_request_line is given.                        *)
LEMMA LineKept ==
  ASSUME NEW a, NEW g, NEW w, IsRequest(a, g, w), NEW x, HasLine(x, a, g, w),
         NEW data \in Seq(Symbol), Shows(data, x)
  PROVE  LET line == Before(data, CRLF) IN
         /\ line \in Seq(Symbol) /\ Len(line) <= Len(data)
         /\ \A k \in 1..Len(line) : line[k] = data[k]
         /\ Len(line) = Len(data) \/ Len(line) >= Len(a) + Len(g) + 4
  <1> DEFINE p == Len(a)
             n == Len(g)
             d == Len(data)
             f == Find(data, CRLF)
             b == SubSeq(data, 1, f - 1)
             line == Before(data, CRLF)
  <1>1. /\ p \in Nat \ {0} /\ n \in Nat \ {0} /\ d \in Nat /\ Len(x) \in Nat
        /\ Len(x) >= p + n + 4
        /\ \A k \in 1..Len(x) : k <= d => data[k] = x[k]
    BY DEF IsRequest, HasLine, Shows
  <1>2. /\ \A j \in 1..p : x[j] # "CR"
        /\ x[p + 1] # "CR" /\ x[p + n + 2] # "CR"
        /\ x[p + n + 3] # "CR" /\ x[p + n + 4] # "CR"
        /\ \A j \in 1..n : x[p + 1 + j] # "CR"
    BY DEF HasLine, IsRequest, White
  <1>3. Finds(f, data, "CR", "LF")
    <2>1. "CR" \in Symbol /\ "LF" \in Symbol
      BY DEF Symbol
    <2>2. CRLF = <<"CR", "LF">>
      BY DEF CRLF
    <2> QED BY <1>1, <2>1, <2>2, FindIs, Zenon
  <1>4. line = IF f = 0 THEN data ELSE b
    BY Zenon DEF Before
  <1> HIDE DEF n, f, p, d, line
  <1>5. CASE f = 0
    BY <1>1, <1>4, <1>5 DEF line, p, n, d
  <1>6. CASE f # 0
    <2>1. f \in 1..(d - 1) /\ data[f] = "CR"
      BY <1>3, <1>6 DEF Finds, d
    <2>2. ~(f <= p + n + 4)
      <3>1. ASSUME f <= p + n + 4 PROVE FALSE
        <4>1. x[f] = "CR"
          BY <1>1, <2>1, <3>1
        <4>2. f \notin 1..p /\ f \notin {p + 1, p + n + 2, p + n + 3, p + n + 4}
          BY <1>2, <4>1
        <4>3. f - p - 1 \in 1..n /\ p + 1 + (f - p - 1) = f
          BY <1>1, <2>1, <3>1, <4>2
        <4> QED BY <1>2, <4>1, <4>3
      <3> QED BY <3>1
    <2>3. f - 1 >= p + n + 4 /\ f - 1 <= d
      BY <1>1, <2>1, <2>2
    <2>4. /\ b \in Seq(Symbol) /\ Len(b) = f - 1
          /\ \A i \in 1..(f - 1) : b[i] = data[i]
      <3>1. /\ 1 \in 1..(Len(data) + 1) /\ f - 1 \in (1 - 1)..Len(data)
            /\ (f - 1) - 1 + 1 = f - 1 /\ \A i \in 1..(f - 1) : 1 + i - 1 = i
        BY <1>1, <2>1 DEF d
      <3>2. IsPart(b, data, 1, f - 1)
        BY <3>1, PartIs
      <3> HIDE DEF b
      <3> QED BY <3>1, <3>2 DEF IsPart
    <2> HIDE DEF b
    <2> QED BY <1>4, <1>6, <2>3, <2>4 DEF line, p, n, d
  <1> QED BY <1>5, <1>6

(* A line that begins with a method and a target, or with a part of it.    *)
StartsLine(line, a, t) ==
  /\ line \in Seq(Symbol) /\ Len(line) >= Len(a) + 1 + Len(t)
  /\ \A j \in 1..Len(a) : line[j] = a[j]
  /\ line[Len(a) + 1] = "SP"
  /\ \A j \in 1..Len(t) : line[Len(a) + 1 + j] = t[j]
  /\ \/ Len(line) = Len(a) + 1 + Len(t)
     \/ line[Len(a) + 1 + (Len(t) + 1)] \in White

(* parse_request_line takes the method and the path from it.               *)
LEMMA LineParsed ==
  ASSUME NEW a \in Seq(Symbol), Len(a) \in Nat \ {0},
         \A j \in 1..Len(a) : a[j] \notin White,
         NEW t \in Seq(Symbol), Len(t) \in Nat \ {0},
         \A j \in 1..Len(t) : t[j] \notin White,
         NEW line, StartsLine(line, a, t)
  PROVE  ParseRequestLine(line) = [method |-> a, path |-> Before(t, <<"?">>)]
  <1> DEFINE p == Len(a)
             n == Len(t)
             m == Len(line)
             u == SubSeq(line, p + 1, m)
             v == SubSeq(u, 2, Len(u))
  <1>1. /\ p \in Nat \ {0} /\ n \in Nat \ {0} /\ m \in Nat /\ m >= p + 1 + n
        /\ line \in Seq(Symbol) /\ line[p + 1] = "SP"
        /\ \A j \in 1..p : line[j] = a[j]
        /\ \A j \in 1..n : line[p + 1 + j] = t[j]
        /\ m = p + 1 + n \/ line[p + 1 + (n + 1)] \in White
    BY DEF StartsLine
  <1>2. "SP" \in White
    BY DEF White
  <1>3. SkipWhite(line) = line
    <2>1. SkipWhite(line) = SubSeq(line, 1, Len(line))
      <3>1. /\ 1 \in 1..Len(line) /\ 1 \in 1..p /\ \A j \in 1..Len(line) : ~(j < 1)
        BY <1>1
      <3>2. line[1] \notin White
        BY <1>1, <3>1
      <3> QED BY <1>1, <3>1, <3>2, SkipWhiteIs
    <2> QED BY <1>1, <2>1, SubSeqFull
  <1> HIDE DEF m
  <1>4. Word(line) = a
    <2>1. Word(line) = SubSeq(line, 1, p)
      <3>1. /\ p \in 1..Len(line) /\ p + 1 \in 1..Len(line)
            /\ \A j \in 1..p : line[j] \notin White
        BY <1>1 DEF m
      <3> QED BY <1>1, <1>2, <1>3, <3>1, WordIs
    <2> DEFINE q == SubSeq(line, 1, p)
    <2>2. /\ 1 \in 1..(Len(line) + 1) /\ p \in (1 - 1)..Len(line)
          /\ p - 1 + 1 = p /\ \A k \in 1..p : 1 + k - 1 = k
      BY <1>1 DEF m
    <2>3. IsPart(q, line, 1, p)
      BY <1>1, <2>2, PartIs
    <2> HIDE DEF q
    <2>4. q \in Seq(Symbol) /\ Len(q) = Len(a) /\ \A k \in 1..Len(q) : q[k] = a[k]
      BY <1>1, <2>2, <2>3 DEF IsPart
    <2>5. q = a
      BY <2>4, SeqEqual
    <2> QED BY <2>1, <2>5 DEF q
  <1> HIDE DEF p, n
  <1>5. /\ u \in Seq(Symbol) /\ Len(u) = m - p
        /\ \A i \in 1..(m - p) : u[i] = line[p + i]
    <2>1. /\ p + 1 \in 1..(Len(line) + 1) /\ m \in ((p + 1) - 1)..Len(line)
          /\ m - (p + 1) + 1 = m - p /\ \A i \in 1..(m - p) : (p + 1) + i - 1 = p + i
      BY <1>1 DEF m
    <2>2. IsPart(u, line, p + 1, m)
      BY <1>1, <2>1, PartIs
    <2> HIDE DEF u
    <2> QED BY <2>1, <2>2 DEF IsPart
  <1> HIDE DEF u
  <1>6. /\ v \in Seq(Symbol) /\ Len(v) = m - p - 1
        /\ \A i \in 1..(m - p - 1) : v[i] = line[p + 1 + i]
    <2>1. /\ 2 \in 1..(Len(u) + 1) /\ Len(u) \in (2 - 1)..Len(u)
          /\ Len(u) - 2 + 1 = m - p - 1
          /\ \A i \in 1..(m - p - 1) : /\ 2 + i - 1 = i + 1 /\ i + 1 \in 1..(m - p)
                                       /\ p + (i + 1) = p + 1 + i
      BY <1>1, <1>5
    <2>2. IsPart(v, u, 2, Len(u))
      BY <1>5, <2>1, PartIs
    <2> HIDE DEF v
    <2>3. /\ v \in Seq(Symbol) /\ Len(v) = m - p - 1
          /\ \A i \in 1..(m - p - 1) : v[i] = u[i + 1]
      BY <2>1, <2>2 DEF IsPart
    <2> QED BY <1>5, <2>1, <2>3
  <1>7. SkipWhite(u) = v
    <2>1. u[1] \in White /\ u[2] \notin White
      <3>1. /\ 1 \in 1..(m - p) /\ 2 \in 1..(m - p) /\ 1 \in 1..n /\ p + 2 = p + 1 + 1
        BY <1>1
      <3>2. u[1] = "SP" /\ u[2] = line[p + 1 + 1] /\ line[p + 1 + 1] = t[1]
        BY <1>1, <1>5, <3>1
      <3> QED BY <1>2, <3>1, <3>2 DEF n
    <2>2. 2 \in 1..Len(u) /\ \A j \in 1..Len(u) : j < 2 => j = 1
      BY <1>1, <1>5
    <2> QED BY <1>5, <2>1, <2>2, SkipWhiteIs
  <1> HIDE DEF v
  <1>8. /\ n <= Len(v) /\ \A j \in 1..n : v[j] = t[j] /\ t[j] \notin White
    <2>1. \A j \in 1..n : j \in 1..(m - p - 1)
      BY <1>1
    <2> QED BY <1>1, <1>6, <2>1 DEF n
  <1>9. Word(u) = t
    <2>1. CASE Len(v) = n
      <3>1. v = t
        BY <1>6, <1>8, <2>1, SeqEqual DEF n
      <3> QED BY <1>6, <1>7, <3>1, LastWordIs
    <2>2. CASE Len(v) # n
      <3>1. /\ n \in 1..Len(v) /\ n + 1 \in 1..Len(v) /\ n + 1 \in 1..(m - p - 1)
            /\ m # p + 1 + n
        BY <1>1, <1>6, <1>8, <2>2
      <3>2. v[n + 1] \in White
        BY <1>1, <1>6, <3>1
      <3>3. Word(u) = SubSeq(v, 1, n)
        BY <1>6, <1>7, <1>8, <3>1, <3>2, WordIs
      <3> DEFINE q == SubSeq(v, 1, n)
      <3>4. /\ 1 \in 1..(Len(v) + 1) /\ n \in (1 - 1)..Len(v)
            /\ n - 1 + 1 = n /\ \A i \in 1..n : 1 + i - 1 = i
        BY <1>1, <3>1
      <3>5. IsPart(q, v, 1, n)
        BY <1>6, <3>4, PartIs
      <3> HIDE DEF q
      <3>6. q \in Seq(Symbol) /\ Len(q) = Len(t) /\ \A i \in 1..Len(q) : q[i] = t[i]
        BY <1>8, <3>4, <3>5 DEF IsPart, n
      <3>7. q = t
        BY <3>6, SeqEqual
      <3> QED BY <3>3, <3>7 DEF q
    <2> QED BY <2>1, <2>2
  <1>10. From(SkipWhite(line), Len(Word(line)) + 1) = u
    BY <1>3, <1>4 DEF From, u, m, p
  <1> QED BY <1>4, <1>9, <1>10, Zenon DEF ParseRequestLine

(* The path in a target that begins with a slash begins with it.           *)
LEMMA PathBegins ==
  ASSUME NEW t \in Seq(Symbol), Len(t) \in Nat \ {0}
  PROVE  LET path == Before(t, <<"?">>) IN
         /\ path # <<>> => Head(path) = t[1]
         /\ t[1] # "?" => path # <<>>
  <1> DEFINE f == Find(t, <<"?">>)
             b == SubSeq(t, 1, f - 1)
             path == Before(t, <<"?">>)
  <1>1. FindsOne(f, t, "?")
    <2>1. "?" \in Symbol
      BY DEF Symbol
    <2> QED BY <2>1, FindOneIs, Zenon
  <1>2. path = IF f = 0 THEN t ELSE b
    BY Zenon DEF Before
  <1> HIDE DEF f, path
  <1>3. CASE f = 0
    BY <1>2, <1>3 DEF path
  <1>4. CASE f # 0
    <2>1. f \in 1..Len(t) /\ t[f] = "?"
      BY <1>1, <1>4 DEF FindsOne
    <2>2. /\ 1 \in 1..(Len(t) + 1) /\ f - 1 \in (1 - 1)..Len(t)
          /\ (f - 1) - 1 + 1 = f - 1 /\ \A i \in 1..(f - 1) : 1 + i - 1 = i
      BY <2>1
    <2>3. IsPart(b, t, 1, f - 1)
      BY <2>2, PartIs
    <2> HIDE DEF b
    <2>4. b \in Seq(Symbol) /\ Len(b) = f - 1 /\ \A i \in 1..(f - 1) : b[i] = t[i]
      BY <2>2, <2>3 DEF IsPart
    <2>5. b # <<>> => Head(b) = t[1]
      <3>1. b # <<>> => 1 \in 1..(f - 1) /\ Head(b) = b[1]
        BY <2>1, <2>4
      <3> QED BY <2>4, <3>1
    <2>6. t[1] # "?" => b # <<>>
      <3>1. t[1] # "?" => f - 1 # 0
        BY <2>1
      <3>2. Len(<<>>) = 0
        OBVIOUS
      <3> QED BY <2>4, <3>1, <3>2
    <2> QED BY <1>2, <1>4, <2>5, <2>6 DEF path
  <1> QED BY <1>3, <1>4

(* What read() makes of data that is a request as far as it goes.          *)
RequestLine(data) == ParseRequestLine(Before(data, CRLF))

(* It starts a span if it goes as far as a version, with the method and    *)
(* the part of the path that it has.                                       *)
LEMMA RequestRead ==
  ASSUME NEW a, NEW g, NEW w, IsRequest(a, g, w), NEW x, HasLine(x, a, g, w),
         NEW data \in Seq(Symbol), Shows(data, x)
  PROVE  LET t == Part(a, g, Len(data)) IN
         /\ HttpLike(data, RequestLine(data)) <=>
              Len(data) >= Len(a) + Len(g) + 4 \/ HasVersion(t)
         /\ HttpLike(data, RequestLine(data)) =>
              /\ RequestLine(data).method = a
              /\ RequestLine(data).path = Before(t, <<"?">>)
  <1> DEFINE p == Len(a)
             n == Len(g)
             d == Len(data)
             c == Cut(a, g, d)
             t == Part(a, g, d)
             line == Before(data, CRLF)
             path == Before(t, <<"?">>)
  <1>1. /\ a \in Seq(Symbol) /\ p \in Nat \ {0} /\ n \in Nat \ {0} /\ d \in Nat
        /\ Len(x) \in Nat /\ Len(x) >= p + n + 4
        /\ \A k \in 1..Len(x) : k <= d => data[k] = x[k]
        /\ \A j \in 1..n : g[j] \notin White /\ g[1] = "/"
        /\ \A j \in 1..p : a[j] \notin White
    BY DEF IsRequest, HasLine, Shows
  <1>2. /\ \A j \in 1..p : x[j] = a[j]
        /\ x[p + 1] = "SP" /\ x[p + n + 2] = "SP"
        /\ \A j \in 1..n : x[p + 1 + j] = g[j]
    BY DEF HasLine
  <1>3. c = IF d - p - 1 < n THEN d - p - 1 ELSE n
    BY DEF Cut
  <1>4. /\ t \in Seq(Symbol)
        /\ d <= p + 1 => t = <<>>
        /\ d > p + 1 => c \in 1..n /\ IsPart(t, g, 1, c)
    BY <1>1, PartOfTarget
  <1>5. HasVersion(data) <=> d >= p + n + 4 \/ HasVersion(t)
    BY VersionFound
  <1>6. /\ line \in Seq(Symbol) /\ Len(line) <= d
        /\ \A k \in 1..Len(line) : line[k] = data[k]
        /\ Len(line) = d \/ Len(line) >= p + n + 4
    BY LineKept
  <1> HIDE DEF p, n, d, c, t, line, path
  <1>7. ASSUME HasVersion(data) PROVE d > p + 1
    <2>1. ~HasVersion(<<>>)
      <3>1. Len(<<>>) = 0 /\ ~ (\E i \in 1..(0 - 1) : TRUE) /\ <<>> \in Seq(Symbol)
        OBVIOUS
      <3> QED BY <3>1, HasVersionIs, Zenon DEF Has
    <2> QED BY <1>1, <1>4, <1>5, <1>7, <2>1
  <1>8. ASSUME d > p + 1
        PROVE  /\ RequestLine(data) = [method |-> a, path |-> path]
               /\ path # <<>> /\ Head(path) = "/"
    <2>1. Len(t) = c /\ c \in 1..n /\ \A k \in 1..c : t[k] = g[k]
      <3>1. c - 1 + 1 = c /\ \A k \in 1..c : 1 + k - 1 = k
        BY <1>4, <1>8
      <3> QED BY <1>4, <1>8, <3>1 DEF IsPart
    <2>2. /\ Len(t) \in Nat \ {0} /\ t[1] = "/" /\ \A j \in 1..Len(t) : t[j] \notin White
      BY <1>1, <2>1
    <2>3. StartsLine(line, a, t)
      <3>1. Len(line) >= p + 1 + c
        <4> DEFINE m == Len(line)
        <4>1. m \in Nat /\ (m = d \/ m >= p + n + 4) /\ c \in 1..n
          BY <1>6, <2>1
        <4>2. p \in Nat /\ n \in Nat /\ d \in Nat
          BY <1>1
        <4> HIDE DEF m
        <4>3. m >= p + 1 + c
          BY <1>3, <1>8, <4>1, <4>2
        <4> QED BY <4>3 DEF m
      <3>2. /\ \A j \in 1..p : j \in 1..Len(line) /\ j \in 1..Len(x) /\ j <= d
            /\ p + 1 \in 1..Len(line) /\ p + 1 \in 1..Len(x) /\ p + 1 <= d
            /\ \A j \in 1..c : /\ p + 1 + j \in 1..Len(line) /\ j \in 1..n
                               /\ p + 1 + j \in 1..Len(x) /\ p + 1 + j <= d
        BY <1>1, <1>6, <1>8, <2>1, <3>1
      <3>3. /\ \A j \in 1..p : line[j] = a[j]
            /\ line[p + 1] = "SP"
            /\ \A j \in 1..c : line[p + 1 + j] = t[j]
        <4>1. \A k \in 1..Len(line) : k \in 1..Len(x) /\ k <= d => line[k] = x[k]
          BY <1>1, <1>6, Zenon
        <4>2. \A j \in 1..p : line[j] = a[j]
          BY <1>2, <3>2, <4>1, Zenon
        <4>3. line[p + 1] = "SP"
          BY <1>2, <3>2, <4>1, Zenon
        <4>4. \A j \in 1..c : line[p + 1 + j] = t[j]
          BY <1>2, <2>1, <3>2, <4>1, Zenon
        <4> QED BY <4>2, <4>3, <4>4
      <3>4. ASSUME Len(line) # p + 1 + c PROVE line[p + 1 + (c + 1)] \in White
        <4>1. c = n /\ p + 1 + (c + 1) = p + n + 2
          <5> DEFINE m == Len(line)
          <5>1. /\ m \in Nat /\ m >= p + 1 + c /\ m # p + 1 + c
                /\ m <= d /\ (m = d \/ m >= p + n + 4)
            BY <1>6, <3>1, <3>4
          <5>2. p \in Nat /\ n \in Nat /\ d \in Nat /\ c \in Nat
            BY <1>1, <2>1
          <5> HIDE DEF m
          <5>3. c = n
            BY <1>3, <5>1, <5>2
          <5> QED BY <5>2, <5>3
        <4>2. /\ p + n + 2 \in 1..Len(line) /\ p + n + 2 \in 1..Len(x)
              /\ p + n + 2 <= d
          <5> DEFINE m == Len(line)
          <5>1. m \in Nat /\ m <= d /\ m >= p + 1 + n /\ m # p + 1 + n
            BY <1>6, <3>1, <3>4, <4>1
          <5>2. p \in Nat /\ n \in Nat /\ d \in Nat /\ Len(x) \in Nat
                /\ Len(x) >= p + n + 4
            BY <1>1
          <5> HIDE DEF m
          <5>3. p + n + 2 \in 1..m /\ p + n + 2 \in 1..Len(x) /\ p + n + 2 <= d
            BY <5>1, <5>2
          <5> QED BY <5>3 DEF m
        <4>3. line[p + n + 2] = "SP"
          BY <1>1, <1>2, <1>6, <4>2
        <4> QED BY <4>1, <4>3 DEF White
      <3> QED BY <1>6, <2>1, <3>1, <3>3, <3>4 DEF StartsLine, p
    <2>4. ParseRequestLine(line) = [method |-> a, path |-> path]
      BY <1>1, <1>4, <2>2, <2>3, LineParsed DEF p, path
    <2>5. path # <<>> /\ Head(path) = "/"
      BY <1>4, <2>2, PathBegins DEF path
    <2> QED BY <2>4, <2>5 DEF RequestLine, line
  <1>9. ASSUME d > p + 1
        PROVE  /\ RequestLine(data).method = a /\ RequestLine(data).path = path
    BY <1>8, <1>9
  <1>10. a # <<>>
    BY <1>1 DEF p
  <1>11. HttpLike(data, RequestLine(data)) <=> d >= p + n + 4 \/ HasVersion(t)
    BY <1>5, <1>7, <1>8, <1>9, <1>10, Zenon DEF HttpLike
  <1>12. HttpLike(data, RequestLine(data)) =>
           /\ RequestLine(data).method = a /\ RequestLine(data).path = path
    BY <1>7, <1>9, Zenon DEF HttpLike
  <1> QED BY <1>11, <1>12, Zenon DEF p, n, d, t, path

(* Without white space at its start, a text is empty or starts a word.     *)
LEMMA SkipWhiteGives ==
  ASSUME NEW s \in Seq(Symbol), SkipWhite(s) # <<>>
  PROVE  \E k \in 1..Len(s) :
           /\ s[k] \notin White /\ \A j \in 1..(k - 1) : s[j] \in White
           /\ IsPart(SkipWhite(s), s, k, Len(s))
  <1> DEFINE I == {i \in 1..Len(s) : s[i] \notin White}
             f == SelectInSeq(s, LAMBDA e : e \notin White)
  <1>1. f = IF I # {} THEN Min(I) ELSE 0
    BY DEF SelectInSeq
  <1>2. SkipWhite(s) = IF f = 0 THEN <<>> ELSE SubSeq(s, f, Len(s))
    BY Zenon DEF SkipWhite, From
  <1>3. I \in SUBSET Nat
    OBVIOUS
  <1>4. \A i : i \in I <=> i \in 1..Len(s) /\ s[i] \notin White
    OBVIOUS
  <1> HIDE DEF I, f
  <1>5. I # {}
    BY <1>1, <1>2
  <1>6. PICK k \in I : \A j \in I : k <= j
    BY <1>3, <1>5, LeastNumber
  <1>7. f = k
    BY <1>1, <1>3, <1>5, <1>6, MinIs
  <1>8. k \in 1..Len(s) /\ s[k] \notin White /\ Len(s) \in Nat
    BY <1>4
  <1>9. ASSUME NEW j \in 1..(k - 1) PROVE s[j] \in White
    <2>1. j \in 1..Len(s) /\ ~(k <= j)
      BY <1>8
    <2> QED BY <1>4, <1>6, <2>1
  <1>10. IsPart(SubSeq(s, k, Len(s)), s, k, Len(s))
    <2>1. k \in 1..(Len(s) + 1) /\ Len(s) \in (k - 1)..Len(s)
      BY <1>8
    <2> QED BY <2>1, PartIs
  <1>11. SkipWhite(s) = SubSeq(s, k, Len(s))
    BY <1>2, <1>7, <1>8
  <1> QED BY <1>8, <1>9, <1>10, <1>11

(* A word that is extracted ends at white space or with the text.          *)
LEMMA WordGives ==
  ASSUME NEW s, NEW t \in Seq(Symbol), t = SkipWhite(s)
  PROVE  \E n \in 0..Len(t) :
           /\ IsPart(Word(s), t, 1, n) /\ \A j \in 1..n : t[j] \notin White
           /\ n = Len(t) \/ t[n + 1] \in White
  <1> DEFINE I == {i \in 1..Len(t) : t[i] \in White}
             f == SelectInSeq(t, LAMBDA e : e \in White)
  <1>0. Len(t) \in Nat
    OBVIOUS
  <1>1. f = IF I # {} THEN Min(I) ELSE 0
    BY DEF SelectInSeq
  <1>2. Word(s) = IF f = 0 THEN t ELSE SubSeq(t, 1, f - 1)
    BY Zenon DEF Word
  <1>3. I \in SUBSET Nat
    OBVIOUS
  <1>4. \A i : i \in I <=> i \in 1..Len(t) /\ t[i] \in White
    OBVIOUS
  <1>5. \A n \in 0..Len(t) : IsPart(SubSeq(t, 1, n), t, 1, n)
    <2> TAKE n \in 0..Len(t)
    <2>1. 1 \in 1..(Len(t) + 1) /\ n \in (1 - 1)..Len(t)
      BY <1>0
    <2> QED BY <2>1, PartIs
  <1> HIDE DEF I, f
  <1>6. CASE I = {}
    <2>1. Word(s) = SubSeq(t, 1, Len(t)) /\ Len(t) \in 0..Len(t)
      BY <1>0, <1>1, <1>2, <1>6, SubSeqFull
    <2>2. \A j \in 1..Len(t) : t[j] \notin White
      BY <1>4, <1>6
    <2> QED BY <1>5, <2>1, <2>2
  <1>7. CASE I # {}
    <2>1. PICK k \in I : \A j \in I : k <= j
      BY <1>3, <1>7, LeastNumber
    <2>2. f = k
      BY <1>1, <1>3, <1>7, <2>1, MinIs
    <2>3. k \in 1..Len(t) /\ t[k] \in White
      BY <1>4
    <2>4. k - 1 \in 0..Len(t) /\ (k - 1) + 1 = k /\ k # 0
      BY <1>0, <2>3
    <2>5. ASSUME NEW j \in 1..(k - 1) PROVE t[j] \notin White
      <3>1. j \in 1..Len(t) /\ ~(k <= j)
        BY <2>3
      <3> QED BY <1>4, <2>1, <3>1
    <2>6. Word(s) = SubSeq(t, 1, k - 1)
      BY <1>2, <2>2, <2>4
    <2> QED BY <1>5, <2>3, <2>4, <2>5, <2>6
  <1> QED BY <1>6, <1>7

(* Nothing gives no word, and no path.                                     *)
LEMMA NoWord ==
  /\ \A s : SkipWhite(s) = <<>> => Word(s) = <<>>
  /\ SkipWhite(<<>>) = <<>> /\ Before(<<>>, <<"?">>) = <<>>
  <1>0. <<>> \in Seq(Symbol) /\ Len(<<>>) = 0 /\ ~ \E k : k \in 1..0
    OBVIOUS
  <1>1. ASSUME NEW s, SkipWhite(s) = <<>> PROVE Word(s) = <<>>
    <2>1. \A j \in 1..Len(<<>>) : <<>>[j] \notin White
      OBVIOUS
    <2> QED BY <1>0, <1>1, <2>1, LastWordIs
  <1>2. SkipWhite(<<>>) = <<>>
    <2>1. ASSUME SkipWhite(<<>>) # <<>> PROVE FALSE
      <3>1. \E k \in 1..Len(<<>>) : TRUE
        BY <1>0, <2>1, SkipWhiteGives
      <3> QED BY <1>0, <3>1
    <2> QED BY <2>1
  <1>3. Find(<<>>, <<"?">>) = 0
    <2>1. "?" \in Symbol
      BY DEF Symbol
    <2>2. FindsOne(Find(<<>>, <<"?">>), <<>>, "?")
      BY <1>0, <2>1, FindOneIs, Zenon
    <2> QED BY <1>0, <2>2, Zenon DEF FindsOne
  <1>4. Before(<<>>, <<"?">>) = <<>>
    BY <1>3, Zenon DEF Before
  <1> QED BY <1>1, <1>2, <1>4

(* A path is taken from what comes after white space, and not at the start *)
(* of the line.                                                            *)
LEMMA PathFollows ==
  ASSUME NEW line \in Seq(Symbol), ParseRequestLine(line).path # <<>>
  PROVE  \E k \in 3..Len(line) :
           /\ line[k - 1] \in White /\ line[k] \notin White
           /\ Head(ParseRequestLine(line).path) = line[k]
  <1> DEFINE t == SkipWhite(line)
             method == Word(line)
             rest == From(t, Len(method) + 1)
             v == SkipWhite(rest)
             target == Word(rest)
             path == Before(target, <<"?">>)
  <1>1. ParseRequestLine(line).path = path
    BY DEF ParseRequestLine
  <1>2. target # <<>> /\ v # <<>>
    BY <1>1, NoWord
  <1>3. t # <<>>
    <2>1. ASSUME t = <<>> PROVE FALSE
      <3>1. method = <<>>
        BY <2>1, NoWord
      <3>2. SubSeq(<<>>, 0 + 1, 0) = <<>> /\ Len(<<>>) = 0
        OBVIOUS
      <3>3. rest = <<>>
        BY <2>1, <3>1, <3>2, Zenon DEF From
      <3> QED BY <1>2, <3>3, NoWord
    <2> QED BY <2>1
  <1>4. PICK a \in 1..Len(line) : /\ line[a] \notin White
                                 /\ IsPart(t, line, a, Len(line))
    BY <1>3, SkipWhiteGives
  <1> DEFINE m == Len(t)
  <1>5. /\ t \in Seq(Symbol) /\ m \in Nat \ {0} /\ m = Len(line) - a + 1
        /\ Len(line) \in Nat /\ a \in Nat \ {0}
        /\ \A k \in 1..m : t[k] = line[a + k - 1]
    BY <1>4 DEF IsPart
  <1>6. PICK n \in 0..m :
          /\ IsPart(method, t, 1, n) /\ \A j \in 1..n : t[j] \notin White
          /\ n = m \/ t[n + 1] \in White
    BY <1>5, WordGives
  <1> HIDE DEF m, t, method
  <1>7. Len(method) = n /\ n \in Nat
    <2>1. n \in Nat /\ n - 1 + 1 = n
      BY <1>5, <1>6
    <2> QED BY <1>6, <2>1 DEF IsPart
  <1>8. n # 0
    <2>1. t[1] = line[a]
      <3>1. 1 \in 1..m /\ a + 1 - 1 = a
        BY <1>5
      <3> QED BY <1>5, <3>1
    <2>2. 0 + 1 = 1 /\ m # 0
      BY <1>5
    <2> QED BY <1>4, <1>6, <2>1, <2>2
  <1>9. /\ rest \in Seq(Symbol) /\ Len(rest) = m - n
        /\ \A k \in 1..(m - n) : rest[k] = t[n + k]
    <2>1. /\ n + 1 \in 1..(Len(t) + 1) /\ Len(t) \in ((n + 1) - 1)..Len(t)
          /\ Len(t) - (n + 1) + 1 = m - n
          /\ \A k \in 1..(m - n) : (n + 1) + k - 1 = n + k
      BY <1>5, <1>6, <1>7 DEF m
    <2>2. rest = SubSeq(t, n + 1, Len(t))
      BY <1>7 DEF From
    <2>3. IsPart(rest, t, n + 1, Len(t))
      BY <1>5, <2>1, <2>2, PartIs
    <2> HIDE DEF rest
    <2> QED BY <2>1, <2>3 DEF IsPart
  <1> HIDE DEF rest
  <1>10. PICK b \in 1..Len(rest) :
           /\ rest[b] \notin White /\ \A j \in 1..(b - 1) : rest[j] \in White
           /\ IsPart(v, rest, b, Len(rest))
    BY <1>2, <1>9, SkipWhiteGives
  <1>11. b \in 1..(m - n) /\ 1 \in 1..(m - n) /\ n # m
    BY <1>5, <1>6, <1>7, <1>9, <1>10
  <1>12. b # 1
    BY <1>6, <1>9, <1>10, <1>11
  <1>13. /\ b - 1 \in 1..(b - 1) /\ b - 1 \in 1..(m - n)
    BY <1>5, <1>7, <1>11, <1>12
  <1> DEFINE k == a + (n + b) - 1
  <1>14. /\ k \in 3..Len(line) /\ n + b \in 1..m /\ n + (b - 1) \in 1..m
         /\ a + (n + (b - 1)) - 1 = k - 1
    BY <1>5, <1>7, <1>8, <1>11, <1>12
  <1>15. line[k] = rest[b] /\ line[k - 1] = rest[b - 1]
    BY <1>5, <1>9, <1>11, <1>13, <1>14
  <1> HIDE DEF k
  <1>16. v \in Seq(Symbol) /\ Len(v) \in Nat /\ v[1] = rest[b]
    <2>1. 1 \in 1..(Len(rest) - b + 1) /\ b + 1 - 1 = b
      BY <1>9, <1>10
    <2> QED BY <1>10, <2>1 DEF IsPart
  <1>17. PICK c \in 0..Len(v) : IsPart(target, v, 1, c)
    BY <1>16, WordGives
  <1> HIDE DEF target, v
  <1>18. target \in Seq(Symbol) /\ Len(target) = c /\ c \in Nat
    <2>1. c \in Nat /\ c - 1 + 1 = c
      BY <1>16, <1>17
    <2> QED BY <1>17, <2>1 DEF IsPart
  <1>19. Len(target) \in Nat \ {0} /\ target[1] = v[1]
    <2>1. c # 0
      BY <1>2, <1>18
    <2>2. 1 \in 1..(c - 1 + 1) /\ 1 + 1 - 1 = 1
      BY <1>18, <2>1
    <2> QED BY <1>17, <1>18, <2>1, <2>2 DEF IsPart
  <1>20. Head(path) = target[1]
    BY <1>1, <1>18, <1>19, PathBegins
  <1> QED BY <1>1, <1>10, <1>13, <1>14, <1>15, <1>16, <1>19, <1>20

(* What is left of a request line behind the method gives no span.         *)
LEMMA RestRead ==
  ASSUME NEW a, NEW g, NEW w, IsRequest(a, g, w), NEW x, HasLine(x, a, g, w),
         Len(x) >= Len(a) + Len(g) + 6,
         x[Len(a) + Len(g) + 5] = "CR", x[Len(a) + Len(g) + 6] = "LF",
         NEW o \in Len(a)..(Len(a) + Len(g) + 4),
         NEW data \in Seq(Symbol),
         \A k \in 1..Len(data) : o + k <= Len(x) => data[k] = x[o + k]
  PROVE  ~HttpLike(data, RequestLine(data))
  <1> SUFFICES ASSUME HttpLike(data, RequestLine(data)) PROVE FALSE
    OBVIOUS
  <1> DEFINE p == Len(a)
             n == Len(g)
             d == Len(data)
             f == Find(data, CRLF)
             b == SubSeq(data, 1, f - 1)
             line == Before(data, CRLF)
             path == RequestLine(data).path
             e == p + n + 5
  <1>1. /\ p \in Nat \ {0} /\ n \in Nat \ {0} /\ d \in Nat /\ Len(x) \in Nat
        /\ o \in Nat /\ o >= p /\ o < e /\ Len(x) >= e + 1 /\ e \in Nat
        /\ x[e] = "CR" /\ x[e + 1] = "LF"
        /\ \A k \in 1..d : o + k <= Len(x) => data[k] = x[o + k]
    BY DEF IsRequest, HasLine
  <1>2. /\ x[p + n + 2] = "SP" /\ x[p + n + 3] = "HTTP/" /\ x[p + n + 4] = w
        /\ \A j \in 1..n : x[p + 1 + j] \notin White
        /\ w \notin White
    BY DEF HasLine, IsRequest, White
  <1>3. Finds(f, data, "CR", "LF")
    <2>1. "CR" \in Symbol /\ "LF" \in Symbol
      BY DEF Symbol
    <2>2. CRLF = <<"CR", "LF">>
      BY DEF CRLF
    <2> QED BY <1>1, <2>1, <2>2, FindIs, Zenon
  <1>4. line = IF f = 0 THEN data ELSE b
    BY Zenon DEF Before
  <1>5. path # <<>> /\ Head(path) = "/" /\ path = ParseRequestLine(line).path
    BY DEF HttpLike, RequestLine
  <1> HIDE DEF p, n, d, f, line, path, e
  <1>0. ASSUME d > e - o PROVE data[e - o] = "CR" /\ data[(e - o) + 1] = "LF"
    <2> DEFINE j == e - o
    <2>1. /\ j \in 1..d /\ j + 1 \in 1..d /\ o + j = e /\ o + (j + 1) = e + 1
          /\ e <= Len(x) /\ e + 1 <= Len(x)
      BY <1>1, <1>0
    <2> HIDE DEF j
    <2>2. data[j] = x[o + j] /\ data[j + 1] = x[o + (j + 1)]
      BY <1>1, <2>1, Zenon
    <2>3. data[j] = "CR" /\ data[j + 1] = "LF"
      BY <1>1, <2>1, <2>2
    <2> QED BY <2>3 DEF j
  <1>6. /\ line \in Seq(Symbol) /\ Len(line) <= d /\ o + Len(line) <= e
        /\ \A k \in 1..Len(line) : line[k] = data[k]
    <2>1. CASE f = 0
      <3>1. ~(d > e - o)
        <4>1. ASSUME d > e - o PROVE FALSE
          <5>1. e - o \in 1..(d - 1)
            BY <1>1, <4>1
          <5> QED BY <1>0, <1>3, <2>1, <4>1, <5>1 DEF Finds, d
        <4> QED BY <4>1
      <3>2. o + d <= e
        BY <1>1, <3>1
      <3> QED BY <1>4, <2>1, <3>2 DEF d
    <2>2. CASE f # 0
      <3>1. f \in 1..(d - 1) /\ \A i \in 1..(f - 1) : ~(data[i] = "CR" /\ data[i + 1] = "LF")
        BY <1>3, <2>2 DEF Finds, d
      <3>2. ~(f > e - o)
        <4>1. ASSUME f > e - o PROVE FALSE
          <5>1. e - o \in 1..(f - 1) /\ d > e - o
            BY <1>1, <3>1, <4>1
          <5> QED BY <1>0, <3>1, <5>1
        <4> QED BY <4>1
      <3>3. o + (f - 1) <= e /\ f - 1 <= d
        BY <1>1, <3>1, <3>2
      <3>4. /\ b \in Seq(Symbol) /\ Len(b) = f - 1
            /\ \A i \in 1..(f - 1) : b[i] = data[i]
        <4>1. /\ 1 \in 1..(Len(data) + 1) /\ f - 1 \in (1 - 1)..Len(data)
              /\ (f - 1) - 1 + 1 = f - 1 /\ \A i \in 1..(f - 1) : 1 + i - 1 = i
          BY <1>1, <3>1 DEF d
        <4>2. IsPart(b, data, 1, f - 1)
          BY <4>1, PartIs
        <4> HIDE DEF b
        <4> QED BY <4>1, <4>2 DEF IsPart
      <3> HIDE DEF b
      <3> QED BY <1>4, <2>2, <3>3, <3>4
    <2> QED BY <2>1, <2>2
  <1>7. PICK k \in 3..Len(line) :
          line[k - 1] \in White /\ line[k] \notin White /\ line[k] = "/"
    BY <1>5, <1>6, PathFollows
  <1>8. /\ Len(line) \in Nat /\ k - 1 \in 1..Len(line) /\ k \in 1..Len(line)
        /\ k - 1 \in 1..d /\ k \in 1..d /\ o + k <= e /\ o + k <= Len(x)
        /\ o + (k - 1) <= Len(x)
    BY <1>1, <1>6, <1>7
  <1>9. x[o + (k - 1)] \in White /\ x[o + k] = "/"
    BY <1>1, <1>6, <1>7, <1>8
  <1> DEFINE q == o + (k - 1)
  <1>10. q \in Nat /\ q >= p + 2 /\ q < e /\ q + 1 = o + k
    BY <1>1, <1>7, <1>8
  <1> HIDE DEF q
  <1>11. q = p + n + 2
    <2>1. q # p + n + 3 /\ q # p + n + 4
      BY <1>2, <1>9 DEF q, White
    <2>2. ~(q < p + n + 2)
      <3>1. ASSUME q < p + n + 2 PROVE FALSE
        <4>1. q - p - 1 \in 1..n /\ p + 1 + (q - p - 1) = q
          BY <1>1, <1>10, <3>1
        <4> QED BY <1>2, <1>9, <4>1 DEF q
      <3> QED BY <3>1
    <2> QED BY <1>1, <1>10, <2>1, <2>2 DEF e
  <1>12. q + 1 = p + n + 3
    BY <1>1, <1>11
  <1> QED BY <1>2, <1>9, <1>10, <1>12
-----------------------------------------------------------------------------
(* A traceparent.                                                          *)

(* How many dashes there are up to d.                                      *)
Rank(s, d) == Cardinality({j \in Dashes(s) : j <= d})

(* The dashes can be counted.                                              *)
LEMMA DashesFinite ==
  ASSUME NEW s \in Seq(Symbol)
  PROVE  /\ Dashes(s) = {i \in 1..Len(s) : s[i] = "-"} /\ Dashes(s) \subseteq Nat
         /\ IsFiniteSet(Dashes(s)) /\ Cardinality(Dashes(s)) \in Nat
         /\ \A d : /\ IsFiniteSet({j \in Dashes(s) : j <= d})
                   /\ Rank(s, d) \in Nat
  <1>1. Dashes(s) = {i \in 1..Len(s) : s[i] = "-"} /\ Dashes(s) \subseteq 1..Len(s)
    BY DEF Dashes
  <1>2. IsFiniteSet(1..Len(s))
    BY FS_Interval
  <1>3. IsFiniteSet(Dashes(s)) /\ Dashes(s) \subseteq Nat
    BY <1>1, <1>2, FS_Subset
  <1>4. ASSUME NEW d PROVE IsFiniteSet({j \in Dashes(s) : j <= d})
    BY <1>3, FS_Subset
  <1> QED BY <1>1, <1>3, <1>4, FS_CardinalityType DEF Rank

(* A later dash has a greater rank.                                        *)
LEMMA RankGrows ==
  ASSUME NEW s \in Seq(Symbol), NEW c \in Nat, NEW d \in Dashes(s), c < d
  PROVE  Rank(s, c) < Rank(s, d)
  <1> DEFINE C == {j \in Dashes(s) : j <= c}
             D == {j \in Dashes(s) : j <= d}
  <1>1. Dashes(s) \subseteq Nat
    BY DashesFinite
  <1>2. C \subseteq D /\ d \in D /\ d \notin C
    BY <1>1
  <1>3. IsFiniteSet(D) /\ IsFiniteSet(C)
    BY DashesFinite
  <1>4. Cardinality(C) \in Nat /\ Cardinality(D) \in Nat
    BY <1>3, FS_CardinalityType
  <1> HIDE DEF C, D
  <1>5. Cardinality(C) <= Cardinality(D) /\ Cardinality(D) # Cardinality(C)
    BY <1>2, <1>3, FS_Subset
  <1> QED BY <1>4, <1>5 DEF Rank, C, D

(* DashAt finds the dash of a rank.                                        *)
LEMMA DashAtIs ==
  ASSUME NEW s \in Seq(Symbol), NEW d \in Dashes(s)
  PROVE  DashAt(s, Rank(s, d)) = d
  <1>1. Dashes(s) \subseteq Nat
    BY DashesFinite
  <1>2. ASSUME NEW c \in Dashes(s), Rank(s, c) = Rank(s, d) PROVE c = d
    <2>1. c \in Nat /\ d \in Nat /\ Rank(s, c) \in Nat /\ Rank(s, d) \in Nat
      BY <1>1, DashesFinite
    <2>2. ~(c < d) /\ ~(d < c)
      BY <1>2, <2>1, RankGrows
    <2> QED BY <2>1, <2>2
  <1>3. DashAt(s, Rank(s, d)) = CHOOSE i \in Dashes(s) : Rank(s, i) = Rank(s, d)
    BY DEF DashAt, Rank
  <1> QED BY <1>2, <1>3

(* Behind d comes the next dash, if not all of them have been counted.     *)
LEMMA NextDash ==
  ASSUME NEW s \in Seq(Symbol), NEW d \in Nat,
         Rank(s, d) < Cardinality(Dashes(s))
  PROVE  \E e \in Dashes(s) :
           /\ e > d /\ Rank(s, e) = Rank(s, d) + 1
           /\ \A j \in Dashes(s) : j > d => e <= j
  <1> DEFINE D == Dashes(s)
             B == {j \in D : j <= d}
             A == {j \in D : j > d}
  <1>0. D \subseteq Nat /\ IsFiniteSet(D) /\ IsFiniteSet(B)
    BY DashesFinite
  <1>1. A # {}
    <2>1. ASSUME A = {} PROVE FALSE
      <3>1. B = D
        BY <1>0, <2>1
      <3>2. Cardinality(B) < Cardinality(D) /\ Cardinality(D) \in Nat
        BY DashesFinite DEF Rank
      <3>3. ~(Cardinality(D) < Cardinality(D))
        BY <3>2
      <3> HIDE DEF B, D
      <3> QED BY <3>1, <3>2, <3>3
    <2> QED BY <2>1
  <1>2. A \in SUBSET Nat
    BY <1>0
  <1>3. PICK e \in A : \A j \in A : e <= j
    BY <1>1, <1>2, LeastNumber
  <1>4. {j \in D : j <= e} = B \cup {e} /\ e \notin B
    BY <1>0, <1>3
  <1>5. Cardinality(B \cup {e}) = Cardinality(B) + 1
    BY <1>0, <1>4, FS_AddElement
  <1> QED BY <1>3, <1>4, <1>5 DEF Rank

(* With three dashes there are four fields, and a fourth dash ends the     *)
(* last of them.                                                           *)
LEMMA FieldsAre ==
  ASSUME NEW s \in Seq(Symbol), Cardinality(Dashes(s)) >= 3
  PROVE  \E a, b, c \in Dashes(s), e \in Nat :
           /\ a < b /\ b < c /\ c <= e /\ e <= Len(s)
           /\ \A j \in Dashes(s) : j \in {a, b, c} \/ j > e
           /\ e = Len(s) \/ e + 1 \in Dashes(s)
           /\ IsPart(Field(s, 1), s, 1, a - 1) /\ IsPart(Field(s, 2), s, a + 1, b - 1)
           /\ IsPart(Field(s, 3), s, b + 1, c - 1) /\ IsPart(Field(s, 4), s, c + 1, e)
  <1> DEFINE D == Dashes(s)
             N == Cardinality(D)
  <1>0. /\ D \subseteq Nat /\ N \in Nat /\ N >= 3 /\ Len(s) \in Nat
        /\ \A d \in D : d \in 1..Len(s)
    BY DashesFinite
  <1>1. Rank(s, 0) = 0
    <2>1. {j \in D : j <= 0} = {}
      BY <1>0
    <2> QED BY <2>1, FS_EmptySet DEF Rank
  <1> HIDE DEF D, N
  <1>2. PICK a \in D : a > 0 /\ Rank(s, a) = 1 /\ \A j \in D : j > 0 => a <= j
    <2>1. 0 \in Nat /\ Rank(s, 0) < N /\ 0 + 1 = 1
      BY <1>0, <1>1
    <2> QED BY <1>1, <2>1, NextDash DEF D, N
  <1>3. PICK b \in D : b > a /\ Rank(s, b) = 2 /\ \A j \in D : j > a => b <= j
    <2>1. a \in Nat /\ Rank(s, a) < N /\ 1 + 1 = 2
      BY <1>0, <1>2
    <2> QED BY <1>2, <2>1, NextDash DEF D, N
  <1>4. PICK c \in D : c > b /\ Rank(s, c) = 3 /\ \A j \in D : j > b => c <= j
    <2>1. b \in Nat /\ Rank(s, b) < N /\ 2 + 1 = 3
      BY <1>0, <1>3
    <2> QED BY <1>3, <2>1, NextDash DEF D, N
  <1>5. PICK e \in Nat : /\ c <= e /\ e <= Len(s) /\ (e = Len(s) \/ e + 1 \in D)
                         /\ \A j \in D : j > c => j > e
                         /\ e = IF 4 > N THEN Len(s) ELSE DashAt(s, 4) - 1
    <2>1. CASE N = 3
      <3>1. ASSUME NEW j \in D, j > c PROVE FALSE
        <4>1. Rank(s, c) < Rank(s, j) /\ c \in Nat
          BY <1>0, <3>1, RankGrows DEF D
        <4>2. Rank(s, j) <= N /\ Rank(s, j) \in Nat
          <5>1. {i \in D : i <= j} \in SUBSET D /\ IsFiniteSet(D)
            BY DashesFinite DEF D
          <5>2. Cardinality({i \in D : i <= j}) <= N
            BY <5>1, FS_Subset DEF N
          <5> QED BY <5>2, DashesFinite DEF Rank, D
        <4> QED BY <1>4, <2>1, <4>1, <4>2
      <3>2. 4 > N /\ c <= Len(s)
        BY <1>0, <2>1
      <3> QED BY <1>0, <3>1, <3>2
    <2>2. CASE N # 3
      <3>1. c \in Nat /\ Rank(s, c) < N /\ 3 + 1 = 4
        BY <1>0, <1>4, <2>2
      <3>2. PICK f \in D : f > c /\ Rank(s, f) = 4 /\ \A j \in D : j > c => f <= j
        BY <1>4, <3>1, NextDash DEF D, N
      <3>3. DashAt(s, 4) = f
        BY <3>2, DashAtIs DEF D
      <3>4. f - 1 \in Nat /\ c <= f - 1 /\ f - 1 <= Len(s) /\ (f - 1) + 1 = f
        BY <1>0, <3>1, <3>2
      <3>5. ~(4 > N) /\ \A j \in D : j > c => j > f - 1
        BY <1>0, <2>2, <3>2
      <3> QED BY <3>2, <3>3, <3>4, <3>5
    <2> QED BY <2>1, <2>2
  <1>6. a \in Nat /\ b \in Nat /\ c \in Nat /\ c <= Len(s)
    BY <1>0
  <1>7. DashAt(s, 1) = a /\ DashAt(s, 2) = b /\ DashAt(s, 3) = c
    BY <1>2, <1>3, <1>4, DashAtIs DEF D
  <1>8. /\ Field(s, 1) = SubSeq(s, 1, a - 1) /\ Field(s, 2) = SubSeq(s, a + 1, b - 1)
        /\ Field(s, 3) = SubSeq(s, b + 1, c - 1) /\ Field(s, 4) = SubSeq(s, c + 1, e)
    <2>0. /\ 2 - 1 = 1 /\ 3 - 1 = 2 /\ 4 - 1 = 3
          /\ 2 # 1 /\ 3 # 1 /\ 4 # 1
      OBVIOUS
    <2>1. ~(1 > N) /\ ~(2 > N) /\ ~(3 > N)
      BY <1>0
    <2>2. Field(s, 1) = SubSeq(s, 1, a - 1)
      BY <1>7, <2>0, <2>1, Zenon DEF Field, N, D
    <2>3. Field(s, 2) = SubSeq(s, a + 1, b - 1)
      BY <1>7, <2>0, <2>1, Zenon DEF Field, N, D
    <2>4. Field(s, 3) = SubSeq(s, b + 1, c - 1)
      BY <1>7, <2>0, <2>1, Zenon DEF Field, N, D
    <2>5. Field(s, 4) = SubSeq(s, c + 1, e)
      BY <1>5, <1>7, <2>0, Zenon DEF Field, N, D
    <2> QED BY <2>2, <2>3, <2>4, <2>5
  <1>9. /\ IsPart(Field(s, 1), s, 1, a - 1) /\ IsPart(Field(s, 2), s, a + 1, b - 1)
        /\ IsPart(Field(s, 3), s, b + 1, c - 1) /\ IsPart(Field(s, 4), s, c + 1, e)
    <2>1. /\ 1 \in 1..(Len(s) + 1) /\ a - 1 \in (1 - 1)..Len(s)
          /\ a + 1 \in 1..(Len(s) + 1) /\ b - 1 \in ((a + 1) - 1)..Len(s)
          /\ b + 1 \in 1..(Len(s) + 1) /\ c - 1 \in ((b + 1) - 1)..Len(s)
          /\ c + 1 \in 1..(Len(s) + 1) /\ e \in ((c + 1) - 1)..Len(s)
      <3>1. /\ 1 <= a /\ a < b /\ b < c /\ c <= e /\ e <= Len(s)
            /\ Len(s) \in Nat /\ e \in Nat
        BY <1>0, <1>2, <1>3, <1>4, <1>5, <1>6
      <3> QED BY <1>6, <3>1
    <2> QED BY <1>8, <2>1, PartIs
  <1>10. \A j \in D : j \in {a, b, c} \/ j > e
    BY <1>0, <1>2, <1>3, <1>4, <1>5
  <1>11. a < b /\ b < c
    BY <1>3, <1>4, <1>6
  <1> QED BY <1>5, <1>9, <1>10, <1>11 DEF D

(* The places of the dashes of a traceparent.                              *)
Layout(s) ==
  /\ Len(s) >= 9 /\ s[2] = "-" /\ s[5] = "-" /\ s[7] = "-"
  /\ Len(s) = 9 \/ (Len(s) >= 10 /\ s[10] = "-")
  /\ IsPart(Field(s, 1), s, 1, 1) /\ IsPart(Field(s, 2), s, 3, 4)
  /\ IsPart(Field(s, 3), s, 6, 6) /\ IsPart(Field(s, 4), s, 8, 9)

(* The condition under which the SDK accepts a traceparent.                *)
Accepted(s) ==
  /\ Cardinality(Dashes(s)) >= 3
  /\ \A k \in 1..4 : /\ Len(Field(s, k)) = FieldSize[k]
                     /\ IsValidHex(Field(s, k))
  /\ HexToBinary(Field(s, 1)) # <<"ff">>
  /\ IF HexToBinary(Field(s, 1)) = <<"00">> THEN Len(s) = kTraceParentSize
                                            ELSE Len(s) >= kTraceParentSize
  /\ IsValidId(HexToBinary(Field(s, 2))) /\ IsValidId(HexToBinary(Field(s, 3)))

(* Fields of the right sizes put the dashes into their places.             *)
LEMMA SizesGiveLayout ==
  ASSUME NEW s \in Seq(Symbol), Cardinality(Dashes(s)) >= 3,
         \A k \in 1..4 : Len(Field(s, k)) = FieldSize[k]
  PROVE  Layout(s)
  <1>1. PICK a \in Dashes(s), b \in Dashes(s), c \in Dashes(s), e \in Nat :
           /\ a < b /\ b < c /\ c <= e /\ e <= Len(s)
           /\ e = Len(s) \/ e + 1 \in Dashes(s)
           /\ IsPart(Field(s, 1), s, 1, a - 1) /\ IsPart(Field(s, 2), s, a + 1, b - 1)
           /\ IsPart(Field(s, 3), s, b + 1, c - 1) /\ IsPart(Field(s, 4), s, c + 1, e)
    BY FieldsAre
  <1>2. \A j \in Dashes(s) : j \in 1..Len(s) /\ s[j] = "-"
    BY DashesFinite
  <1>3. /\ Len(Field(s, 1)) = 1 /\ Len(Field(s, 2)) = 2
        /\ Len(Field(s, 3)) = 1 /\ Len(Field(s, 4)) = 2
    BY DEF FieldSize
  <1>4. /\ (a - 1) - 1 + 1 = 1 /\ (b - 1) - (a + 1) + 1 = 2
        /\ (c - 1) - (b + 1) + 1 = 1 /\ e - (c + 1) + 1 = 2
    BY <1>1, <1>3 DEF IsPart
  <1>5. a \in Nat /\ b \in Nat /\ c \in Nat /\ Len(s) \in Nat
    BY <1>2
  <1>6. a = 2 /\ b = 5 /\ c = 7 /\ e = 9
    BY <1>4, <1>5
  <1>7. /\ a - 1 = 1 /\ a + 1 = 3 /\ b - 1 = 4 /\ b + 1 = 6 /\ c - 1 = 6 /\ c + 1 = 8
        /\ e + 1 = 10
    BY <1>6
  <1>8. Len(s) = 9 \/ (Len(s) >= 10 /\ s[10] = "-")
    BY <1>1, <1>2, <1>5, <1>6, <1>7
  <1>9. /\ IsPart(Field(s, 1), s, 1, 1) /\ IsPart(Field(s, 2), s, 3, 4)
        /\ IsPart(Field(s, 3), s, 6, 6) /\ IsPart(Field(s, 4), s, 8, 9)
    BY <1>1, <1>6, <1>7, Zenon
  <1>10. Len(s) >= 9 /\ s[2] = "-" /\ s[5] = "-" /\ s[7] = "-"
    BY <1>1, <1>2, <1>5, <1>6
  <1> QED BY <1>8, <1>9, <1>10 DEF Layout

(* A traceparent has them there.                                           *)
LEMMA TraceparentHasLayout ==
  ASSUME NEW s \in Seq(Symbol), IsTraceparent(s, Hex)
  PROVE  Cardinality(Dashes(s)) >= 3 /\ Layout(s)
  <1> DEFINE D == Dashes(s)
  <1>0. /\ D = {i \in 1..Len(s) : s[i] = "-"} /\ D \subseteq Nat
        /\ IsFiniteSet(D) /\ Cardinality(D) \in Nat /\ Len(s) \in Nat
    BY DashesFinite
  <1>1. /\ Len(s) >= 9 /\ s[2] = "-" /\ s[5] = "-" /\ s[7] = "-"
        /\ Len(s) = 9 \/ s[10] = "-"
        /\ \A i \in {1, 3, 4, 6, 8, 9} : s[i] # "-"
    BY DEF IsTraceparent, Hex, LowerHex, UpperHex
  <1>2. /\ 2 \in D /\ 5 \in D /\ 7 \in D
        /\ Len(s) >= 10 => 10 \in D
        /\ \A i \in {1, 3, 4, 6, 8, 9} : i \notin D
    <2>1. /\ 2 \in 1..Len(s) /\ 5 \in 1..Len(s) /\ 7 \in 1..Len(s)
          /\ Len(s) >= 10 => 10 \in 1..Len(s) /\ Len(s) # 9
      <3>1. \A n \in Nat : n >= 9 =>
              /\ 2 \in 1..n /\ 5 \in 1..n /\ 7 \in 1..n
              /\ n >= 10 => 10 \in 1..n /\ n # 9
        OBVIOUS
      <3> QED BY <1>0, <1>1, <3>1, Zenon
    <2>2. \A i : i \in D <=> i \in 1..Len(s) /\ s[i] = "-"
      BY <1>0, Zenon
    <2> HIDE DEF D
    <2> QED BY <1>1, <2>1, <2>2, Zenon
  <1>3. Cardinality(D) >= 3
    <2>1. IsFiniteSet({2}) /\ Cardinality({2}) = 1
      BY FS_Singleton
    <2>2. IsFiniteSet({2} \cup {5}) /\ Cardinality({2} \cup {5}) = 2
      <3>1. 5 \notin {2} /\ 1 + 1 = 2
        OBVIOUS
      <3> QED BY <2>1, <3>1, FS_AddElement, Zenon
    <2>3. Cardinality({2} \cup {5} \cup {7}) = 3
      <3>1. 7 \notin {2} \cup {5} /\ 2 + 1 = 3
        OBVIOUS
      <3>2. \A S, x : IsFiniteSet(S) /\ x \notin S =>
                       Cardinality(S \cup {x}) = Cardinality(S) + 1
        BY FS_AddElement, Zenon
      <3> QED BY <2>2, <3>1, <3>2, Zenon
    <2>4. {2} \cup {5} \cup {7} \in SUBSET D
      BY <1>2
    <2>5. Cardinality({2} \cup {5} \cup {7}) <= Cardinality(D)
      BY <1>0, <2>4, FS_Subset
    <2> QED BY <1>0, <2>3, <2>5
  <1>4. PICK a \in D, b \in D, c \in D, e \in Nat :
           /\ a < b /\ b < c /\ c <= e /\ e <= Len(s)
           /\ \A j \in D : j \in {a, b, c} \/ j > e
           /\ e = Len(s) \/ e + 1 \in D
           /\ IsPart(Field(s, 1), s, 1, a - 1) /\ IsPart(Field(s, 2), s, a + 1, b - 1)
           /\ IsPart(Field(s, 3), s, b + 1, c - 1) /\ IsPart(Field(s, 4), s, c + 1, e)
    BY <1>3, FieldsAre
  <1>5. a \in Nat /\ b \in Nat /\ c \in Nat /\ a >= 1
    BY <1>0
  <1> HIDE DEF D
  <1>6. a = 2
    <2>1. a # 1
      BY <1>2
    <2>2. 2 \in {a, b, c} \/ 2 > e
      BY <1>2, <1>4
    <2> QED BY <1>4, <1>5, <2>1, <2>2
  <1>7. b = 5
    BY <1>2, <1>4, <1>5, <1>6
  <1>8. c = 7
    BY <1>2, <1>4, <1>5, <1>6, <1>7
  <1>9. e = 9
    <2>1. e >= 7 /\ e <= 9
      BY <1>0, <1>1, <1>2, <1>4, <1>5, <1>6, <1>7, <1>8
    <2>2. ~(8 \in D) /\ ~(9 \in D)
      BY <1>2
    <2>3. e # 7 /\ e # 8
      <3>1. 7 + 1 = 8 /\ 8 + 1 = 9 /\ \A n \in Nat : n >= 9 => n # 7 /\ n # 8
        OBVIOUS
      <3>2. Len(s) # 7 /\ Len(s) # 8
        BY <1>0, <1>1, <3>1, Zenon
      <3> QED BY <1>4, <2>2, <3>1, <3>2, Zenon
    <2> QED BY <2>1, <2>3
  <1>10. /\ a - 1 = 1 /\ a + 1 = 3 /\ b - 1 = 4 /\ b + 1 = 6 /\ c - 1 = 6 /\ c + 1 = 8
    BY <1>6, <1>7, <1>8
  <1>11. /\ IsPart(Field(s, 1), s, 1, 1) /\ IsPart(Field(s, 2), s, 3, 4)
         /\ IsPart(Field(s, 3), s, 6, 6) /\ IsPart(Field(s, 4), s, 8, 9)
    BY <1>4, <1>9, <1>10, Zenon
  <1>12. Len(s) = 9 \/ (Len(s) >= 10 /\ s[10] = "-")
    <2>1. Len(s) \in Nat /\ Len(s) >= 9
      BY <1>0, <1>1
    <2>2. \A n \in Nat : n >= 9 => n = 9 \/ n >= 10
      OBVIOUS
    <2> QED BY <1>1, <2>1, <2>2, Zenon
  <1> QED BY <1>1, <1>3, <1>11, <1>12 DEF Layout, D

(* With the dashes in their places, what is accepted is a traceparent and  *)
(* the fields are those that name the parent.                              *)
LEMMA LayoutDecides ==
  ASSUME NEW s \in Seq(Symbol), Cardinality(Dashes(s)) >= 3, Layout(s)
  PROVE  /\ Accepted(s) <=> IsTraceparent(s, Hex)
         /\ ContextOf(s) = ParentIn(s)
  <1> DEFINE A == Field(s, 1)
             B == Field(s, 2)
             C == Field(s, 3)
             E == Field(s, 4)
  <1>1. /\ A \in Seq(Symbol) /\ Len(A) = 1 /\ A[1] = s[1]
        /\ B \in Seq(Symbol) /\ Len(B) = 2 /\ B[1] = s[3] /\ B[2] = s[4]
        /\ C \in Seq(Symbol) /\ Len(C) = 1 /\ C[1] = s[6]
        /\ E \in Seq(Symbol) /\ Len(E) = 2 /\ E[1] = s[8] /\ E[2] = s[9]
    <2>1. A \in Seq(Symbol) /\ Len(A) = 1 /\ A[1] = s[1]
      BY DEF Layout, IsPart
    <2>2. B \in Seq(Symbol) /\ Len(B) = 2 /\ B[1] = s[3] /\ B[2] = s[4]
      BY DEF Layout, IsPart
    <2>3. C \in Seq(Symbol) /\ Len(C) = 1 /\ C[1] = s[6]
      BY DEF Layout, IsPart
    <2>4. E \in Seq(Symbol) /\ Len(E) = 2 /\ E[1] = s[8] /\ E[2] = s[9]
      BY DEF Layout, IsPart
    <2> QED BY <2>1, <2>2, <2>3, <2>4
  <1> HIDE DEF A, B, C, E
  <1>2. A = <<s[1]>> /\ B = <<s[3], s[4]>> /\ C = <<s[6]>> /\ E = <<s[8], s[9]>>
    <2>1. ASSUME NEW x \in Seq(Symbol), Len(x) = 1 PROVE x = <<x[1]>>
      BY <2>1
    <2>2. ASSUME NEW x \in Seq(Symbol), Len(x) = 2 PROVE x = <<x[1], x[2]>>
      BY <2>2
    <2>3. A = <<A[1]>> /\ C = <<C[1]>>
      BY <1>1, <2>1
    <2>4. B = <<B[1], B[2]>> /\ E = <<E[1], E[2]>>
      BY <1>1, <2>2
    <2> QED BY <1>1, <2>3, <2>4
  <1>3. /\ IsValidHex(A) <=> s[1] \in Hex
        /\ IsValidHex(B) <=> s[3] \in Hex /\ s[4] \in Hex
        /\ IsValidHex(C) <=> s[6] \in Hex
        /\ IsValidHex(E) <=> s[8] \in Hex /\ s[9] \in Hex
    <2>1. DOMAIN A = {1} /\ DOMAIN B = {1, 2} /\ DOMAIN C = {1} /\ DOMAIN E = {1, 2}
      <3>1. DOMAIN A = 1..1 /\ DOMAIN B = 1..2 /\ DOMAIN C = 1..1 /\ DOMAIN E = 1..2
        BY <1>1
      <3>2. 1..1 = {1} /\ 1..2 = {1, 2}
        OBVIOUS
      <3> QED BY <3>1, <3>2, Zenon
    <2> QED BY <1>1, <2>1, Zenon DEF IsValidHex
  <1>4. /\ HexToBinary(A) = <<HexToInt(s[1])>>
        /\ HexToBinary(B) = <<HexToInt(s[3]), HexToInt(s[4])>>
        /\ HexToBinary(C) = <<HexToInt(s[6])>>
        /\ HexToBinary(E) = <<HexToInt(s[8]), HexToInt(s[9])>>
    <2>1. ASSUME NEW u PROVE HexToBinary(<<u>>) = <<HexToInt(u)>>
      BY DEF HexToBinary
    <2>2. ASSUME NEW u, NEW v
          PROVE  HexToBinary(<<u, v>>) = <<HexToInt(u), HexToInt(v)>>
      BY DEF HexToBinary
    <2> QED BY <1>2, <2>1, <2>2, Zenon
  <1>5. /\ \A u : HexToInt(u) = "0" <=> u = "0"
        /\ \A u : HexToInt(u) = "00" <=> u = "00"
        /\ \A u : HexToInt(u) = "ff" <=> u = "ff" \/ u = "FF"
    BY DEF HexToInt
  <1>6. /\ IsValidId(HexToBinary(B)) <=> ~(s[3] = "0" /\ s[4] = "0")
        /\ IsValidId(HexToBinary(C)) <=> s[6] # "0"
    <2>1. ASSUME NEW u PROVE IsValidId(<<u>>) <=> u # "0"
      BY DEF IsValidId
    <2>2. ASSUME NEW u, NEW v PROVE IsValidId(<<u, v>>) <=> u # "0" \/ v # "0"
      BY DEF IsValidId
    <2>3. /\ IsValidId(HexToBinary(B)) <=>
               HexToInt(s[3]) # "0" \/ HexToInt(s[4]) # "0"
          /\ IsValidId(HexToBinary(C)) <=> HexToInt(s[6]) # "0"
      BY <1>4, <2>1, <2>2
    <2> QED BY <1>5, <2>3, Zenon
  <1>7. /\ HexToBinary(A) = <<"ff">> <=> s[1] = "ff" \/ s[1] = "FF"
        /\ HexToBinary(A) = <<"00">> <=> s[1] = "00"
    <2>1. \A u, v : <<u>> = <<v>> <=> u = v
      OBVIOUS
    <2> QED BY <1>4, <1>5, <2>1, Zenon
  <1>8. (\A k \in 1..4 : /\ Len(Field(s, k)) = FieldSize[k]
                         /\ IsValidHex(Field(s, k)))
          <=> IsValidHex(A) /\ IsValidHex(B) /\ IsValidHex(C) /\ IsValidHex(E)
    <2>1. 1..4 = {1, 2, 3, 4}
      OBVIOUS
    <2>2. FieldSize[1] = 1 /\ FieldSize[2] = 2 /\ FieldSize[3] = 1 /\ FieldSize[4] = 2
      BY DEF FieldSize
    <2> QED BY <1>1, <2>1, <2>2, Zenon DEF A, B, C, E
  <1>9. /\ Len(s) \in Nat /\ Len(s) >= 9 /\ s[2] = "-" /\ s[5] = "-" /\ s[7] = "-"
        /\ Len(s) = 9 \/ s[10] = "-"
    BY DEF Layout
  <1>10. Accepted(s) <=>
          /\ IsValidHex(A) /\ IsValidHex(B) /\ IsValidHex(C) /\ IsValidHex(E)
          /\ HexToBinary(A) # <<"ff">> /\ (HexToBinary(A) = <<"00">> => Len(s) = 9)
          /\ IsValidId(HexToBinary(B)) /\ IsValidId(HexToBinary(C))
    BY <1>8, <1>9, Zenon DEF Accepted, kTraceParentSize, A, B, C
  <1>11. Accepted(s) <=> IsTraceparent(s, Hex)
    BY <1>3, <1>6, <1>7, <1>9, <1>10, Zenon DEF IsTraceparent
  <1>12. ContextOf(s) = ParentIn(s)
    BY <1>4, Zenon DEF ContextOf, ParentIn, B, C, E
  <1> QED BY <1>11, <1>12

(* Splitting at the dashes and looking at the four fields accepts exactly  *)
(* the traceparents, with hexadecimal digits of either case, and gives     *)
(* what they name.                                                         *)
LEMMA ExtractionIs ==
  ASSUME NEW s \in Seq(Symbol)
  PROVE  ExtractContextFromTraceHeaders(s) =
           IF IsTraceparent(s, Hex) THEN ParentIn(s) ELSE <<>>
  <1>1. ExtractContextFromTraceHeaders(s) =
          IF Accepted(s) THEN ContextOf(s) ELSE <<>>
    BY DEF ExtractContextFromTraceHeaders, Accepted
  <1>2. CASE Accepted(s)
    BY <1>1, <1>2, SizesGiveLayout, LayoutDecides, Zenon DEF Accepted
  <1>3. CASE IsTraceparent(s, Hex)
    BY <1>1, <1>3, TraceparentHasLayout, LayoutDecides, Zenon
  <1>4. CASE ~Accepted(s) /\ ~IsTraceparent(s, Hex)
    BY <1>1, <1>4
  <1> QED BY <1>2, <1>3, <1>4

(* So every traceparent of the standard, which wants lower-case digits, is *)
(* accepted and its ids and flags are taken as they are; and what else is  *)
(* accepted is a traceparent but for upper-case digits.                    *)
THEOREM ExtractionAgainstStandard ==
  ASSUME NEW s \in Seq(Symbol)
  PROVE  LET c == ExtractContextFromTraceHeaders(s) IN
         /\ IsTraceparent(s, LowerHex) =>
              c = <<<<s[3], s[4]>>, <<s[6]>>, <<s[8], s[9]>>>>
         /\ c # <<>> => /\ IsTraceparent(s, Hex) /\ c = ParentIn(s)
                        /\ \/ IsTraceparent(s, LowerHex)
                           \/ \E i \in {1, 3, 4, 6, 8, 9} : s[i] \in UpperHex
  <1> DEFINE c == ExtractContextFromTraceHeaders(s)
  <1>1. c = IF IsTraceparent(s, Hex) THEN ParentIn(s) ELSE <<>>
    BY ExtractionIs
  <1> HIDE DEF c
  <1>2. ASSUME IsTraceparent(s, LowerHex)
        PROVE  c = <<<<s[3], s[4]>>, <<s[6]>>, <<s[8], s[9]>>>>
    <2>1. IsTraceparent(s, Hex)
      BY <1>2, Zenon DEF IsTraceparent, Hex
    <2>2. \A i \in {3, 4, 6, 8, 9} : s[i] \in LowerHex
      BY <1>2, Zenon DEF IsTraceparent
    <2>3. \A u \in LowerHex : HexToInt(u) = u
      BY DEF HexToInt, LowerHex
    <2> QED BY <1>1, <2>1, <2>2, <2>3, Zenon DEF ParentIn
  <1>3. ASSUME c # <<>>
        PROVE  /\ IsTraceparent(s, Hex) /\ c = ParentIn(s)
               /\ \/ IsTraceparent(s, LowerHex)
                  \/ \E i \in {1, 3, 4, 6, 8, 9} : s[i] \in UpperHex
    <2>1. IsTraceparent(s, Hex) /\ c = ParentIn(s)
      BY <1>1, <1>3
    <2>2. ASSUME \A i \in {1, 3, 4, 6, 8, 9} : s[i] \notin UpperHex
          PROVE  IsTraceparent(s, LowerHex)
      BY <2>1, <2>2, Zenon DEF IsTraceparent, Hex
    <2> QED BY <2>1, <2>2
  <1> QED BY <1>2, <1>3, Zenon DEF c
-----------------------------------------------------------------------------
(* Header lines.                                                           *)

(* The line of s that begins at i ends at m.                               *)
EndsAt(s, i, m) ==
  /\ m \in (i - 1)..Len(s)
  /\ \A k \in i..m : k < Len(s) => ~(s[k] = "CR" /\ s[k + 1] = "LF")
  /\ m = Len(s) \/ (m + 2 <= Len(s) /\ s[m + 1] = "CR" /\ s[m + 2] = "LF")

(* Every line has an end.                                                  *)
LEMMA LineIs ==
  ASSUME NEW s \in Seq(Symbol), NEW i \in 1..Len(s)
  PROVE  \E m \in Nat : EndsAt(s, i, m) /\ IsPart(Line(s, i), s, i, m)
  <1> DEFINE t == From(s, i)
             f == Find(t, CRLF)
             n == Len(s)
  <1>0. n \in Nat /\ i \in Nat /\ i >= 1 /\ i <= n
    OBVIOUS
  <1>1. IsPart(t, s, i, n)
    <2>1. i \in 1..(Len(s) + 1) /\ n \in (i - 1)..Len(s)
      BY <1>0
    <2>2. IsPart(SubSeq(s, i, Len(s)), s, i, Len(s))
      BY <2>1, PartIs DEF n
    <2> QED BY <2>2 DEF From
  <1> HIDE DEF t, n
  <1>2. /\ t \in Seq(Symbol) /\ Len(t) = n - i + 1
        /\ \A k \in 1..(n - i + 1) : t[k] = s[i + k - 1]
    BY <1>1 DEF IsPart
  <1>3. Finds(f, t, "CR", "LF")
    <2>1. "CR" \in Symbol /\ "LF" \in Symbol /\ CRLF = <<"CR", "LF">>
      BY DEF Symbol, CRLF
    <2> QED BY <1>2, <2>1, FindIs, Zenon
  <1>4. ASSUME NEW k \in i..(n - 1)
        PROVE  /\ k - i + 1 \in 1..(Len(t) - 1)
               /\ t[k - i + 1] = s[k] /\ t[(k - i + 1) + 1] = s[k + 1]
    <2>1. /\ k - i + 1 \in 1..(n - i + 1) /\ (k - i + 1) + 1 \in 1..(n - i + 1)
          /\ i + (k - i + 1) - 1 = k /\ i + ((k - i + 1) + 1) - 1 = k + 1
          /\ k - i + 1 \in 1..(Len(t) - 1)
      BY <1>0, <1>2
    <2> QED BY <1>2, <2>1
  <1>5. CASE f = 0
    <2> HIDE DEF f
    <2>1. Line(s, i) = t
      BY <1>5 DEF Line, Before, t, f
    <2>2. ASSUME NEW k \in i..n, k < n PROVE ~(s[k] = "CR" /\ s[k + 1] = "LF")
      <3>1. k \in i..(n - 1)
        BY <1>0, <2>2
      <3> QED BY <1>3, <1>4, <1>5, <3>1 DEF Finds
    <2>3. n \in (i - 1)..n
      BY <1>0
    <2>4. EndsAt(s, i, n)
      BY <2>2, <2>3 DEF EndsAt, n
    <2> QED BY <1>0, <1>1, <2>1, <2>4
  <1>6. CASE f # 0
    <2> HIDE DEF f
    <2>1. /\ f \in 1..(Len(t) - 1) /\ t[f] = "CR" /\ t[f + 1] = "LF"
          /\ \A j \in 1..(f - 1) : ~(t[j] = "CR" /\ t[j + 1] = "LF")
      BY <1>3, <1>6 DEF Finds
    <2> DEFINE m == i + f - 2
    <2>2. /\ f \in Nat /\ f >= 1 /\ f <= n - i /\ m \in Nat /\ m \in (i - 1)..n
          /\ m + 2 <= n /\ i + (f - 1) - 1 = m /\ i + 1 - 1 = i
          /\ 1 \in 1..(Len(t) + 1) /\ f - 1 \in (1 - 1)..Len(t)
          /\ 1 \in Nat \ {0} /\ f - 1 \in Int /\ f - 1 >= 1 - 1 /\ f - 1 <= n - i + 1
          /\ n >= i - 1 /\ i \in Nat \ {0} /\ n \in Int
      BY <1>0, <1>2, <2>1
    <2>3. Line(s, i) = SubSeq(t, 1, f - 1)
      BY <1>6 DEF Line, Before, t, f
    <2>4. IsPart(SubSeq(t, 1, f - 1), t, 1, f - 1)
      BY <1>2, <2>2, PartIs
    <2>5. IsPart(SubSeq(t, 1, f - 1), s, i + 1 - 1, i + (f - 1) - 1)
      <3> HIDE DEF m
      <3> DEFINE b == f - 1
      <3>1. b \in Int /\ b >= 1 - 1 /\ b <= n - i + 1 /\ IsPart(SubSeq(t, 1, b), t, 1, b)
        BY <2>2, <2>4
      <3> HIDE DEF b
      <3>2. IsPart(SubSeq(t, 1, b), s, i + 1 - 1, i + b - 1)
        BY <1>1, <2>2, <3>1, PartOfPart
      <3> QED BY <3>2 DEF b
    <2>6. IsPart(Line(s, i), s, i, m)
      BY <2>2, <2>3, <2>5
    <2>7. s[m + 1] = "CR" /\ s[m + 2] = "LF"
      <3>1. m + 1 \in i..(n - 1) /\ (m + 1) - i + 1 = f /\ (m + 1) + 1 = m + 2
        BY <1>0, <2>2
      <3>2. t[f] = s[m + 1] /\ t[f + 1] = s[(m + 1) + 1]
        BY <1>4, <3>1
      <3> QED BY <2>1, <3>1, <3>2
    <2>8. ASSUME NEW k \in i..m, k < n PROVE ~(s[k] = "CR" /\ s[k + 1] = "LF")
      <3>1. k \in i..(n - 1) /\ k - i + 1 \in 1..(f - 1)
        BY <1>0, <2>2, <2>8
      <3>2. t[k - i + 1] = s[k] /\ t[(k - i + 1) + 1] = s[k + 1]
        BY <1>4, <3>1
      <3> QED BY <2>1, <3>1, <3>2
    <2> HIDE DEF m
    <2>9. EndsAt(s, i, m)
      BY <2>2, <2>7, <2>8 DEF EndsAt, n
    <2> QED BY <2>2, <2>6, <2>9
  <1> QED BY <1>5, <1>6

(* And one only.                                                           *)
LEMMA EndUnique ==
  ASSUME NEW s \in Seq(Symbol), NEW i \in 1..Len(s), NEW m \in Nat, NEW n \in Nat,
         EndsAt(s, i, m), EndsAt(s, i, n)
  PROVE  m = n
  <1>0. Len(s) \in Nat
    OBVIOUS
  <1>1. ASSUME NEW x \in Nat, NEW y \in Nat, EndsAt(s, i, x), EndsAt(s, i, y), x < y
        PROVE  FALSE
    <2>1. /\ x \in (i - 1)..Len(s) /\ y \in (i - 1)..Len(s)
          /\ x = Len(s) \/ (x + 2 <= Len(s) /\ s[x + 1] = "CR" /\ s[x + 2] = "LF")
          /\ \A k \in i..y : k < Len(s) => ~(s[k] = "CR" /\ s[k + 1] = "LF")
      BY <1>1 DEF EndsAt
    <2>2. x + 1 \in i..y /\ (x + 1) + 1 = x + 2 /\ x # Len(s)
      BY <1>0, <1>1, <2>1
    <2>3. x + 1 < Len(s)
      BY <1>0, <2>1, <2>2
    <2> QED BY <2>1, <2>2, <2>3
  <1>2. ~(m < n) /\ ~(n < m)
    BY <1>1
  <1> QED BY <1>2
-----------------------------------------------------------------------------
(* The header lines h end in CR LF, none is empty.                         *)
Lines(h) ==
  /\ h \in Seq(Symbol)
  /\ h # <<>> => Len(h) > 1 /\ <<h[Len(h) - 1], h[Len(h)]>> = CRLF
  /\ \A i \in LineBegins(h) : Line(h, i) # <<>>

(* s is what a read has of them and of the empty line after them.          *)
IsHead(s, h) ==
  /\ s \in Seq(Symbol)
  /\ \A k \in 1..Len(s) : /\ k <= Len(h) => s[k] = h[k]
                          /\ k = Len(h) + 1 => s[k] = "CR"
                          /\ k = Len(h) + 2 => s[k] = "LF"

(* Where lines begin.                                                      *)
LEMMA BeginsIs ==
  ASSUME NEW s \in Seq(Symbol), NEW i
  PROVE  i \in LineBegins(s) <=>
           /\ i \in 1..Len(s)
           /\ i = 1 \/ (i > 2 /\ s[i - 2] = "CR" /\ s[i - 1] = "LF")
  <1>1. <<s[i - 2], s[i - 1]>> = CRLF <=> s[i - 2] = "CR" /\ s[i - 1] = "LF"
    BY DEF CRLF
  <1>2. i \in LineBegins(s) <=>
          i \in 1..Len(s) /\ (i = 1 \/ (i > 2 /\ <<s[i - 2], s[i - 1]>> = CRLF))
    BY DEF LineBegins
  <1> QED BY <1>1, <1>2, Zenon

(* A read shows the lines that it has.                                     *)
LEMMA BeginsSame ==
  ASSUME NEW h \in Seq(Symbol), NEW s, IsHead(s, h), NEW i \in 1..Len(s), i <= Len(h)
  PROVE  i \in LineBegins(s) <=> i \in LineBegins(h)
  <1>0. s \in Seq(Symbol) /\ Len(s) \in Nat /\ Len(h) \in Nat
    BY DEF IsHead
  <1>1. i > 2 => s[i - 2] = h[i - 2] /\ s[i - 1] = h[i - 1]
    <2>1. i > 2 => /\ i - 2 \in 1..Len(s) /\ i - 1 \in 1..Len(s)
                   /\ i - 2 <= Len(h) /\ i - 1 <= Len(h)
      BY <1>0
    <2> QED BY <2>1 DEF IsHead
  <1>2. i \in 1..Len(h)
    BY <1>0
  <1> QED BY <1>0, <1>1, <1>2, BeginsIs

(* What a read has of a line: all of it, or as far as the read goes.       *)
LEMMA CutLine ==
  ASSUME NEW h, Lines(h), NEW s, IsHead(s, h),
         NEW i \in 1..Len(s), i \in LineBegins(h)
  PROVE  \E e, m \in Nat :
           /\ IsPart(Line(h, i), h, i, e) /\ IsPart(Line(s, i), s, i, m)
           /\ i - 1 <= e /\ e + 2 <= Len(h) /\ i - 1 <= m /\ m <= Len(s) /\ m <= e + 1
           /\ m = e + 1 => s[m] = "CR"
           /\ Len(s) >= e + 2 => m = e
           /\ \A k \in i..m : s[k] = h[k]
  <1>0. /\ s \in Seq(Symbol) /\ h \in Seq(Symbol) /\ Len(s) \in Nat /\ Len(h) \in Nat
        /\ i \in 1..Len(h)
    BY BeginsIs DEF IsHead, Lines
  <1>1. PICK e \in Nat : EndsAt(h, i, e) /\ IsPart(Line(h, i), h, i, e)
    BY <1>0, LineIs
  <1>2. PICK m \in Nat : EndsAt(s, i, m) /\ IsPart(Line(s, i), s, i, m)
    BY <1>0, LineIs
  <1>3. /\ e \in (i - 1)..Len(h)
        /\ \A k \in i..e : k < Len(h) => ~(h[k] = "CR" /\ h[k + 1] = "LF")
        /\ e = Len(h) \/ (e + 2 <= Len(h) /\ h[e + 1] = "CR" /\ h[e + 2] = "LF")
    BY <1>1 DEF EndsAt
  <1>4. e # Len(h)
    <2>1. /\ Len(h) > 1 /\ h[Len(h) - 1] = "CR" /\ h[Len(h)] = "LF"
      <3>1. h # <<>>
        BY <1>0
      <3>2. \A x, y : <<x, y>> = CRLF => x = "CR" /\ y = "LF"
        BY DEF CRLF
      <3> QED BY <3>1, <3>2 DEF Lines
    <2>2. i # Len(h)
      <3>1. ASSUME i = Len(h) PROVE FALSE
        <4>1. i > 2 /\ h[i - 1] = "LF"
          BY <1>0, <2>1, <3>1, BeginsIs
        <4> QED BY <2>1, <3>1, <4>1
      <3> QED BY <3>1
    <2>3. Len(h) - 1 \in i..Len(h) /\ Len(h) - 1 < Len(h) /\ (Len(h) - 1) + 1 = Len(h)
      BY <1>0, <2>1, <2>2
    <2> QED BY <1>3, <2>1, <2>3
  <1>5. e + 2 <= Len(h) /\ h[e + 1] = "CR" /\ h[e + 2] = "LF"
    BY <1>3, <1>4
  <1>6. \A k \in 1..Len(s) : k <= Len(h) => s[k] = h[k]
    BY DEF IsHead
  <1>7. CASE Len(s) >= e + 2
    <2>1. /\ e \in (i - 1)..Len(s) /\ e + 1 \in 1..Len(s) /\ e + 2 \in 1..Len(s)
          /\ e + 1 <= Len(h) /\ e + 2 <= Len(h)
          /\ \A k \in i..e : k \in 1..Len(s) /\ k + 1 \in 1..Len(s) /\ k <= Len(h)
                             /\ k + 1 <= Len(h) /\ k < Len(h)
      BY <1>0, <1>3, <1>5, <1>7
    <2>2. s[e + 1] = "CR" /\ s[e + 2] = "LF"
      BY <1>5, <1>6, <2>1
    <2>3. \A k \in i..e : ~(s[k] = "CR" /\ s[k + 1] = "LF")
      BY <1>3, <1>6, <2>1
    <2>4. EndsAt(s, i, e)
      BY <1>7, <2>1, <2>2, <2>3 DEF EndsAt
    <2>5. m = e
      BY <1>0, <1>2, <2>4, EndUnique
    <2>6. \A k \in i..m : s[k] = h[k]
      BY <1>6, <2>1, <2>5
    <2>7. i - 1 <= e /\ m <= Len(s) /\ m <= e + 1 /\ m # e + 1
      BY <1>0, <1>3, <1>7, <2>5
    <2> QED BY <1>1, <1>2, <1>5, <2>5, <2>6, <2>7
  <1>8. CASE ~(Len(s) >= e + 2)
    <2>1. /\ Len(s) <= e + 1 /\ Len(s) \in (i - 1)..Len(s) /\ Len(s) >= i - 1
          /\ i - 1 <= e
          /\ \A k \in i..Len(s) : k \in 1..Len(s) /\ k <= Len(h)
          /\ \A k \in i..Len(s) : k < Len(s) =>
               k + 1 \in 1..Len(s) /\ k + 1 <= Len(h) /\ k \in i..e /\ k < Len(h)
      BY <1>0, <1>3, <1>5, <1>8
    <2>2. \A k \in i..Len(s) : k < Len(s) => ~(s[k] = "CR" /\ s[k + 1] = "LF")
      BY <1>3, <1>6, <2>1
    <2>3. EndsAt(s, i, Len(s))
      BY <2>1, <2>2 DEF EndsAt
    <2>4. m = Len(s)
      BY <1>0, <1>2, <2>3, EndUnique
    <2>5. \A k \in i..m : s[k] = h[k]
      BY <1>6, <2>1, <2>4
    <2>6. m = e + 1 => s[m] = "CR"
      <3>1. m = e + 1 => m \in 1..Len(s) /\ m <= Len(h)
        BY <1>0, <1>5, <2>4
      <3> QED BY <1>5, <1>6, <3>1
    <2>7. m <= e + 1 /\ i - 1 <= m /\ m <= Len(s)
      BY <1>0, <2>1, <2>4
    <2> QED BY <1>1, <1>2, <1>5, <1>8, <2>1, <2>5, <2>6, <2>7
  <1> QED BY <1>7, <1>8

(* parse_request_headers does not look past the empty line.                *)
LEMMA HeadEnds ==
  ASSUME NEW h, Lines(h), NEW s, IsHead(s, h), NEW i \in Headers(s)
  PROVE  i \in 1..Len(s) /\ i <= Len(h) /\ i \in LineBegins(h)
  <1>0. /\ s \in Seq(Symbol) /\ h \in Seq(Symbol) /\ Len(s) \in Nat /\ Len(h) \in Nat
        /\ i \in LineBegins(s) /\ i \in 1..Len(s)
        /\ \A j \in LineBegins(s) : j <= i => Line(s, j) # <<>>
        /\ Find(Line(s, i), <<":">>) # 0
    BY BeginsIs DEF IsHead, Lines, Headers
  <1>1. ASSUME i > Len(h) PROVE FALSE
    <2> DEFINE b == Len(h) + 1
    <2>1. b \in 1..Len(s) /\ b <= i /\ s[b] = "CR"
      BY <1>0, <1>1 DEF IsHead
    <2>2. b \in LineBegins(s)
      <3>1. CASE Len(h) = 0
        BY <1>0, <2>1, <3>1, BeginsIs
      <3>2. CASE Len(h) # 0
        <4>1. Len(h) > 1 /\ h[Len(h) - 1] = "CR" /\ h[Len(h)] = "LF"
          <5>1. h # <<>>
            BY <1>0, <3>2
          <5>2. \A x, y : <<x, y>> = CRLF => x = "CR" /\ y = "LF"
            BY DEF CRLF
          <5> QED BY <5>1, <5>2 DEF Lines
        <4>2. /\ Len(h) - 1 \in 1..Len(s) /\ Len(h) \in 1..Len(s) /\ Len(h) - 1 <= Len(h)
              /\ b - 2 = Len(h) - 1 /\ b - 1 = Len(h) /\ b > 2
          BY <1>0, <2>1, <4>1
        <4>3. s[b - 2] = "CR" /\ s[b - 1] = "LF"
          BY <1>0, <4>1, <4>2 DEF IsHead
        <4> QED BY <1>0, <2>1, <4>2, <4>3, BeginsIs
      <3> QED BY <3>1, <3>2
    <2> HIDE DEF b
    <2>3. PICK m \in Nat : EndsAt(s, b, m) /\ IsPart(Line(s, b), s, b, m)
      BY <1>0, <2>1, LineIs
    <2>4. Line(s, b) # <<>>
      BY <1>0, <2>1, <2>2
    <2>5. Len(s) < Len(h) + 2
      <3>1. ASSUME Len(s) >= Len(h) + 2 PROVE FALSE
        <4>1. b + 1 = Len(h) + 2 /\ b + 1 \in 1..Len(s) /\ b < Len(s)
          BY <1>0, <3>1 DEF b
        <4>2. s[b + 1] = "LF"
          BY <4>1 DEF IsHead
        <4>3. m \in (b - 1)..Len(s) /\ ~(b \in b..m)
          BY <2>1, <2>3, <4>1, <4>2 DEF EndsAt
        <4>4. m = b - 1
          BY <1>0, <2>1, <4>3
        <4>5. Line(s, b) \in Seq(Symbol) /\ Len(Line(s, b)) = m - b + 1
          BY <2>3 DEF IsPart
        <4>6. Len(Line(s, b)) = 0
          BY <1>0, <2>1, <4>4, <4>5
        <4> QED BY <2>4, <4>5, <4>6
      <3> QED BY <1>0, <3>1
    <2>6. i = b /\ Len(s) = b
      BY <1>0, <1>1, <2>1, <2>5 DEF b
    <2>7. m \in (b - 1)..b
      BY <2>3, <2>6 DEF EndsAt
    <2> DEFINE l == Line(s, b)
    <2>8. /\ l \in Seq(Symbol) /\ Len(l) = m - b + 1
          /\ \A k \in 1..(m - b + 1) : l[k] = s[b + k - 1]
      BY <2>3 DEF IsPart
    <2> HIDE DEF l
    <2>9. ASSUME NEW k \in 1..Len(l) PROVE l[k] # ":"
      <3>1. k = 1 /\ k \in 1..(m - b + 1) /\ b + k - 1 = b
        BY <1>0, <2>1, <2>7, <2>8
      <3> QED BY <2>1, <2>8, <3>1
    <2>10. FindsOne(Find(l, <<":">>), l, ":") /\ Find(l, <<":">>) # 0
      <3>1. ":" \in Symbol
        BY DEF Symbol
      <3> QED BY <1>0, <2>6, <2>8, <3>1, FindOneIs DEF l
    <2> QED BY <2>9, <2>10 DEF FindsOne
  <1>2. i <= Len(h)
    BY <1>0, <1>1
  <1> QED BY <1>0, <1>2, BeginsSame

TraceparentNames == {"traceparent", "Traceparent"}

(* Which lines are taken for a traceparent.                                *)
LEMMA KeyIs ==
  ASSUME NEW l \in Seq(Symbol)
  PROVE  /\ (Find(l, <<":">>) # 0 /\ Key(l) = <<"traceparent">>) <=>
              (Len(l) >= 2 /\ l[1] \in TraceparentNames /\ l[2] = ":")
         /\ Find(l, <<":">>) # 0 /\ Key(l) = <<"traceparent">> => Find(l, <<":">>) = 2
  <1> DEFINE f == Find(l, <<":">>)
             p == SubSeq(l, 1, f - 1)
  <1>0. Len(l) \in Nat
    OBVIOUS
  <1>1. FindsOne(f, l, ":")
    <2>1. ":" \in Symbol
      BY DEF Symbol
    <2> QED BY <2>1, FindOneIs
  <1>2. f # 0 => Before(l, <<":">>) = p
    BY DEF Before
  <1> HIDE DEF f
  <1>3. ASSUME f # 0
        PROVE  /\ f \in 1..Len(l) /\ l[f] = ":" /\ p \in Seq(Symbol) /\ Len(p) = f - 1
               /\ \A k \in 1..(f - 1) : p[k] = l[k] /\ l[k] # ":"
    <2>1. f \in 1..Len(l) /\ l[f] = ":" /\ \A k \in 1..(f - 1) : l[k] # ":"
      BY <1>1, <1>3 DEF FindsOne
    <2>2. /\ 1 \in 1..(Len(l) + 1) /\ f - 1 \in (1 - 1)..Len(l)
          /\ (f - 1) - 1 + 1 = f - 1 /\ \A k \in 1..(f - 1) : 1 + k - 1 = k
      BY <1>0, <2>1
    <2>3. IsPart(p, l, 1, f - 1)
      BY <2>2, PartIs
    <2> HIDE DEF p
    <2> QED BY <2>1, <2>2, <2>3 DEF IsPart
  <1> HIDE DEF p
  <1>4. f # 0 => (Key(l) = <<"traceparent">> <=>
                    p = <<"traceparent">> \/ p = <<"Traceparent">>)
    BY <1>2 DEF Key, LowerCase
  <1>5. ASSUME f # 0, Key(l) = <<"traceparent">>
        PROVE  f = 2 /\ Len(l) >= 2 /\ l[1] \in TraceparentNames /\ l[2] = ":"
    <2>1. p = <<"traceparent">> \/ p = <<"Traceparent">>
      BY <1>4, <1>5
    <2>2. Len(p) = 1 /\ p[1] \in TraceparentNames
      BY <2>1 DEF TraceparentNames
    <2>3. f = 2 /\ 1 \in 1..(f - 1)
      BY <1>3, <1>5, <2>2
    <2> QED BY <1>0, <1>3, <1>5, <2>2, <2>3
  <1>6. ASSUME Len(l) >= 2, l[1] \in TraceparentNames, l[2] = ":"
        PROVE  f # 0 /\ Key(l) = <<"traceparent">>
    <2>1. 1 \in 1..Len(l) /\ 2 \in 1..Len(l) /\ l[1] # ":"
      BY <1>0, <1>6 DEF TraceparentNames
    <2>2. f # 0
      BY <1>1, <1>6, <2>1 DEF FindsOne
    <2>3. f = 2
      <3>1. f # 1
        BY <1>3, <2>1, <2>2
      <3>2. ~(f > 2)
        <4>1. f > 2 => 2 \in 1..(f - 1)
          BY <1>3, <2>2
        <4> QED BY <1>3, <1>6, <2>2, <4>1
      <3> QED BY <1>0, <1>3, <2>2, <3>1, <3>2
    <2>4. Len(p) = 1 /\ p[1] = l[1] /\ p \in Seq(Symbol)
      BY <1>3, <2>2, <2>3
    <2>5. p = <<p[1]>>
      BY <2>4
    <2>6. p = <<"traceparent">> \/ p = <<"Traceparent">>
      BY <1>6, <2>4, <2>5 DEF TraceparentNames
    <2> QED BY <1>4, <2>2, <2>6
  <1> QED BY <1>5, <1>6 DEF f

(* The traceparent that parse_request_headers finds is one that was sent,  *)
(* and when the whole head has been read it is found.                      *)
LEMMA NamedIs ==
  ASSUME NEW h, Lines(h), NEW s, IsHead(s, h)
  PROVE  /\ \A i \in Named(s, <<"traceparent">>) :
              i \in Traceparents(h) /\ i \in 1..Len(s) /\ Find(Line(s, i), <<":">>) = 2
         /\ Len(s) >= Len(h) + 2 =>
              Traceparents(h) \subseteq Named(s, <<"traceparent">>)
  <1>0. /\ s \in Seq(Symbol) /\ h \in Seq(Symbol) /\ Len(s) \in Nat /\ Len(h) \in Nat
    BY DEF IsHead, Lines
  <1>1. ASSUME NEW i \in Named(s, <<"traceparent">>)
        PROVE  i \in Traceparents(h) /\ i \in 1..Len(s) /\ Find(Line(s, i), <<":">>) = 2
    <2>1. /\ i \in Headers(s) /\ Find(Line(s, i), <<":">>) # 0
          /\ Key(Line(s, i)) = <<"traceparent">>
      BY DEF Named, Headers
    <2>2. i \in 1..Len(s) /\ i \in LineBegins(h)
      BY <2>1, HeadEnds
    <2>3. PICK e \in Nat, m \in Nat :
            /\ IsPart(Line(s, i), s, i, m) /\ e + 2 <= Len(h)
            /\ i - 1 <= m /\ m <= Len(s) /\ m <= e + 1
            /\ \A k \in i..m : s[k] = h[k]
      BY <2>2, CutLine
    <2> DEFINE l == Line(s, i)
    <2>4. /\ l \in Seq(Symbol) /\ Len(l) = m - i + 1
          /\ \A k \in 1..(m - i + 1) : l[k] = s[i + k - 1]
      BY <2>3 DEF IsPart
    <2>5. /\ Len(l) >= 2 /\ l[1] \in TraceparentNames /\ l[2] = ":"
          /\ Find(l, <<":">>) = 2
      BY <2>1, <2>4, KeyIs
    <2> HIDE DEF l
    <2>6. /\ 1 \in 1..(m - i + 1) /\ 2 \in 1..(m - i + 1) /\ i + 1 - 1 = i
          /\ i + 2 - 1 = i + 1 /\ i \in i..m /\ i + 1 \in i..m /\ i < Len(h)
      BY <1>0, <2>2, <2>3, <2>4, <2>5
    <2>7. h[i] \in TraceparentNames /\ h[i + 1] = ":"
      BY <2>3, <2>4, <2>5, <2>6
    <2>8. i \in Traceparents(h)
      BY <2>2, <2>6, <2>7 DEF Traceparents, TraceparentNames
    <2> QED BY <2>2, <2>5, <2>8 DEF l
  <1>2. ASSUME Len(s) >= Len(h) + 2, NEW i \in Traceparents(h)
        PROVE  i \in Named(s, <<"traceparent">>)
    <2>1. /\ i \in LineBegins(h) /\ i \in 1..Len(h) /\ i < Len(h) /\ h[i + 1] = ":"
          /\ h[i] \in TraceparentNames
      BY <1>0, BeginsIs DEF Traceparents, TraceparentNames
    <2>2. ASSUME NEW j \in LineBegins(h)
          PROVE  /\ j \in 1..Len(s) /\ Line(s, j) = Line(h, j)
                 /\ \E e \in Nat : e + 2 <= Len(h) /\ IsPart(Line(h, j), h, j, e)
      <3>1. j \in 1..Len(h) /\ j \in 1..Len(s)
        BY <1>0, <1>2, BeginsIs
      <3>2. PICK e \in Nat, m \in Nat :
              /\ IsPart(Line(h, j), h, j, e) /\ IsPart(Line(s, j), s, j, m)
              /\ j - 1 <= e /\ e + 2 <= Len(h)
              /\ Len(s) >= e + 2 => m = e
              /\ \A k \in j..m : s[k] = h[k]
        BY <3>1, CutLine
      <3>3. m = e
        BY <1>0, <1>2, <3>2
      <3>4. \A k \in 1..(e - j + 1) : j + k - 1 \in j..m
        BY <3>1, <3>2, <3>3
      <3>5. IsPart(Line(s, j), h, j, e)
        BY <3>2, <3>3, <3>4 DEF IsPart
      <3>6. Line(s, j) = Line(h, j)
        BY <3>1, <3>2, <3>5, PartsEqual
      <3> QED BY <3>1, <3>2, <3>6
    <2>3. i \in 1..Len(s) /\ i \in LineBegins(s)
      BY <2>1, <2>2, BeginsSame, <1>0
    <2>4. ASSUME NEW j \in LineBegins(s), j <= i PROVE Line(s, j) # <<>>
      <3>1. j \in 1..Len(s) /\ j <= Len(h)
        BY <1>0, <2>1, <2>4, BeginsIs
      <3>2. j \in LineBegins(h)
        BY <1>0, <3>1, BeginsSame
      <3> QED BY <2>2, <3>2 DEF Lines
    <2>5. PICK e \in Nat : EndsAt(h, i, e) /\ IsPart(Line(h, i), h, i, e)
      BY <1>0, <2>1, LineIs
    <2> DEFINE l == Line(h, i)
    <2>6. /\ l \in Seq(Symbol) /\ Len(l) = e - i + 1
          /\ \A k \in 1..(e - i + 1) : l[k] = h[i + k - 1]
      BY <2>5 DEF IsPart
    <2>7. Line(s, i) = l
      BY <2>1, <2>2
    <2> HIDE DEF l
    <2>8. e >= i + 1
      <3>1. h[i] # "CR" /\ h[i + 1] # "CR"
        BY <2>1 DEF TraceparentNames
      <3>2. e \in (i - 1)..Len(h) /\ (e = Len(h) \/ h[e + 1] = "CR")
        BY <2>5 DEF EndsAt
      <3>3. (e + 1 # i /\ e + 1 # i + 1) \/ e = Len(h)
        BY <3>1, <3>2
      <3> QED BY <1>0, <2>1, <3>2, <3>3
    <2>9. /\ Len(l) >= 2 /\ 1 \in 1..(e - i + 1) /\ 2 \in 1..(e - i + 1)
          /\ i + 1 - 1 = i /\ i + 2 - 1 = i + 1
      BY <2>1, <2>6, <2>8
    <2>10. l[1] \in TraceparentNames /\ l[2] = ":"
      BY <2>1, <2>6, <2>9
    <2>11. Find(l, <<":">>) # 0 /\ Key(l) = <<"traceparent">>
      BY <2>6, <2>9, <2>10, KeyIs
    <2> QED BY <2>3, <2>4, <2>7, <2>11 DEF Named, Headers
  <1> QED BY <1>1, <1>2
-----------------------------------------------------------------------------
(* Values and the white space around them.                                 *)

(* y is s from p to m without the white space around it.                   *)
IsTrim(y, s, p, m) ==
  \/ y = <<>> /\ \A k \in p..m : s[k] \in White
  \/ \E a, b \in p..m :
       /\ a <= b /\ IsPart(y, s, a, b) /\ s[a] \notin White /\ s[b] \notin White
       /\ \A k \in p..m : s[k] \notin White => a <= k /\ k <= b

(* StringUtil::Trim cuts off the white space on both sides.                *)
LEMMA TrimmedIs ==
  ASSUME NEW x \in Seq(Symbol)
  PROVE  IsTrim(Trimmed(x), x, 1, Len(x))
  <1> DEFINE I == {i \in 1..Len(x) : x[i] \notin White}
             t == SkipWhite(x)
             J == {i \in 1..Len(t) : t[i] \notin White}
             j == IF J # {} THEN Max(J) ELSE 0
  <1>0. Len(x) \in Nat /\ I \in SUBSET Nat
    OBVIOUS
  <1>1. t = IF I = {} THEN <<>> ELSE From(x, Min(I))
    <2>1. SelectInSeq(x, LAMBDA e : e \notin White) = IF I # {} THEN Min(I) ELSE 0
      BY DEF SelectInSeq
    <2>2. ASSUME I # {} PROVE Min(I) # 0
      <3>1. PICK k \in I : \A i \in I : k <= i
        BY <1>0, <2>2, LeastNumber
      <3>2. I \subseteq Nat /\ k # 0
        BY <3>1
      <3>3. Min(I) = k
        BY <3>1, <3>2, MinIs
      <3> QED BY <3>2, <3>3
    <2> HIDE DEF I
    <2> QED BY <2>1, <2>2 DEF SkipWhite
  <1>2. Trimmed(x) = SubSeq(t, 1, j)
    <2>1. SelectLastInSeq(t, LAMBDA e : e \notin White) = j
      BY DEF SelectLastInSeq
    <2> HIDE DEF j, t
    <2> QED BY <2>1 DEF Trimmed, t
  <1>3. CASE I = {}
    <2>1. t = <<>> /\ Len(t) = 0
      BY <1>1, <1>3
    <2>2. J = {}
      <3> HIDE DEF t
      <3> QED BY <2>1
    <2>3. j = 0
      BY <2>2
    <2>4. SubSeq(<<>>, 1, 0) = <<>>
      OBVIOUS
    <2>5. Trimmed(x) = <<>>
      BY <1>2, <2>1, <2>3, <2>4, Zenon
    <2> QED BY <1>3, <2>5 DEF IsTrim
  <1>4. CASE I # {}
    <2>1. PICK a \in I : \A i \in I : a <= i
      BY <1>0, <1>4, LeastNumber
    <2>2. t = SubSeq(x, a, Len(x))
      <3>1. Min(I) = a
        BY <1>0, <2>1, MinIs
      <3> HIDE DEF I, t
      <3> QED BY <1>1, <1>4, <3>1 DEF From
    <2>3. /\ a \in 1..(Len(x) + 1) /\ Len(x) \in (a - 1)..Len(x) /\ a \in Nat \ {0}
          /\ a <= Len(x) /\ x[a] \notin White
      BY <1>0, <2>1
    <2>4. IsPart(t, x, a, Len(x))
      BY <2>2, <2>3, PartIs
    <2> HIDE DEF t
    <2>5. /\ t \in Seq(Symbol) /\ Len(t) = Len(x) - a + 1
          /\ \A k \in 1..(Len(x) - a + 1) : t[k] = x[a + k - 1]
      BY <2>4 DEF IsPart
    <2>6. 1 \in J
      <3>1. 1 \in 1..(Len(x) - a + 1) /\ a + 1 - 1 = a
        BY <1>0, <2>3
      <3> QED BY <2>3, <2>5, <3>1
    <2>7. J \in SUBSET Nat /\ Len(t) \in Nat /\ \A k \in J : k <= Len(t)
      OBVIOUS
    <2>8. PICK z \in J : \A k \in J : k <= z
      BY <2>6, <2>7, GreatestNumber
    <2>9. j = z
      <3>1. Max(J) = z
        BY <2>7, <2>8, MaxIs
      <3> HIDE DEF J
      <3> QED BY <2>6, <3>1
    <2>10. z \in 1..Len(t) /\ t[z] \notin White
      BY <2>8
    <2> HIDE DEF j, J
    <2> DEFINE b == a + z - 1
    <2>11. /\ 1 \in Nat \ {0} /\ z \in Int /\ z >= 1 - 1 /\ z <= Len(x) - a + 1
           /\ Len(x) \in Int /\ Len(x) >= a - 1 /\ a + 1 - 1 = a
           /\ 1 \in 1..(Len(t) + 1) /\ z \in (1 - 1)..Len(t)
           /\ a \in 1..Len(x) /\ b \in 1..Len(x) /\ a <= b
           /\ z \in 1..(Len(x) - a + 1)
      BY <1>0, <2>3, <2>5, <2>10
    <2>12. IsPart(SubSeq(t, 1, z), t, 1, z)
      BY <2>5, <2>11, PartIs
    <2>13. IsPart(SubSeq(t, 1, z), x, a + 1 - 1, a + z - 1)
      BY <2>3, <2>4, <2>11, <2>12, PartOfPart
    <2>14. IsPart(Trimmed(x), x, a, b) /\ x[b] \notin White
      BY <1>2, <2>5, <2>9, <2>10, <2>11, <2>13
    <2>15. ASSUME NEW k \in 1..Len(x), x[k] \notin White PROVE a <= k /\ k <= b
      <3>1. a <= k
        BY <2>1, <2>15
      <3>2. /\ k - a + 1 \in 1..(Len(x) - a + 1) /\ a + (k - a + 1) - 1 = k
        BY <1>0, <2>3, <3>1
      <3>3. k - a + 1 \in J
        BY <2>5, <2>15, <3>2 DEF J
      <3>4. k - a + 1 <= z
        BY <2>8, <3>3
      <3> QED BY <2>3, <2>11, <3>1, <3>4
    <2> HIDE DEF b
    <2> QED BY <2>3, <2>11, <2>14, <2>15 DEF IsTrim
  <1> QED BY <1>3, <1>4

(* What is trimmed may be a part of a longer text.                         *)
LEMMA TrimOfPart ==
  ASSUME NEW s, NEW x, NEW y, NEW p \in Nat \ {0}, NEW m \in Int, m >= p - 1,
         IsPart(x, s, p, m), IsTrim(y, x, 1, Len(x))
  PROVE  IsTrim(y, s, p, m)
  <1>1. /\ x \in Seq(Symbol) /\ Len(x) = m - p + 1
        /\ \A k \in 1..(m - p + 1) : x[k] = s[p + k - 1]
    BY DEF IsPart
  <1>2. ASSUME NEW k \in p..m
        PROVE  k - p + 1 \in 1..Len(x) /\ x[k - p + 1] = s[k]
    <2>1. k - p + 1 \in 1..(m - p + 1) /\ p + (k - p + 1) - 1 = k
      OBVIOUS
    <2> QED BY <1>1, <2>1
  <1>3. CASE y = <<>> /\ \A k \in 1..Len(x) : x[k] \in White
    BY <1>2, <1>3 DEF IsTrim
  <1>4. CASE \E a, b \in 1..Len(x) :
               /\ a <= b /\ IsPart(y, x, a, b) /\ x[a] \notin White /\ x[b] \notin White
               /\ \A k \in 1..Len(x) : x[k] \notin White => a <= k /\ k <= b
    <2>1. PICK a \in 1..Len(x), b \in 1..Len(x) :
            /\ a <= b /\ IsPart(y, x, a, b) /\ x[a] \notin White /\ x[b] \notin White
            /\ \A k \in 1..Len(x) : x[k] \notin White => a <= k /\ k <= b
      BY <1>4
    <2> DEFINE c == p + a - 1
               d == p + b - 1
    <2>2. /\ a \in Nat \ {0} /\ b \in Int /\ b >= a - 1 /\ b <= m - p + 1
          /\ a \in 1..(m - p + 1) /\ b \in 1..(m - p + 1)
          /\ c \in p..m /\ d \in p..m /\ c <= d
      BY <1>1, <2>1
    <2>3. IsPart(y, s, c, d)
      BY <2>1, <2>2, PartOfPart
    <2>4. s[c] \notin White /\ s[d] \notin White
      BY <1>1, <2>1, <2>2
    <2>5. ASSUME NEW k \in p..m, s[k] \notin White PROVE c <= k /\ k <= d
      <3>1. a <= k - p + 1 /\ k - p + 1 <= b
        BY <1>2, <2>1, <2>5
      <3> QED BY <2>2, <3>1
    <2> HIDE DEF c, d
    <2> QED BY <2>2, <2>3, <2>4, <2>5 DEF IsTrim
  <1> QED BY <1>3, <1>4 DEF IsTrim

(* What comes after the colon of a traceparent.                            *)
LEMMA AfterColon ==
  ASSUME NEW s, NEW l, NEW i \in Nat \ {0}, NEW m \in Int, m >= i + 1,
         IsPart(l, s, i, m)
  PROVE  IsPart(From(l, 3), s, i + 2, m)
  <1> DEFINE v == From(l, 3)
             n == Len(l)
  <1>1. l \in Seq(Symbol) /\ n = m - i + 1 /\ n >= 2 /\ n \in Nat
    BY DEF IsPart
  <1>2. /\ 3 \in 1..(n + 1) /\ n \in (3 - 1)..n /\ 3 \in Nat \ {0} /\ n \in Int
        /\ n >= 3 - 1 /\ n <= m - i + 1 /\ i + 3 - 1 = i + 2 /\ i + n - 1 = m
        /\ m >= i - 1
    BY <1>1
  <1>3. IsPart(v, l, 3, n)
    BY <1>1, <1>2, PartIs DEF From
  <1> HIDE DEF v, n
  <1>4. IsPart(v, s, i + 3 - 1, i + n - 1)
    BY <1>2, <1>3, PartOfPart
  <1> QED BY <1>2, <1>4 DEF v

(* The spaces that parse_request_headers skips are white space.            *)
LEMMA ValueIs ==
  ASSUME NEW s, NEW l, NEW i \in Nat \ {0}, NEW m \in Int, m >= i + 1,
         IsPart(l, s, i, m), Find(l, <<":">>) = 2
  PROVE  /\ Value(l) \in Seq(Symbol)
         /\ IsTrim(Trimmed(Value(l)), s, i + 2, m)
  <1> DEFINE v == From(l, 3)
             t == Trim(v)
             p == i + 2
             I == {k \in 1..Len(v) : v[k] # "SP"}
  <1>1. IsPart(v, s, i + 2, m)
    BY AfterColon
  <1>2. Value(l) = t
    BY DEF Value
  <1>3. t = IF I = {} THEN <<>> ELSE From(v, Min(I))
    <2>1. SelectInSeq(v, LAMBDA e : e # "SP") = IF I # {} THEN Min(I) ELSE 0
      BY DEF SelectInSeq
    <2>2. ASSUME I # {} PROVE Min(I) # 0
      <3>0. I \in SUBSET Nat
        OBVIOUS
      <3>1. PICK k \in I : \A j \in I : k <= j
        BY <2>2, <3>0, LeastNumber
      <3>2. I \subseteq Nat /\ k # 0
        BY <3>1
      <3>3. Min(I) = k
        BY <3>1, <3>2, MinIs
      <3> QED BY <3>2, <3>3
    <2> HIDE DEF I, v
    <2> QED BY <2>1, <2>2 DEF Trim
  <1> HIDE DEF v, t
  <1>4. /\ p \in Nat \ {0} /\ m >= p - 1 /\ v \in Seq(Symbol) /\ Len(v) = m - p + 1
        /\ \A k \in 1..(m - p + 1) : v[k] = s[p + k - 1]
    BY <1>1 DEF IsPart
  <1>5. CASE I = {}
    <2>1. t = <<>>
      BY <1>3, <1>5
    <2>2. ASSUME NEW k \in p..m PROVE s[k] \in White
      <3>1. k - p + 1 \in 1..(m - p + 1) /\ p + (k - p + 1) - 1 = k
        BY <1>4
      <3>2. v[k - p + 1] = s[k] /\ k - p + 1 \in 1..Len(v)
        BY <1>4, <3>1
      <3>3. s[k] = "SP"
        BY <1>5, <3>2
      <3> QED BY <3>3 DEF White
    <2>3. <<>> \in Seq(Symbol) /\ Len(<<>>) = 0
      OBVIOUS
    <2>4. IsTrim(Trimmed(<<>>), <<>>, 1, 0)
      BY <2>3, TrimmedIs
    <2>5. Trimmed(<<>>) = <<>>
      <3>1. ~ \E a, b \in 1..0 : TRUE
        OBVIOUS
      <3> QED BY <2>4, <3>1, Zenon DEF IsTrim
    <2> QED BY <1>2, <2>1, <2>2, <2>3, <2>5 DEF IsTrim
  <1>6. CASE I # {}
    <2>0. I \in SUBSET Nat /\ I \subseteq Nat
      OBVIOUS
    <2>1. PICK a \in I : \A j \in I : a <= j
      BY <1>6, <2>0, LeastNumber
    <2>2. Min(I) = a
      BY <2>0, <2>1, MinIs
    <2>3. a \in 1..Len(v) /\ \A k \in 1..Len(v) : k < a => v[k] = "SP"
      BY <2>1
    <2> HIDE DEF I
    <2>4. t = SubSeq(v, a, Len(v))
      BY <1>3, <1>6, <2>2 DEF From
    <2> DEFINE n == Len(v)
               q == p + a - 1
    <2>5. /\ n \in Int /\ n \in Nat /\ a \in 1..(n + 1) /\ n \in (a - 1)..n
          /\ a \in Nat \ {0} /\ n >= a - 1 /\ n <= m - p + 1 /\ m \in Int
          /\ p + n - 1 = m /\ q \in Nat \ {0} /\ m >= q - 1 /\ q >= p /\ q <= m
      BY <1>4, <2>3
    <2>6. IsPart(t, v, a, n)
      BY <1>4, <2>4, <2>5, PartIs
    <2>7. IsPart(t, s, q, p + n - 1)
      <3> HIDE DEF n, p
      <3> QED BY <1>1, <1>4, <2>5, <2>6, PartOfPart DEF p
    <2>8. IsPart(t, s, q, m)
      BY <2>5, <2>7
    <2>9. t \in Seq(Symbol)
      BY <2>6 DEF IsPart
    <2>10. IsTrim(Trimmed(t), s, q, m)
      <3> HIDE DEF n, q, p
      <3> QED BY <2>5, <2>8, <2>9, TrimmedIs, TrimOfPart
    <2>11. ASSUME NEW k \in p..m, k < q PROVE s[k] \in White
      <3>1. /\ k - p + 1 \in 1..(m - p + 1) /\ p + (k - p + 1) - 1 = k /\ k - p + 1 < a
        BY <1>4, <2>3, <2>11
      <3>2. v[k - p + 1] = s[k] /\ k - p + 1 \in 1..Len(v)
        BY <1>4, <3>1
      <3>3. s[k] = "SP"
        BY <2>3, <3>1, <3>2
      <3> QED BY <3>3 DEF White
    <2>12. /\ \A k \in q..m : k \in p..m
           /\ \A k \in p..m : k < q \/ k \in q..m
      BY <2>5, <1>4
    <2> HIDE DEF p, q
    <2>13. IsTrim(Trimmed(t), s, p, m)
      <3>1. CASE Trimmed(t) = <<>> /\ \A k \in q..m : s[k] \in White
        BY <2>11, <2>12, <3>1 DEF IsTrim
      <3>2. ASSUME NEW c \in q..m, NEW d \in q..m,
                   c <= d, IsPart(Trimmed(t), s, c, d), s[c] \notin White,
                   s[d] \notin White,
                   \A k \in q..m : s[k] \notin White => c <= k /\ k <= d
            PROVE  IsTrim(Trimmed(t), s, p, m)
        <4>1. c \in p..m /\ d \in p..m
          BY <2>12
        <4>2. \A k \in p..m : s[k] \notin White => c <= k /\ k <= d
          BY <2>11, <2>12, <3>2
        <4> QED BY <3>2, <4>1, <4>2 DEF IsTrim
      <3> QED BY <2>10, <3>1, <3>2 DEF IsTrim
    <2> QED BY <1>2, <2>9, <2>13 DEF p
  <1> QED BY <1>5, <1>6

(* s has what h has from p to e, as far as m; it may end between CR and LF. *)
CutAt(s, h, p, m, e) ==
  /\ p \in Nat \ {0} /\ m \in Int /\ e \in Int /\ m <= e + 1
  /\ m = e + 1 => s[m] \in White
  /\ \A k \in p..m : s[k] = h[k]

BeginningOf(y, z) == \E n \in 0..Len(z) : y = SubSeq(z, 1, n)

(* A value that is cut is the beginning of the value that was sent.        *)
LEMMA CutValue ==
  ASSUME NEW s, NEW h, NEW p, NEW m, NEW e, CutAt(s, h, p, m, e)
  PROVE  \A y, z : IsTrim(y, s, p, m) /\ IsTrim(z, h, p, e) /\ z \in Seq(Symbol) =>
           BeginningOf(y, z) /\ (m = e => y = z)
  <1> SUFFICES ASSUME NEW y, NEW z, IsTrim(y, s, p, m), IsTrim(z, h, p, e),
                      z \in Seq(Symbol)
               PROVE  /\ \E n \in 0..Len(z) : y = SubSeq(z, 1, n)
                      /\ m = e => y = z
    BY DEF BeginningOf
  <1>0. Len(z) \in Nat
    OBVIOUS
  <1> USE DEF CutAt
  <1>1. CASE y = <<>> /\ \A k \in p..m : s[k] \in White
    <2>1. SubSeq(z, 1, 0) = <<>> /\ 0 \in 0..Len(z)
      BY <1>0
    <2>2. ASSUME m = e PROVE z = <<>>
      <3>1. \A k \in p..e : h[k] \in White
        BY <1>1, <2>2
      <3> QED BY <3>1, Zenon DEF IsTrim
    <2> QED BY <1>1, <2>1, <2>2
  <1>2. ASSUME NEW a \in p..m, NEW b \in p..m,
               a <= b, IsPart(y, s, a, b), s[a] \notin White, s[b] \notin White,
               \A k \in p..m : s[k] \notin White => a <= k /\ k <= b
        PROVE  /\ \E n \in 0..Len(z) : y = SubSeq(z, 1, n)
               /\ m = e => y = z
    <2>1. /\ a # e + 1 /\ b # e + 1
      BY <1>2
    <2>2. /\ a \in p..e /\ b \in p..e /\ h[a] = s[a] /\ h[b] = s[b]
      BY <1>2, <2>1
    <2>3. PICK c \in p..e, d \in p..e :
            /\ c <= d /\ IsPart(z, h, c, d) /\ h[c] \notin White /\ h[d] \notin White
            /\ \A k \in p..e : h[k] \notin White => c <= k /\ k <= d
      BY <1>2, <2>2 DEF IsTrim
    <2>4. c <= a /\ b <= d /\ a \in Nat \ {0} /\ b \in Nat /\ c \in Nat /\ d \in Nat
      BY <1>2, <2>2, <2>3
    <2>5. a = c
      <3>1. c \in p..m /\ s[c] = h[c]
        BY <1>2, <2>3, <2>4
      <3>2. a <= c
        BY <1>2, <2>3, <3>1
      <3> QED BY <2>4, <3>2
    <2>6. /\ z \in Seq(Symbol) /\ Len(z) = d - a + 1
          /\ \A k \in 1..(d - a + 1) : z[k] = h[a + k - 1]
      BY <2>3, <2>5 DEF IsPart
    <2>7. /\ y \in Seq(Symbol) /\ Len(y) = b - a + 1
          /\ \A k \in 1..(b - a + 1) : y[k] = s[a + k - 1]
      BY <1>2 DEF IsPart
    <2> DEFINE n == b - a + 1
    <2>8. /\ n \in 0..Len(z) /\ 1 \in 1..(Len(z) + 1) /\ n \in (1 - 1)..Len(z)
          /\ n - 1 + 1 = n /\ 1 \in Nat
          /\ \A k \in 1..n : 1 + k - 1 = k /\ k \in 1..(d - a + 1) /\ a + k - 1 \in p..m
      BY <1>2, <2>4, <2>6
    <2>9. IsPart(y, z, 1, n)
      BY <2>6, <2>7, <2>8 DEF IsPart
    <2>10. IsPart(SubSeq(z, 1, n), z, 1, n)
      BY <2>6, <2>8, PartIs
    <2>11. y = SubSeq(z, 1, n)
      <3> HIDE DEF n
      <3>1. n \in Int
        BY <2>8
      <3> QED BY <2>8, <2>9, <2>10, <3>1, PartsEqual
    <2>12. ASSUME m = e PROVE y = z
      <3>1. d \in p..m /\ s[d] = h[d]
        BY <2>3, <2>12
      <3>2. d <= b
        BY <1>2, <2>3, <3>1
      <3>3. b = d
        BY <2>4, <3>2
      <3>4. Len(y) = Len(z) /\ \A k \in 1..Len(y) : y[k] = z[k]
        BY <2>6, <2>7, <2>8, <3>3
      <3> QED BY <2>6, <2>7, <3>4, SeqEqual
    <2> QED BY <2>8, <2>11, <2>12
  <1> QED BY <1>1, <1>2 DEF IsTrim

(* Looking up a traceparent: none, or the value of the last such line.     *)
LEMMA GetIs ==
  ASSUME NEW data, NEW s, s = AfterLine(data), NEW N, N = Named(s, <<"traceparent">>)
  PROVE  /\ N = {} => Get(ParseRequestHeaders(data), <<"traceparent">>) = <<>>
         /\ N # {} => Get(ParseRequestHeaders(data), <<"traceparent">>) =
                        Value(Line(s, Max(N)))
  <1> DEFINE T == <<"traceparent">>
             K == {Key(Line(s, i)) : i \in Headers(s)}
             F == [key \in K |-> Value(Line(s, Max(Named(s, key))))]
  <1>1. ParseRequestHeaders(data) = F
    BY DEF ParseRequestHeaders
  <1>2. T \in K <=> N # {}
    BY Zenon DEF Named
  <1>3. DOMAIN F = K /\ (T \in K => F[T] = Value(Line(s, Max(N))))
    OBVIOUS
  <1> HIDE DEF F, K, T
  <1>4. Get(F, T) = IF T \in K THEN F[T] ELSE <<>>
    BY <1>3 DEF Get
  <1>5. /\ N = {} => Get(F, T) = <<>>
        /\ N # {} => Get(F, T) = Value(Line(s, Max(N)))
    BY <1>2, <1>3, <1>4, Zenon
  <1> QED BY <1>1, <1>5, Zenon DEF T

(* No traceparent, no parent.                                              *)
LEMMA NothingExtracted ==
  Trimmed(<<>>) = <<>> /\ ExtractContextFromTraceHeaders(<<>>) = <<>>
  <1>1. <<>> \in Seq(Symbol) /\ Len(<<>>) = 0
    OBVIOUS
  <1>2. Trimmed(<<>>) = <<>>
    <2>1. IsTrim(Trimmed(<<>>), <<>>, 1, 0)
      BY <1>1, TrimmedIs
    <2>2. ~ \E a, b \in 1..0 : TRUE
      OBVIOUS
    <2> QED BY <2>1, <2>2, Zenon DEF IsTrim
  <1>3. ~IsTraceparent(<<>>, Hex)
    <2>1. ~(0 >= 9)
      OBVIOUS
    <2> QED BY <1>1, <2>1, Zenon DEF IsTraceparent
  <1> QED BY <1>1, <1>2, <1>3, ExtractionIs, Zenon

(* The parent that the value z of a traceparent gives when it is cut.      *)
CutParent(z, p) ==
  /\ Len(z) >= kTraceParentSize
  /\ IsTraceparent(SubSeq(z, 1, kTraceParentSize), Hex) /\ p = ParentIn(z)

(* A traceparent among the beginnings of z names what z names.             *)
LEMMA CutParentIs ==
  ASSUME NEW z \in Seq(Symbol), NEW y, BeginningOf(y, z), IsTraceparent(y, Hex)
  PROVE  CutParent(z, ParentIn(y))
  <1>1. PICK n \in 0..Len(z) : y = SubSeq(z, 1, n)
    BY DEF BeginningOf
  <1>2. Len(z) \in Nat /\ n \in Nat
    OBVIOUS
  <1>3. IsPart(y, z, 1, n)
    <2>1. 1 \in 1..(Len(z) + 1) /\ n \in (1 - 1)..Len(z)
      BY <1>2
    <2> QED BY <1>1, <2>1, PartIs
  <1>4. Len(y) = n /\ \A k \in 1..n : y[k] = z[k]
    <2>1. n - 1 + 1 = n /\ \A k \in 1..n : 1 + k - 1 = k
      BY <1>2
    <2> QED BY <1>3, <2>1 DEF IsPart
  <1>5. n >= 9 /\ Len(z) >= 9
    <2>1. Len(y) >= 9
      BY DEF IsTraceparent
    <2> QED BY <1>2, <1>4, <2>1
  <1> DEFINE v == SubSeq(z, 1, 9)
  <1>6. Len(v) = 9 /\ \A k \in 1..9 : v[k] = z[k]
    <2>1. /\ 1 \in 1..(Len(z) + 1) /\ 9 \in (1 - 1)..Len(z)
          /\ 9 - 1 + 1 = 9 /\ \A k \in 1..9 : 1 + k - 1 = k
      BY <1>2, <1>5
    <2>2. IsPart(v, z, 1, 9)
      BY <2>1, PartIs
    <2> HIDE DEF v
    <2> QED BY <2>1, <2>2 DEF IsPart
  <1> HIDE DEF v
  <1>7. \A k \in 1..9 : v[k] = y[k] /\ z[k] = y[k]
    <2>1. \A k \in 1..9 : k \in 1..n
      BY <1>2, <1>5
    <2> QED BY <1>4, <1>6, <2>1
  <1>8. /\ v[1] = y[1] /\ v[2] = y[2] /\ v[3] = y[3] /\ v[4] = y[4] /\ v[5] = y[5]
        /\ v[6] = y[6] /\ v[7] = y[7] /\ v[8] = y[8] /\ v[9] = y[9]
        /\ z[3] = y[3] /\ z[4] = y[4] /\ z[6] = y[6] /\ z[8] = y[8] /\ z[9] = y[9]
    BY <1>7
  <1>9. IsTraceparent(v, Hex)
    <2>1. Len(v) >= 9 /\ Len(v) = 9
      BY <1>6
    <2> QED BY <1>8, <2>1, Zenon DEF IsTraceparent
  <1>10. ParentIn(y) = ParentIn(z)
    BY <1>8, Zenon DEF ParentIn
  <1> QED BY <1>5, <1>9, <1>10 DEF CutParent, kTraceParentSize, v

(* Whatever a read has of the header lines h, the parent extracted from it *)
(* is none or the one that the beginning of a traceparent names, and the   *)
(* one that the last traceparent names if the head is whole.               *)
LEMMA ParentExtracted ==
  ASSUME NEW h, Lines(h), NEW data, IsHead(AfterLine(data), h)
  PROVE  LET x == Extract(ParseRequestHeaders(data)) IN
         /\ x = <<>> \/ \E j \in Traceparents(h) : CutParent(SentValue(h, j), x)
         /\ Len(AfterLine(data)) >= Len(h) + 2 => x = SentParent(h)
  <1> DEFINE s == AfterLine(data)
             N == Named(s, <<"traceparent">>)
             T == Traceparents(h)
             g == Get(ParseRequestHeaders(data), <<"traceparent">>)
             x == Extract(ParseRequestHeaders(data))
  <1>1. /\ h \in Seq(Symbol) /\ s \in Seq(Symbol) /\ Len(s) \in Nat /\ Len(h) \in Nat
        /\ IsHead(s, h)
    BY DEF IsHead, Lines
  <1>2. x = ExtractContextFromTraceHeaders(Trimmed(g))
    BY DEF Extract
  <1>3. /\ N = {} => g = <<>>
        /\ N # {} => g = Value(Line(s, Max(N)))
    BY GetIs
  <1>4. /\ \A i \in N : i \in T /\ i \in 1..Len(s) /\ Find(Line(s, i), <<":">>) = 2
        /\ Len(s) >= Len(h) + 2 => T \subseteq N
    BY <1>1, NamedIs
  <1>5. \A i \in T : i \in LineBegins(h) /\ i \in Nat \ {0}
    BY <1>1, BeginsIs DEF Traceparents
  <1>6. /\ T = {} => SentParent(h) = <<>>
        /\ T # {} => SentParent(h) =
             IF IsTraceparent(SentValue(h, Max(T)), Hex)
             THEN ParentIn(SentValue(h, Max(T))) ELSE <<>>
    BY Zenon DEF SentParent
  <1> HIDE DEF g, x, N, T, s
  <1>7. CASE N = {}
    <2>1. x = <<>>
      BY <1>2, <1>3, <1>7, NothingExtracted
    <2>2. Len(s) >= Len(h) + 2 => SentParent(h) = <<>>
      BY <1>4, <1>6, <1>7
    <2> QED BY <2>1, <2>2 DEF x, s
  <1>8. CASE N # {}
    <2>0. PICK i \in N : \A j \in N : j <= i
      <3>1. N \in SUBSET Nat /\ \A j \in N : j <= Len(s)
        BY <1>1, <1>4
      <3> QED BY <1>1, <1>8, <3>1, GreatestNumber
    <2>1. i \in T /\ i \in 1..Len(s) /\ Find(Line(s, i), <<":">>) = 2
      BY <1>4
    <2>2. g = Value(Line(s, i))
      <3>1. N \subseteq Nat
        BY <1>1, <1>4
      <3>2. Max(N) = i
        BY <2>0, <3>1, MaxIs
      <3> QED BY <1>3, <1>8, <3>2
    <2>3. i \in LineBegins(h) /\ i \in Nat \ {0}
      BY <1>5, <2>1
    <2>4. PICK e \in Nat, m \in Nat :
           /\ IsPart(Line(h, i), h, i, e) /\ IsPart(Line(s, i), s, i, m)
           /\ i - 1 <= e /\ e + 2 <= Len(h) /\ i - 1 <= m /\ m <= Len(s) /\ m <= e + 1
           /\ m = e + 1 => s[m] = "CR"
           /\ Len(s) >= e + 2 => m = e
           /\ \A k \in i..m : s[k] = h[k]
      BY <1>1, <2>1, <2>3, CutLine
    <2> DEFINE z == SentValue(h, i)
               y == Trimmed(g)
    <2>5. m >= i + 1 /\ e >= i + 1
      <3> DEFINE l == Line(s, i)
      <3>1. /\ l \in Seq(Symbol) /\ Len(l) = m - i + 1
            /\ \A k \in 1..(m - i + 1) : l[k] = s[i + k - 1]
        BY <2>4 DEF IsPart
      <3>2. FindsOne(2, l, ":")
        <4>1. ":" \in Symbol
          BY DEF Symbol
        <4> QED BY <2>1, <3>1, <4>1, FindOneIs
      <3>3. 2 \in 1..Len(l) /\ l[2] = ":"
        BY <3>2 DEF FindsOne
      <3> HIDE DEF l
      <3>4. m >= i + 1 /\ 2 \in 1..(m - i + 1) /\ i + 2 - 1 = i + 1
        BY <2>3, <2>4, <3>1, <3>3
      <3>5. s[i + 1] = ":"
        BY <3>1, <3>3, <3>4
      <3>6. e # i
        <4>1. ASSUME e = i PROVE FALSE
          <5>1. m = e + 1 /\ m = i + 1
            BY <2>3, <2>4, <3>4, <4>1
          <5> QED BY <2>4, <3>5, <5>1
        <4> QED BY <4>1
      <3> QED BY <2>3, <2>4, <3>4, <3>6
    <2>6. IsTrim(y, s, i + 2, m)
      BY <2>1, <2>2, <2>3, <2>4, <2>5, ValueIs
    <2>7. IsTrim(z, h, i + 2, e) /\ z \in Seq(Symbol)
      <3> DEFINE v == From(Line(h, i), 3)
      <3>1. IsPart(v, h, i + 2, e)
        BY <2>3, <2>4, <2>5, AfterColon
      <3>2. v \in Seq(Symbol)
        BY <3>1 DEF IsPart
      <3> HIDE DEF v
      <3>3. i + 2 \in Nat \ {0} /\ e >= (i + 2) - 1
        BY <2>3, <2>5
      <3>4. IsTrim(Trimmed(v), v, 1, Len(v))
        BY <3>2, TrimmedIs
      <3>5. IsTrim(Trimmed(v), h, i + 2, e)
        BY <3>1, <3>3, <3>4, TrimOfPart
      <3>6. Trimmed(v) \in Seq(Symbol)
        <4>1. <<>> \in Seq(Symbol)
          OBVIOUS
        <4> QED BY <3>4, <4>1, Zenon DEF IsTrim, IsPart
      <3> QED BY <3>5, <3>6 DEF v, SentValue
    <2> HIDE DEF z, y
    <2>8. BeginningOf(y, z) /\ (m = e => y = z)
      <3>1. /\ i + 2 \in Nat \ {0} /\ m \in Int /\ e \in Int
            /\ \A k \in (i + 2)..m : k \in i..m
        BY <2>3, <2>4
      <3>2. \A k \in (i + 2)..m : s[k] = h[k]
        BY <2>4, <3>1
      <3>3. m = e + 1 => s[m] \in White
        BY <2>4 DEF White
      <3>4. CutAt(s, h, i + 2, m, e)
        BY <2>4, <3>1, <3>2, <3>3 DEF CutAt
      <3> QED BY <2>6, <2>7, <3>4, CutValue
    <2>9. y \in Seq(Symbol)
      <3>1. PICK n \in 0..Len(z) : y = SubSeq(z, 1, n)
        BY <2>8 DEF BeginningOf
      <3>2. 1 \in 1..(Len(z) + 1) /\ n \in (1 - 1)..Len(z)
        BY <2>7
      <3> QED BY <2>7, <3>1, <3>2, PartIs DEF IsPart
    <2>10. x = IF IsTraceparent(y, Hex) THEN ParentIn(y) ELSE <<>>
      BY <1>2, <2>9, ExtractionIs DEF y
    <2>11. x = <<>> \/ \E j \in T : CutParent(SentValue(h, j), x)
      <3>1. IsTraceparent(y, Hex) => CutParent(z, ParentIn(y))
        BY <2>7, <2>8, CutParentIs
      <3> QED BY <2>1, <2>10, <3>1, Zenon DEF z
    <2>12. ASSUME Len(s) >= Len(h) + 2 PROVE x = SentParent(h)
      <3>1. y = z
        BY <1>1, <2>4, <2>8, <2>12
      <3>2. Max(T) = i
        <4>1. T \subseteq Nat /\ T \subseteq N
          BY <1>4, <1>5, <2>12
        <4>2. \A j \in T : j <= i
          BY <2>0, <4>1
        <4> QED BY <2>1, <4>1, <4>2, MaxIs
      <3>3. T # {}
        BY <2>1
      <3> QED BY <1>6, <2>10, <3>1, <3>2, <3>3, Zenon DEF z
    <2> QED BY <2>11, <2>12 DEF x, s, T
  <1> QED BY <1>7, <1>8 DEF x, s, T

(* After a request line of m symbols come the header lines, an empty one.  *)
HasHead(x, m, h) ==
  /\ Len(x) >= m + 4 + Len(h)
  /\ \A k \in 1..m : x[k] # "CR"
  /\ x[m + 1] = "CR" /\ x[m + 2] = "LF"
  /\ \A k \in 1..Len(h) : x[m + 2 + k] = h[k]
  /\ x[m + 2 + (Len(h) + 1)] = "CR" /\ x[m + 2 + (Len(h) + 2)] = "LF"

LineLen(a, g) == Len(a) + Len(g) + 4

(* A request line has no CR.                                               *)
LEMMA LineHasNone ==
  ASSUME NEW a, NEW g, NEW w, IsRequest(a, g, w), NEW x, HasLine(x, a, g, w),
         NEW k \in 1..LineLen(a, g)
  PROVE  x[k] # "CR"
  <1> DEFINE p == Len(a)
             n == Len(g)
  <1>1. /\ p \in Nat \ {0} /\ n \in Nat \ {0} /\ k \in 1..(p + n + 4)
    BY DEF IsRequest, LineLen
  <1>2. /\ \A j \in 1..p : x[j] # "CR"
        /\ x[p + 1] # "CR" /\ x[p + n + 2] # "CR"
        /\ x[p + n + 3] # "CR" /\ x[p + n + 4] # "CR"
        /\ \A j \in 1..n : x[p + 1 + j] # "CR"
    BY DEF HasLine, IsRequest, White
  <1> HIDE DEF p, n
  <1>3. \/ k \in 1..p \/ k = p + 1 \/ k = p + n + 2 \/ k = p + n + 3 \/ k = p + n + 4
        \/ k - p - 1 \in 1..n /\ k = p + 1 + (k - p - 1)
    BY <1>1
  <1>4. CASE k - p - 1 \in 1..n /\ k = p + 1 + (k - p - 1)
    <2>1. x[p + 1 + (k - p - 1)] # "CR"
      BY <1>2, <1>4
    <2> QED BY <1>4, <2>1
  <1> QED BY <1>2, <1>3, <1>4

(* What the client sends is laid out like that.                            *)
LEMMA TextHasHead ==
  ASSUME NEW r \in Requests
  PROVE  /\ HasHead(Text(r), LineLen(r.method, r.target), r.headers)
         /\ Len(Text(r)) - Len(r.body) =
              LineLen(r.method, r.target) + 4 + Len(r.headers)
  <1> DEFINE a == r.method
             g == r.target
             h == r.headers
             b == r.body
             x == <<"SP">>
             y == <<"SP", "HTTP/", r.version>>
             u == a \o x \o g
             z == u \o y
             v == z \o CRLF \o h
             t == v \o CRLF \o b
             m == LineLen(a, g)
             l == Len(h)
  <1>1. /\ IsRequest(a, g, r.version) /\ HasLine(Text(r), a, g, r.version)
        /\ a \in Seq(Symbol) /\ g \in Seq(Symbol) /\ h \in Seq(Symbol)
        /\ b \in Seq(Symbol) /\ l \in Nat /\ Len(b) \in Nat
        /\ Len(a) \in Nat /\ Len(g) \in Nat /\ m \in Nat /\ m = Len(a) + Len(g) + 4
        /\ r.version \in {"1.", "2"}
    <2>1. /\ IsRequest(a, g, r.version) /\ HasLine(Text(r), a, g, r.version)
          /\ h \in Seq(Symbol) /\ b \in Seq(Symbol)
      BY TextHasLine, Zenon
    <2>2. m = Len(a) + Len(g) + 4
      BY DEF LineLen
    <2> HIDE DEF a, g, h, b, m
    <2> QED BY <2>1, <2>2 DEF IsRequest
  <1>2. /\ "SP" \in Symbol /\ "HTTP/" \in Symbol /\ r.version \in Symbol
        /\ "CR" \in Symbol /\ "LF" \in Symbol
    BY <1>1 DEF Symbol
  <1>3. /\ x \in Seq(Symbol) /\ Len(x) = 1 /\ y \in Seq(Symbol) /\ Len(y) = 3
        /\ CRLF \in Seq(Symbol) /\ Len(CRLF) = 2 /\ CRLF[1] = "CR" /\ CRLF[2] = "LF"
    BY <1>2 DEF CRLF
  <1>4. Text(r) = t
    BY DEF Text
  <1> HIDE DEF x, y, a, g, h, b, t, m
  <1>5. IsConcat3(u, a, x, g, Symbol)
    BY <1>1, <1>3, Concat3Is, Zenon
  <1> HIDE DEF u
  <1>6. u \in Seq(Symbol) /\ Len(u) = Len(a) + 1 + Len(g)
    BY <1>3, <1>5 DEF IsConcat3
  <1>7. IsConcat(z, u, y, Symbol)
    BY <1>3, <1>6, ConcatIs, Zenon
  <1> HIDE DEF z
  <1>8. z \in Seq(Symbol) /\ Len(z) = m
    BY <1>1, <1>3, <1>6, <1>7 DEF IsConcat
  <1>9. IsConcat3(v, z, CRLF, h, Symbol)
    BY <1>1, <1>3, <1>8, Concat3Is, Zenon
  <1> HIDE DEF v
  <1>10. /\ v \in Seq(Symbol) /\ Len(v) = m + 2 + l
         /\ v[m + 1] = "CR" /\ v[m + 2] = "LF"
         /\ \A k \in 1..l : v[m + 2 + k] = h[k]
    <2>1. /\ v \in Seq(Symbol) /\ Len(v) = m + 2 + l
          /\ \A k \in 1..2 : v[m + k] = CRLF[k]
          /\ \A k \in 1..l : v[m + 2 + k] = h[k]
      BY <1>3, <1>8, <1>9 DEF IsConcat3
    <2> QED BY <1>3, <2>1
  <1>11. IsConcat3(t, v, CRLF, b, Symbol)
    BY <1>1, <1>3, <1>10, Concat3Is, Zenon DEF t
  <1>12. /\ Len(t) = (m + 2 + l) + 2 + Len(b)
         /\ \A k \in 1..Len(v) : t[k] = v[k]
         /\ \A k \in 1..2 : t[(m + 2 + l) + k] = CRLF[k]
    BY <1>3, <1>10, <1>11 DEF IsConcat3
  <1>13. /\ t[m + 1] = "CR" /\ t[m + 2] = "LF"
         /\ \A k \in 1..l : t[m + 2 + k] = h[k]
    <2>1. /\ m + 1 \in 1..Len(v) /\ m + 2 \in 1..Len(v)
          /\ \A k \in 1..l : m + 2 + k \in 1..Len(v)
      BY <1>1, <1>10
    <2> QED BY <1>10, <1>12, <2>1
  <1>14. t[m + 2 + (l + 1)] = "CR" /\ t[m + 2 + (l + 2)] = "LF"
    <2>1. /\ (m + 2 + l) + 1 = m + 2 + (l + 1) /\ (m + 2 + l) + 2 = m + 2 + (l + 2)
      BY <1>1
    <2> QED BY <1>3, <1>12, <2>1
  <1>15. \A k \in 1..m : t[k] # "CR"
    BY <1>1, <1>4, LineHasNone DEF m
  <1>16. Len(t) >= m + 4 + l /\ Len(t) - Len(b) = m + 4 + l
    BY <1>1, <1>12
  <1>17. HasHead(t, m, h)
    BY <1>13, <1>14, <1>15, <1>16 DEF HasHead
  <1> QED BY <1>4, <1>16, <1>17 DEF a, g, h, b, m

(* What parse_request_headers gets to see of it.                           *)
LEMMA HeadRead ==
  ASSUME NEW x, NEW m \in Nat, NEW h \in Seq(Symbol), HasHead(x, m, h),
         NEW data \in Seq(Symbol), Len(x) \in Nat, Shows(data, x)
  PROVE  /\ IsHead(AfterLine(data), h)
         /\ Len(data) >= m + 4 + Len(h) => Len(AfterLine(data)) >= Len(h) + 2
  <1> DEFINE f == Find(data, CRLF)
             l == Len(h)
             s == AfterLine(data)
  <1>0. /\ l \in Nat /\ Len(data) \in Nat /\ Len(x) >= m + 4 + l
        /\ \A k \in 1..m : x[k] # "CR"
        /\ x[m + 1] = "CR" /\ x[m + 2] = "LF"
        /\ \A k \in 1..l : x[m + 2 + k] = h[k]
        /\ x[m + 2 + (l + 1)] = "CR" /\ x[m + 2 + (l + 2)] = "LF"
        /\ \A k \in 1..Len(x) : k <= Len(data) => data[k] = x[k]
    BY DEF HasHead, Shows
  <1>1. Finds(f, data, "CR", "LF")
    <2>1. "CR" \in Symbol /\ "LF" \in Symbol /\ CRLF = <<"CR", "LF">>
      BY DEF Symbol, CRLF
    <2> QED BY <2>1, FindIs, Zenon
  <1>2. s = IF f = 0 THEN <<>> ELSE From(data, f + 2)
    BY DEF AfterLine
  <1> HIDE DEF f, s, l
  <1>3. ASSUME NEW k \in 1..Len(data), k <= m PROVE data[k] # "CR"
    <2>1. k \in 1..Len(x) /\ k <= Len(data) /\ k \in 1..m
      BY <1>0, <1>3
    <2> QED BY <1>0, <2>1
  <1>4. f # 0 => f \in 1..(Len(data) - 1) /\ f > m
    <2>1. f # 0 => f \in 1..(Len(data) - 1) /\ data[f] = "CR"
      BY <1>1 DEF Finds
    <2>2. f # 0 => f \in 1..Len(data)
      BY <1>0, <2>1
    <2>3. f # 0 => ~(f <= m)
      BY <1>3, <2>1, <2>2
    <2> QED BY <1>0, <2>1, <2>3
  <1>5. CASE Len(data) < m + 2
    <2>1. f = 0
      BY <1>0, <1>4, <1>5
    <2>2. s = <<>>
      BY <1>2, <2>1
    <2>3. <<>> \in Seq(Symbol) /\ Len(<<>>) = 0
      OBVIOUS
    <2>4. IsHead(<<>>, h)
      BY <2>3 DEF IsHead
    <2>5. ~(Len(data) >= m + 4 + l)
      BY <1>0, <1>5
    <2> QED BY <2>2, <2>4, <2>5 DEF s, l
  <1>6. CASE Len(data) >= m + 2
    <2>1. /\ m + 1 \in 1..(Len(data) - 1) /\ m + 1 \in 1..Len(x) /\ m + 2 \in 1..Len(x)
          /\ (m + 1) + 1 = m + 2 /\ m + 1 <= Len(data) /\ m + 2 <= Len(data)
      BY <1>0, <1>6
    <2>2. data[m + 1] = "CR" /\ data[(m + 1) + 1] = "LF"
      BY <1>0, <2>1
    <2>3. f # 0
      BY <1>1, <2>1, <2>2 DEF Finds
    <2>4. ~(f > m + 1)
      <3>1. f > m + 1 => m + 1 \in 1..(f - 1)
        BY <1>4, <2>3
      <3>2. \A i \in 1..(f - 1) : ~(data[i] = "CR" /\ data[i + 1] = "LF")
        BY <1>1, <2>3 DEF Finds
      <3> QED BY <2>2, <3>1, <3>2
    <2>5. f = m + 1 /\ f + 2 = m + 3
      BY <1>0, <1>4, <2>3, <2>4
    <2> DEFINE d == Len(data)
    <2>6. /\ m + 3 \in 1..(d + 1) /\ d \in ((m + 3) - 1)..d
          /\ d - (m + 3) + 1 = d - m - 2
          /\ \A k \in 1..(d - m - 2) : (m + 3) + k - 1 = m + 2 + k /\ m + 2 + k <= d
      BY <1>0, <1>6
    <2>7. s = SubSeq(data, m + 3, d)
      BY <1>2, <2>3, <2>5 DEF From
    <2>8. IsPart(s, data, m + 3, d)
      BY <2>6, <2>7, PartIs
    <2>9. /\ s \in Seq(Symbol) /\ Len(s) = d - m - 2
          /\ \A k \in 1..(d - m - 2) : s[k] = data[m + 2 + k]
      BY <2>6, <2>8 DEF IsPart
    <2> HIDE DEF d
    <2>10. ASSUME NEW k \in 1..Len(s)
           PROVE  k <= l + 2 => s[k] = x[m + 2 + k]
      <3>1. k \in 1..(d - m - 2) /\ m + 2 + k <= d
        BY <2>6, <2>9
      <3>2. k <= l + 2 => m + 2 + k \in 1..Len(x)
        BY <1>0
      <3> QED BY <1>0, <2>9, <3>1, <3>2 DEF d
    <2>11. ASSUME NEW k \in 1..Len(s)
           PROVE  /\ k <= l => s[k] = h[k]
                  /\ k = l + 1 => s[k] = "CR"
                  /\ k = l + 2 => s[k] = "LF"
      <3>1. /\ k <= l => k \in 1..l /\ k <= l + 2
            /\ k = l + 1 => k <= l + 2
            /\ k = l + 2 => k <= l + 2
        BY <1>0
      <3> QED BY <1>0, <2>10, <3>1
    <2>12. IsHead(s, h)
      BY <2>9, <2>11 DEF IsHead, l
    <2>13. d >= m + 4 + l => Len(s) >= l + 2
      BY <1>0, <2>9 DEF d
    <2> QED BY <2>12, <2>13 DEF s, l, d
  <1> QED BY <1>0, <1>5, <1>6

(* What comes after the first o symbols.                                   *)
LEMMA FromIs ==
  ASSUME NEW s \in Seq(Symbol), NEW o \in 0..Len(s)
  PROVE  LET t == From(s, o + 1) IN
         /\ t \in Seq(Symbol) /\ Len(t) = Len(s) - o
         /\ \A k \in 1..(Len(s) - o) : t[k] = s[o + k]
  <1> DEFINE t == From(s, o + 1)
             c == Len(s)
  <1>0. c \in Nat /\ o \in 0..c
    OBVIOUS
  <1>1. IsPart(t, s, o + 1, c)
    <2>1. o + 1 \in 1..(c + 1) /\ c \in ((o + 1) - 1)..c
      <3> HIDE DEF c
      <3> QED BY <1>0
    <2> QED BY <2>1, PartIs DEF From
  <1> HIDE DEF t, c
  <1>2. /\ c - (o + 1) + 1 = c - o
        /\ \A k \in 1..(c - o) : (o + 1) + k - 1 = o + k
    BY <1>0
  <1>3. /\ t \in Seq(Symbol) /\ Len(t) = c - o
        /\ \A k \in 1..(c - o) : t[k] = s[o + k]
    BY <1>1, <1>2 DEF IsPart
  <1> QED BY <1>3 DEF t, c

(* The text from inside of the method on is a request with the rest of it. *)
LEMMA RestIsRequest ==
  ASSUME NEW a, NEW g, NEW w, IsRequest(a, g, w), NEW x, HasLine(x, a, g, w),
         NEW h \in Seq(Symbol), HasHead(x, LineLen(a, g), h),
         NEW o \in 0..(Len(a) - 1)
  PROVE  LET b == From(a, o + 1)
             y == From(x, o + 1)
         IN /\ IsRequest(b, g, w) /\ Len(b) = Len(a) - o
            /\ HasLine(y, b, g, w) /\ HasHead(y, LineLen(b, g), h)
            /\ y \in Seq(Symbol) /\ Len(y) = Len(x) - o
            /\ \A k \in 1..Len(y) : y[k] = x[o + k]
  <1> DEFINE p == Len(a)
             n == Len(g)
             b == From(a, o + 1)
             y == From(x, o + 1)
             q == p - o
             m == p + n + 4
             l == Len(h)
  <1>1. /\ p \in Nat \ {0} /\ n \in Nat \ {0} /\ Len(x) \in Nat /\ o \in Nat /\ o < p
        /\ a \in Seq(Symbol) /\ x \in Seq(Symbol) /\ l \in Nat
        /\ Len(x) >= m + 4 + l /\ q \in Nat \ {0} /\ o + q = p
    <2>1. LineLen(a, g) = m
      BY DEF LineLen
    <2>2. /\ p \in Nat \ {0} /\ n \in Nat \ {0} /\ a \in Seq(Symbol)
      BY DEF IsRequest
    <2>3. /\ x \in Seq(Symbol) /\ Len(x) \in Nat /\ l \in Nat
      BY DEF HasLine
    <2>4. Len(x) >= m + 4 + l
      BY <2>1 DEF HasHead
    <2>5. o \in 0..(p - 1)
      OBVIOUS
    <2> HIDE DEF p, n, l
    <2> QED BY <2>2, <2>3, <2>4, <2>5
  <1>2. /\ p = Len(a) /\ o \in 0..Len(a) /\ o \in 0..Len(x)
    <2> HIDE DEF p, n, l, q
    <2>1. o \in 0..p /\ o \in 0..Len(x)
      BY <1>1
    <2> QED BY <2>1 DEF p
  <1>3. /\ b \in Seq(Symbol) /\ Len(b) = q /\ \A k \in 1..q : b[k] = a[o + k]
    BY <1>1, <1>2, FromIs
  <1>4. /\ y \in Seq(Symbol) /\ Len(y) = Len(x) - o
        /\ \A k \in 1..(Len(x) - o) : y[k] = x[o + k]
    BY <1>1, <1>2, FromIs
  <1>5. /\ \A j \in 1..p : a[j] \notin White /\ a[j] # "HTTP/"
        /\ g \in Seq(Symbol) /\ g[1] = "/" /\ w \in {"1.", "2"}
        /\ \A j \in 1..n : g[j] \notin White
    BY DEF IsRequest
  <1>6. /\ \A j \in 1..p : x[j] = a[j]
        /\ x[p + 1] = "SP"
        /\ \A j \in 1..n : x[p + 1 + j] = g[j]
        /\ x[p + n + 2] = "SP" /\ x[p + n + 3] = "HTTP/" /\ x[p + n + 4] = w
    BY DEF HasLine
  <1>7. /\ \A k \in 1..m : x[k] # "CR"
        /\ x[m + 1] = "CR" /\ x[m + 2] = "LF"
        /\ \A k \in 1..l : x[m + 2 + k] = h[k]
        /\ x[m + 2 + (l + 1)] = "CR" /\ x[m + 2 + (l + 2)] = "LF"
    BY DEF HasHead, LineLen
  <1> HIDE DEF p, n, b, y, q, l
  <1>8. \A k \in 1..q : o + k \in 1..p
    BY <1>1
  <1>9. IsRequest(b, g, w)
    <2>1. \A j \in 1..q : b[j] \notin White /\ b[j] # "HTTP/"
      BY <1>3, <1>5, <1>8
    <2> QED BY <1>1, <1>3, <1>5, <2>1 DEF IsRequest, n
  <1> DEFINE e == Len(x) - o
             c == q + n + 4
  <1>10. ASSUME NEW k \in Int, k >= 1, k <= c + 4 + l
         PROVE  k \in 1..e /\ y[k] = x[o + k]
    <2>1. k \in 1..e
      BY <1>1, <1>10
    <2> QED BY <1>4, <2>1
  <1>11. /\ c \in Nat /\ o + c = m /\ e \in Nat /\ e >= c + 4 + l
    BY <1>1
  <1>12. HasLine(y, b, g, w)
    <2>1. /\ y[q + 1] = x[o + (q + 1)] /\ y[q + n + 2] = x[o + (q + n + 2)]
          /\ y[q + n + 3] = x[o + (q + n + 3)] /\ y[q + n + 4] = x[o + (q + n + 4)]
      <3>1. /\ q + 1 \in Int /\ q + 1 >= 1 /\ q + 1 <= c + 4 + l
            /\ q + n + 2 \in Int /\ q + n + 2 >= 1 /\ q + n + 2 <= c + 4 + l
            /\ q + n + 3 \in Int /\ q + n + 3 >= 1 /\ q + n + 3 <= c + 4 + l
            /\ q + n + 4 \in Int /\ q + n + 4 >= 1 /\ q + n + 4 <= c + 4 + l
        BY <1>1
      <3> HIDE DEF c, e
      <3> QED BY <1>10, <3>1, Zenon
    <2>2. /\ o + (q + 1) = p + 1 /\ o + (q + n + 2) = p + n + 2
          /\ o + (q + n + 3) = p + n + 3 /\ o + (q + n + 4) = p + n + 4
      BY <1>1
    <2>3. \A j \in 1..q : y[j] = b[j]
      <3>1. \A j \in 1..q : j \in 1..e /\ o + j \in 1..p
        BY <1>1
      <3> QED BY <1>3, <1>4, <1>6, <3>1
    <2>4. \A j \in 1..n : y[q + 1 + j] = g[j]
      <3>1. \A j \in 1..n : q + 1 + j \in 1..e /\ o + (q + 1 + j) = p + 1 + j
        BY <1>1
      <3> QED BY <1>4, <1>6, <3>1
    <2>5. y \in Seq(Symbol) /\ Len(y) >= q + n + 4
      BY <1>1, <1>4, <1>11
    <2>6. /\ y[q + 1] = "SP" /\ y[q + n + 2] = "SP" /\ y[q + n + 3] = "HTTP/"
          /\ y[q + n + 4] = w
      BY <1>6, <2>1, <2>2
    <2>7. Len(b) = q /\ Len(g) = n
      BY <1>3 DEF n
    <2> QED BY <2>3, <2>4, <2>5, <2>6, <2>7, Zenon DEF HasLine
  <1>13. HasHead(y, c, h)
    <2>1. \A k \in 1..c : y[k] # "CR"
      <3>1. \A k \in 1..c : k \in 1..e /\ o + k \in 1..m
        BY <1>1, <1>11
      <3> QED BY <1>4, <1>7, <3>1
    <2>2. /\ y[c + 1] = x[o + (c + 1)] /\ y[c + 2] = x[o + (c + 2)]
          /\ y[c + 2 + (l + 1)] = x[o + (c + 2 + (l + 1))]
          /\ y[c + 2 + (l + 2)] = x[o + (c + 2 + (l + 2))]
      <3> HIDE DEF c, e, m
      <3>1. /\ c + 1 \in Int /\ c + 1 >= 1 /\ c + 1 <= c + 4 + l
            /\ c + 2 \in Int /\ c + 2 >= 1 /\ c + 2 <= c + 4 + l
            /\ c + 2 + (l + 1) \in Int /\ c + 2 + (l + 1) >= 1
            /\ c + 2 + (l + 1) <= c + 4 + l
            /\ c + 2 + (l + 2) \in Int /\ c + 2 + (l + 2) >= 1
            /\ c + 2 + (l + 2) <= c + 4 + l
        BY <1>1, <1>11
      <3> QED BY <1>10, <3>1, Zenon
    <2>3. /\ o + (c + 1) = m + 1 /\ o + (c + 2) = m + 2
          /\ o + (c + 2 + (l + 1)) = m + 2 + (l + 1)
          /\ o + (c + 2 + (l + 2)) = m + 2 + (l + 2)
      BY <1>1, <1>11
    <2>4. \A k \in 1..l : y[c + 2 + k] = h[k]
      <3>1. \A k \in 1..l : c + 2 + k \in 1..e /\ o + (c + 2 + k) = m + 2 + k
        BY <1>1, <1>11
      <3> QED BY <1>4, <1>7, <3>1
    <2> HIDE DEF c, m, e
    <2>5. /\ y[c + 1] = "CR" /\ y[c + 2] = "LF"
          /\ y[c + 2 + (l + 1)] = "CR" /\ y[c + 2 + (l + 2)] = "LF"
      BY <1>7, <2>2, <2>3
    <2> QED BY <1>4, <1>11, <2>1, <2>4, <2>5 DEF HasHead, l, e
  <1>14. LineLen(b, g) = c
    BY <1>3 DEF LineLen, n
  <1> QED BY <1>3, <1>4, <1>9, <1>12, <1>13, <1>14 DEF p, b, y, q
-----------------------------------------------------------------------------
(* The stream and the reads.                                               *)

(* Every request stands in the stream where it began, and no read goes     *)
(* past the end.                                                           *)
StreamInv ==
  /\ sent \in Seq(Requests) /\ start \in Seq(Nat) /\ stream \in Seq(Symbol)
  /\ Len(start) = Len(sent)
  /\ \A i \in 1..Len(sent) :
       /\ start[i] + Len(Text(sent[i])) <= Len(stream)
       /\ \A k \in 1..Len(Text(sent[i])) : stream[start[i] + k] = Text(sent[i])[k]
  /\ pos \in Nat /\ pos <= Len(stream)
  /\ last \in [from : Nat, to : Nat] /\ last.to <= Len(stream)
  /\ last.to > 0 => last.from < last.to

(* The inductive invariant.                                                *)
ReadInv ==
  StreamInv /\ LineAsSent /\ RestStartsNone /\ ParentAsSent /\ WholeHeadTraced

(* Nothing has been sent yet.                                              *)
LEMMA StreamInit == Init => ReadInv
  <1> SUFFICES ASSUME Init PROVE ReadInv
    OBVIOUS
  <1>1. /\ sent \in Seq(Requests) /\ start \in Seq(Nat) /\ stream \in Seq(Symbol)
        /\ Len(start) = 0 /\ Len(sent) = 0 /\ Len(stream) = 0
    BY DEF Init
  <1>2. /\ pos = 0 /\ last \in [from : Nat, to : Nat] /\ last.to = 0
    BY DEF Init
  <1>3. DOMAIN sent = {}
    BY <1>1
  <1>4. StreamInv
    BY <1>1, <1>2, <1>3 DEF StreamInv
  <1>5. LineAsSent /\ RestStartsNone /\ ParentAsSent /\ WholeHeadTraced
    BY <1>3, Zenon DEF LineAsSent, RestStartsNone, ParentAsSent, WholeHeadTraced
  <1> QED BY <1>4, <1>5 DEF ReadInv

(* A new request comes after all that has been read.                       *)
LEMMA ClientSendInv ==
  ASSUME StreamInv, NEW r \in Requests, ClientSend(r)
  PROVE  StreamInv'
  <1> DEFINE x == Text(r)
             n == Len(sent)
             y == stream \o x
  <1>1. /\ sent \in Seq(Requests) /\ start \in Seq(Nat) /\ stream \in Seq(Symbol)
        /\ Len(start) = n /\ n \in Nat /\ Len(stream) \in Nat
        /\ x \in Seq(Symbol) /\ Len(x) \in Nat
    BY TextHasLine DEF StreamInv
  <1>2. IsConcat(y, stream, x, Symbol)
    BY <1>1, ConcatIs, Zenon
  <1>3. /\ sent' \in Seq(Requests) /\ Len(sent') = n + 1 /\ sent'[n + 1] = r
        /\ \A i \in 1..n : sent'[i] = sent[i]
    BY <1>1 DEF ClientSend
  <1>4. /\ start' \in Seq(Nat) /\ Len(start') = n + 1
        /\ start'[n + 1] = Len(stream) /\ \A i \in 1..n : start'[i] = start[i]
    BY <1>1 DEF ClientSend
  <1>5. /\ stream' = y /\ pos' = pos /\ last' = last
    BY DEF ClientSend
  <1> HIDE DEF x, y, n
  <1>6. /\ stream' \in Seq(Symbol) /\ Len(stream') = Len(stream) + Len(x)
        /\ \A k \in 1..Len(stream) : stream'[k] = stream[k]
        /\ \A k \in 1..Len(x) : stream'[Len(stream) + k] = x[k]
    BY <1>2, <1>5 DEF IsConcat
  <1>7. ASSUME NEW i \in 1..n
        PROVE  /\ sent[i] \in Requests /\ start[i] \in Nat
               /\ Len(Text(sent[i])) \in Nat
               /\ start[i] + Len(Text(sent[i])) <= Len(stream)
               /\ \A k \in 1..Len(Text(sent[i])) :
                    stream[start[i] + k] = Text(sent[i])[k]
    <2>1. sent[i] \in Requests /\ start[i] \in Nat
      BY <1>1 DEF n
    <2>2. Len(Text(sent[i])) \in Nat
      BY <2>1, TextHasLine
    <2> QED BY <2>1, <2>2 DEF StreamInv, n
  <1>8. \A i \in 1..(n + 1) : i \in 1..n \/ i = n + 1
    BY <1>1
  <1>9. ASSUME NEW i \in 1..(n + 1)
        PROVE  /\ start'[i] + Len(Text(sent'[i])) <= Len(stream')
               /\ \A k \in 1..Len(Text(sent'[i])) :
                    stream'[start'[i] + k] = Text(sent'[i])[k]
    <2>1. CASE i = n + 1
      <3>1. start'[i] = Len(stream) /\ Text(sent'[i]) = x
        BY <1>3, <1>4, <2>1, Zenon DEF x
      <3>2. Len(stream) + Len(x) <= Len(stream')
        BY <1>1, <1>6
      <3> QED BY <1>6, <3>1, <3>2, Zenon
    <2>2. CASE i \in 1..n
      <3>1. sent'[i] = sent[i] /\ start'[i] = start[i]
        BY <1>3, <1>4, <2>2
      <3> DEFINE s == start[i]
                 e == Text(sent[i])
      <3>2. /\ s \in Nat /\ Len(e) \in Nat /\ s + Len(e) <= Len(stream)
            /\ \A k \in 1..Len(e) : stream[s + k] = e[k]
        BY <1>7, <2>2
      <3> HIDE DEF s, e
      <3>3. /\ s + Len(e) <= Len(stream')
            /\ \A k \in 1..Len(e) : s + k \in 1..Len(stream)
        BY <1>1, <1>6, <3>2
      <3>4. \A k \in 1..Len(e) : stream'[s + k] = e[k]
        BY <1>6, <3>2, <3>3
      <3> QED BY <3>1, <3>3, <3>4 DEF s, e
    <2> QED BY <1>8, <2>1, <2>2
  <1>10. /\ pos' \in Nat /\ pos' <= Len(stream')
         /\ last' \in [from : Nat, to : Nat] /\ last'.to <= Len(stream')
         /\ last'.to > 0 => last'.from < last'.to
    BY <1>1, <1>5, <1>6 DEF StreamInv
  <1> QED BY <1>3, <1>4, <1>6, <1>9, <1>10 DEF StreamInv

(* What has been read is not changed by another request.                   *)
LEMMA SendKeepsReads ==
  ASSUME StreamInv, NEW r \in Requests, ClientSend(r),
         NEW i \in DOMAIN sent', last.to > 0, start'[i] <= last.from
  PROVE  i \in DOMAIN sent /\ sent'[i] = sent[i] /\ start'[i] = start[i]
  <1> DEFINE n == Len(sent)
  <1>1. /\ sent \in Seq(Requests) /\ start \in Seq(Nat) /\ Len(start) = n /\ n \in Nat
        /\ Len(stream) \in Nat
        /\ last.from \in Nat /\ last.to \in Nat /\ last.to <= Len(stream)
        /\ last.from < last.to
    BY DEF StreamInv
  <1>2. /\ Len(sent') = n + 1 /\ sent' \in Seq(Requests)
        /\ \A k \in 1..n : sent'[k] = sent[k]
    BY <1>1 DEF ClientSend
  <1>3. start'[n + 1] = Len(stream) /\ \A k \in 1..n : start'[k] = start[k]
    BY <1>1 DEF ClientSend
  <1>4. DOMAIN sent' = 1..(n + 1) /\ DOMAIN sent = 1..n
    BY <1>1, <1>2
  <1> HIDE DEF n
  <1>5. i # n + 1
    BY <1>1, <1>3
  <1>6. i \in 1..n
    BY <1>1, <1>4, <1>5
  <1> QED BY <1>2, <1>3, <1>4, <1>6

(* So it keeps what is said of reads.                                      *)
LEMMA SendKeeps ==
  ASSUME StreamInv, LineAsSent, RestStartsNone, ParentAsSent, WholeHeadTraced,
         NEW r \in Requests, ClientSend(r)
  PROVE  LineAsSent' /\ RestStartsNone' /\ ParentAsSent' /\ WholeHeadTraced'
  <1>1. span' = span /\ last' = last
    BY DEF ClientSend
  <1>2. ASSUME NEW i \in DOMAIN sent'
        PROVE  /\ start'[i] \in Nat /\ Len(sent'[i].method) \in Nat
               /\ Len(sent'[i].target) \in Nat /\ last.from \in Nat
    <2>1. StreamInv'
      BY ClientSendInv
    <2>2. sent' \in Seq(Requests) /\ start' \in Seq(Nat) /\ Len(start') = Len(sent')
          /\ last.from \in Nat
      BY <1>1, <2>1 DEF StreamInv
    <2>3. sent'[i] \in Requests /\ start'[i] \in Nat
      BY <2>2
    <2> QED BY <2>2, <2>3, TextHasLine DEF IsRequest
  <1>3. ASSUME NEW i \in DOMAIN sent', Begun(i)'
        PROVE  /\ i \in DOMAIN sent /\ sent'[i] = sent[i] /\ start'[i] = start[i]
               /\ Begun(i) /\ LineEnd(i)' = LineEnd(i)
               /\ MethodRead(i)' = MethodRead(i) /\ TargetRead(i)' = TargetRead(i)
    <2>1. last.to > 0 /\ start'[i] <= last.from
      BY <1>1, <1>2, <1>3 DEF Begun
    <2>2. i \in DOMAIN sent /\ sent'[i] = sent[i] /\ start'[i] = start[i]
      BY <2>1, SendKeepsReads
    <2>3. Begun(i) /\ LineEnd(i)' = LineEnd(i)
      BY <1>1, <1>3, <2>2 DEF Begun, LineEnd
    <2>4. MethodRead(i)' = MethodRead(i) /\ TargetRead(i)' = TargetRead(i)
      BY <1>1, <2>2, Zenon DEF MethodRead, TargetRead
    <2> QED BY <2>2, <2>3, <2>4
  <1>4. LineAsSent'
    BY <1>1, <1>3, Zenon DEF LineAsSent
  <1>5. ParentAsSent'
    BY <1>1, <1>3, Zenon DEF ParentAsSent
  <1>6. WholeHeadTraced'
    BY <1>1, <1>3, Zenon DEF WholeHeadTraced
  <1>7. ASSUME NEW i \in DOMAIN sent', last'.to > 0,
               last'.from \in (start'[i] + Len(sent'[i].method))..LineEnd(i)'
        PROVE  span' = {}
    <2>1. last.to > 0 /\ start'[i] <= last.from
      <3>1. start'[i] + Len(sent'[i].method) <= last.from
        <4>1. LineEnd(i)' \in Nat
          BY <1>2 DEF LineEnd
        <4> QED BY <1>1, <1>2, <1>7, <4>1
      <3> QED BY <1>1, <1>2, <1>7, <3>1
    <2>2. i \in DOMAIN sent /\ sent'[i] = sent[i] /\ start'[i] = start[i]
      BY <2>1, SendKeepsReads
    <2>3. LineEnd(i)' = LineEnd(i)
      BY <2>2 DEF LineEnd
    <2> QED BY <1>1, <1>7, <2>2, <2>3, Zenon DEF RestStartsNone
  <1>8. RestStartsNone'
    BY <1>7, Zenon DEF RestStartsNone
  <1> QED BY <1>4, <1>5, <1>6, <1>8

(* A read that begins in a request has the rest of it as far as it goes,   *)
(* and starts a span from the line and the headers in it.                  *)
LEMMA ReadOf ==
  ASSUME StreamInv, NEW n \in 1..Len(stream), Read(n),
         NEW i \in DOMAIN sent, last'.from >= start[i]
  PROVE  \E data \in Seq(Symbol), o \in Nat :
           /\ sent[i] \in Requests /\ start[i] \in Nat
           /\ last'.from = start[i] + o /\ last'.to = start[i] + o + Len(data)
           /\ \A k \in 1..Len(data) : o + k <= Len(Text(sent[i])) =>
                data[k] = Text(sent[i])[o + k]
           /\ span' = IF HttpLike(data, RequestLine(data))
                      THEN {[method |-> RequestLine(data).method,
                             path |-> RequestLine(data).path,
                             parent |-> Extract(ParseRequestHeaders(data))]}
                      ELSE {}
  <1> DEFINE data == SubSeq(stream, pos + 1, pos + n)
             r == sent[i]
             a == start[i]
             o == pos - a
  <1>1. /\ n \in Nat \ {0} /\ pos \in Nat /\ Len(stream) \in Nat
        /\ pos + n <= Len(stream) /\ stream \in Seq(Symbol)
    BY DEF StreamInv, Read
  <1>2. /\ data \in Seq(Symbol) /\ Len(data) = n
        /\ \A k \in 1..n : data[k] = stream[pos + k]
    <2>1. /\ pos + 1 \in 1..(Len(stream) + 1)
          /\ pos + n \in ((pos + 1) - 1)..Len(stream)
          /\ (pos + n) - (pos + 1) + 1 = n
          /\ \A k \in 1..n : (pos + 1) + k - 1 = pos + k
      BY <1>1
    <2>2. /\ data \in Seq(Symbol) /\ Len(data) = (pos + n) - (pos + 1) + 1
          /\ \A k \in 1..((pos + n) - (pos + 1) + 1) :
               data[k] = stream[(pos + 1) + k - 1]
      BY <1>1, <2>1, SubSeqIs
    <2> HIDE DEF data
    <2> QED BY <2>1, <2>2
  <1>3. span' = IF HttpLike(data, RequestLine(data))
                THEN {[method |-> RequestLine(data).method,
                       path |-> RequestLine(data).path,
                       parent |-> Extract(ParseRequestHeaders(data))]}
                ELSE {}
    BY Zenon DEF Read, RequestLine
  <1> HIDE DEF data
  <1>4. last'.from = pos /\ last'.to = pos + n
    BY DEF Read
  <1>5. /\ i \in 1..Len(sent) /\ r \in Requests /\ a \in Nat
    BY DEF StreamInv
  <1>6. Len(Text(r)) \in Nat
    BY <1>5, TextHasLine
  <1>7. \A k \in 1..Len(Text(r)) : stream[a + k] = Text(r)[k]
    BY <1>5 DEF StreamInv
  <1>8. o \in Nat /\ a + o = pos
    BY <1>1, <1>4, <1>5
  <1> HIDE DEF r, a, o
  <1>9. ASSUME NEW k \in 1..Len(data), o + k <= Len(Text(r))
        PROVE  data[k] = Text(r)[o + k]
    <2>1. k \in 1..n /\ o + k \in 1..Len(Text(r)) /\ a + (o + k) = pos + k
      BY <1>1, <1>2, <1>5, <1>6, <1>8, <1>9
    <2> QED BY <1>2, <1>7, <2>1
  <1>10. last'.from = a + o /\ last'.to = a + o + Len(data)
    BY <1>2, <1>4, <1>8
  <1> QED BY <1>2, <1>3, <1>5, <1>8, <1>9, <1>10, Zenon DEF r, a

(* A read that begins in the method of a request, and what it starts.      *)
LEMMA ReadBegun ==
  ASSUME StreamInv, NEW n \in 1..Len(stream), Read(n),
         NEW i \in DOMAIN sent, Begun(i)'
  PROVE  LET r == sent[i]
             h == r.headers
         IN \E p :
           /\ span' = IF last'.to >= LineEnd(i)' \/ HasVersion(TargetRead(i)')
                      THEN {[method |-> MethodRead(i)',
                             path |-> Before(TargetRead(i)', <<"?">>),
                             parent |-> p]}
                      ELSE {}
           /\ p = <<>> \/ \E j \in Traceparents(h) : CutParent(SentValue(h, j), p)
           /\ last'.to >= start[i] + Len(Text(r)) - Len(r.body) =>
                /\ last'.to >= LineEnd(i)' /\ TargetRead(i)' = r.target
                /\ p = SentParent(h)
  <1> DEFINE r == sent[i]
             h == r.headers
             a == r.method
             g == r.target
             x == Text(r)
  <1>0. sent' = sent /\ start' = start
    BY DEF Read, client
  <1>1. r \in Requests /\ start[i] \in Nat /\ last'.from \in Nat
    BY DEF StreamInv, Read
  <1>2. /\ IsRequest(a, g, r.version) /\ h \in Seq(Symbol) /\ r.body \in Seq(Symbol)
        /\ x \in Seq(Symbol) /\ HasLine(x, a, g, r.version)
    BY <1>1, TextHasLine, Zenon
  <1>3. /\ HasHead(x, LineLen(a, g), h)
        /\ Len(x) - Len(r.body) = LineLen(a, g) + 4 + Len(h)
    BY <1>1, TextHasHead
  <1>4. Lines(h)
    BY <1>1, <1>2, HeaderAssumption, Zenon DEF Lines
  <1>5. /\ Len(a) \in Nat \ {0} /\ Len(g) \in Nat \ {0} /\ Len(h) \in Nat
        /\ Len(r.body) \in Nat /\ Len(x) \in Nat /\ g \in Seq(Symbol)
    <2> HIDE DEF r, x
    <2> QED BY <1>2 DEF IsRequest
  <1>6. /\ last'.from >= start[i] /\ last'.from <= start[i] + Len(a) - 1
    <2>1. last'.from \in start[i]..(start[i] + Len(a) - 1)
      BY <1>0 DEF Begun
    <2> QED BY <1>1, <1>5, <2>1
  <1>7. PICK data \in Seq(Symbol), o \in Nat :
          /\ last'.from = start[i] + o /\ last'.to = start[i] + o + Len(data)
          /\ \A k \in 1..Len(data) : o + k <= Len(x) => data[k] = x[o + k]
          /\ span' = IF HttpLike(data, RequestLine(data))
                     THEN {[method |-> RequestLine(data).method,
                            path |-> RequestLine(data).path,
                            parent |-> Extract(ParseRequestHeaders(data))]}
                     ELSE {}
    BY <1>6, ReadOf, Zenon
  <1> DEFINE b == From(a, o + 1)
             y == From(x, o + 1)
             d == Len(data)
             p == Extract(ParseRequestHeaders(data))
             s == AfterLine(data)
             A == start[i]
             P == Len(a)
             N == Len(g)
             L == Len(h)
             X == Len(x)
             B == Len(r.body)
  <1>8. /\ A \in Nat /\ P \in Nat \ {0} /\ N \in Nat \ {0} /\ L \in Nat /\ X \in Nat
        /\ B \in Nat /\ d \in Nat /\ o \in Nat /\ o < P
        /\ last'.from = A + o /\ last'.to = A + o + d
        /\ X - B = P + N + 4 + 4 + L
    <2>1. o < P
      BY <1>1, <1>5, <1>6, <1>7
    <2>2. LineLen(a, g) = P + N + 4
      BY DEF LineLen
    <2>3. X - B = P + N + 4 + 4 + L
      BY <1>3, <2>2, Zenon
    <2>4. d \in Nat
      OBVIOUS
    <2> HIDE DEF d
    <2> QED BY <1>1, <1>5, <1>7, <2>1, <2>3, <2>4, Zenon DEF d
  <1>9. /\ IsRequest(b, g, r.version) /\ Len(b) = P - o
        /\ HasLine(y, b, g, r.version) /\ HasHead(y, LineLen(b, g), h)
        /\ y \in Seq(Symbol) /\ Len(y) = X - o
        /\ \A k \in 1..Len(y) : y[k] = x[o + k]
    <2>1. o \in 0..(Len(a) - 1)
      BY <1>5, <1>8
    <2> HIDE DEF a, g, h, x, r
    <2> QED BY <1>2, <1>3, <2>1, RestIsRequest
  <1>10. LineLen(b, g) = (P - o) + N + 4
    BY <1>9 DEF LineLen
  <1>11. /\ LineEnd(i)' = A + P + N + 4
         /\ MethodRead(i)' = From(a, (A + o) - A + 1)
         /\ TargetRead(i)' = SubSeq(g, 1, IF (A + o + d) - A - P - 1 < N
                                          THEN (A + o + d) - A - P - 1 ELSE N)
    BY <1>0, <1>7, Zenon DEF LineEnd, MethodRead, TargetRead
  <1> HIDE DEF r, h, a, g, x, y, p, s, A, P, N, L, X, B, d
  <1>12. Shows(data, y)
    <2>1. ASSUME NEW k \in 1..Len(y), k <= Len(data) PROVE data[k] = y[k]
      <3>1. k \in 1..d /\ o + k <= X
        <4> DEFINE e == Len(y)
        <4>1. e = X - o /\ k \in 1..e /\ k <= d
          BY <1>9, <2>1 DEF d
        <4> HIDE DEF e
        <4> QED BY <1>8, <4>1
      <3> QED BY <1>7, <1>9, <3>1 DEF d, X
    <2> QED BY <2>1 DEF Shows
  <1> DEFINE t == Part(b, g, d)
  <1>13. /\ MethodRead(i)' = b /\ TargetRead(i)' = t
    <2>1. (A + o) - A + 1 = o + 1 /\ (A + o + d) - A - P - 1 = d - (P - o) - 1
      BY <1>8
    <2>2. t = SubSeq(g, 1, IF d - (P - o) - 1 < N THEN d - (P - o) - 1 ELSE N)
      BY <1>9, Zenon DEF Part, Cut, N
    <2>3. MethodRead(i)' = b
      BY <1>11, <2>1
    <2>4. TargetRead(i)' = t
      BY <1>11, <2>1, <2>2
    <2> QED BY <2>3, <2>4
  <1>14. /\ HttpLike(data, RequestLine(data)) <=>
              d >= Len(b) + Len(g) + 4 \/ HasVersion(t)
         /\ HttpLike(data, RequestLine(data)) =>
              /\ RequestLine(data).method = b
              /\ RequestLine(data).path = Before(t, <<"?">>)
    <2> HIDE DEF b
    <2>1. IsRequest(b, g, r.version) /\ HasLine(y, b, g, r.version)
      BY <1>9
    <2> QED BY <1>12, <2>1, RequestRead DEF d
  <1>15. d >= Len(b) + Len(g) + 4 <=> last'.to >= LineEnd(i)'
    <2> DEFINE q == Len(b)
    <2>1. q = P - o /\ LineEnd(i)' = A + P + N + 4 /\ last'.to = A + o + d
      BY <1>8, <1>9, <1>11
    <2> HIDE DEF q, b
    <2>2. d >= q + N + 4 <=> A + o + d >= A + P + N + 4
      BY <1>8, <2>1
    <2> QED BY <2>1, <2>2 DEF q, N
  <1>16. /\ IsHead(s, h)
         /\ d >= LineLen(b, g) + 4 + L => Len(s) >= L + 2
    <2>1. LineLen(b, g) \in Nat /\ Len(y) \in Nat
      BY <1>8, <1>9, <1>10
    <2> HIDE DEF b
    <2> QED BY <1>2, <1>9, <1>12, <2>1, HeadRead DEF s, d, L
  <1>17. /\ p = <<>> \/ \E j \in Traceparents(h) : CutParent(SentValue(h, j), p)
         /\ Len(s) >= L + 2 => p = SentParent(h)
    BY <1>4, <1>16, ParentExtracted, Zenon DEF s, p, L
  <1>18. last'.to >= A + X - B =>
           /\ d >= LineLen(b, g) + 4 + L /\ last'.to >= LineEnd(i)'
           /\ ~((A + o + d) - A - P - 1 < N)
    <2> DEFINE m == LineLen(b, g)
    <2>1. m = (P - o) + N + 4 /\ LineEnd(i)' = A + P + N + 4 /\ last'.to = A + o + d
      BY <1>8, <1>10, <1>11
    <2> HIDE DEF m, b
    <2>2. A + o + d >= A + X - B =>
           /\ d >= m + 4 + L /\ A + o + d >= A + P + N + 4
           /\ ~((A + o + d) - A - P - 1 < N)
      BY <1>8, <2>1
    <2> QED BY <2>1, <2>2 DEF m
  <1>19. last'.to >= A + X - B => TargetRead(i)' = g
    <2>1. SubSeq(g, 1, N) = g
      BY <1>5, SubSeqFull DEF N
    <2> QED BY <1>11, <1>18, <2>1, Zenon
  <1>20. span' = IF last'.to >= LineEnd(i)' \/ HasVersion(TargetRead(i)')
                 THEN {[method |-> MethodRead(i)',
                        path |-> Before(TargetRead(i)', <<"?">>), parent |-> p]}
                 ELSE {}
    <2>1. HttpLike(data, RequestLine(data)) <=>
            last'.to >= LineEnd(i)' \/ HasVersion(TargetRead(i)')
      BY <1>13, <1>14, <1>15, Zenon
    <2>2. CASE HttpLike(data, RequestLine(data))
      <3>1. /\ RequestLine(data).method = MethodRead(i)'
            /\ RequestLine(data).path = Before(TargetRead(i)', <<"?">>)
        BY <1>13, <1>14, <2>2, Zenon
      <3> QED BY <1>7, <2>1, <2>2, <3>1, Zenon DEF p
    <2>3. CASE ~HttpLike(data, RequestLine(data))
      BY <1>7, <2>1, <2>3, Zenon
    <2> QED BY <2>2, <2>3
  <1> QED BY <1>16, <1>17, <1>18, <1>19, <1>20, Zenon DEF r, h, g, x, A, X, B

(* What a read that begins in a request line starts.                       *)
LEMMA ReadKeeps ==
  ASSUME StreamInv, NEW n \in 1..Len(stream), Read(n)
  PROVE  /\ StreamInv' /\ LineAsSent' /\ RestStartsNone'
         /\ ParentAsSent' /\ WholeHeadTraced'
  <1>1. /\ n \in Nat \ {0} /\ pos \in Nat /\ Len(stream) \in Nat
        /\ pos + n <= Len(stream)
        /\ pos' = pos + n /\ last' = [from |-> pos, to |-> pos + n]
        /\ UNCHANGED <<sent, stream, start>>
    BY DEF StreamInv, Read, client
  <1>2. StreamInv'
    <2>1. last'.from = pos /\ last'.to = pos + n /\ last' \in [from : Nat, to : Nat]
      BY <1>1
    <2> QED BY <1>1, <2>1 DEF StreamInv
  <1>3. ASSUME NEW i \in DOMAIN sent', Begun(i)'
        PROVE  LET h == sent'[i].headers IN
               /\ span' # {} <=> last'.to >= LineEnd(i)' \/ HasVersion(TargetRead(i)')
               /\ \A s \in span' :
                    /\ s.method = MethodRead(i)'
                    /\ s.path = Before(TargetRead(i)', <<"?">>)
                    /\ \/ s.parent = <<>>
                       \/ \E j \in Traceparents(h) : CutParent(SentValue(h, j), s.parent)
               /\ last'.to >= start'[i] + Len(Text(sent'[i])) - Len(sent'[i].body) =>
                    span' = {[method |-> MethodRead(i)',
                              path |-> Before(sent'[i].target, <<"?">>),
                              parent |-> SentParent(h)]}
    <2> DEFINE h == sent[i].headers
    <2>0. sent' = sent /\ start' = start
      BY <1>1
    <2>1. PICK p :
           /\ span' = IF last'.to >= LineEnd(i)' \/ HasVersion(TargetRead(i)')
                      THEN {[method |-> MethodRead(i)',
                             path |-> Before(TargetRead(i)', <<"?">>),
                             parent |-> p]}
                      ELSE {}
           /\ p = <<>> \/ \E j \in Traceparents(h) : CutParent(SentValue(h, j), p)
           /\ last'.to >= start[i] + Len(Text(sent[i])) - Len(sent[i].body) =>
                /\ last'.to >= LineEnd(i)' /\ TargetRead(i)' = sent[i].target
                /\ p = SentParent(h)
      BY <1>3, <2>0, ReadBegun, Zenon
    <2> DEFINE A == last'.to >= LineEnd(i)' \/ HasVersion(TargetRead(i)')
               v == Before(TargetRead(i)', <<"?">>)
               u == MethodRead(i)'
               w == [method |-> u, path |-> v, parent |-> p]
    <2>2. span' = IF A THEN {w} ELSE {}
      BY <2>1, Zenon
    <2>3. w.method = u /\ w.path = v /\ w.parent = p
      OBVIOUS
    <2> HIDE DEF A, u, v, w
    <2>4. span' # {} <=> A
      BY <2>2
    <2>5. \A s \in span' : s = w
      BY <2>2
    <2>6. last'.to >= start[i] + Len(Text(sent[i])) - Len(sent[i].body) => span' = {w}
      BY <2>1, <2>2, Zenon DEF A
    <2> QED BY <2>0, <2>1, <2>3, <2>4, <2>5, <2>6, Zenon DEF A, u, v, w
  <1>4. LineAsSent'
    BY <1>3, Zenon DEF LineAsSent
  <1>5. ParentAsSent'
    BY <1>3, Zenon DEF ParentAsSent, CutParent
  <1>6. WholeHeadTraced'
    BY <1>3, Zenon DEF WholeHeadTraced
  <1>7. ASSUME NEW i \in DOMAIN sent', last'.to > 0,
               last'.from \in (start'[i] + Len(sent'[i].method))..LineEnd(i)'
        PROVE  span' = {}
    <2> DEFINE r == sent[i]
               a == r.method
               g == r.target
               x == Text(r)
    <2>1. sent' = sent /\ start' = start /\ r \in Requests /\ start[i] \in Nat
      BY <1>1 DEF StreamInv
    <2>2. /\ IsRequest(a, g, r.version) /\ HasLine(x, a, g, r.version)
          /\ x \in Seq(Symbol) /\ r.headers \in Seq(Symbol)
          /\ HasHead(x, LineLen(a, g), r.headers)
      BY <2>1, TextHasLine, TextHasHead, Zenon
    <2>3. Len(a) \in Nat /\ Len(g) \in Nat /\ Len(r.headers) \in Nat /\ Len(x) \in Nat
      <3> HIDE DEF r, x
      <3> QED BY <2>2 DEF IsRequest
    <2>4. LineEnd(i)' = start[i] + Len(a) + Len(g) + 4
      BY <2>1 DEF LineEnd
    <2>5. /\ last'.from >= start[i] + Len(a) /\ last'.from <= LineEnd(i)'
          /\ last'.from \in Int
      BY <1>7, <2>1, <2>3, <2>4
    <2>6. last'.from >= start[i]
      BY <2>1, <2>3, <2>5
    <2>7. PICK data \in Seq(Symbol), o \in Nat :
            /\ last'.from = start[i] + o
            /\ \A k \in 1..Len(data) : o + k <= Len(x) => data[k] = x[o + k]
            /\ span' = IF HttpLike(data, RequestLine(data))
                       THEN {[method |-> RequestLine(data).method,
                              path |-> RequestLine(data).path,
                              parent |-> Extract(ParseRequestHeaders(data))]}
                       ELSE {}
      BY <2>1, <2>6, ReadOf, Zenon
    <2>8. o \in Len(a)..(Len(a) + Len(g) + 4)
      <3> DEFINE A == start[i]
                 P == Len(a)
                 N == Len(g)
                 f == last'.from
      <3>1. /\ A \in Nat /\ P \in Nat /\ N \in Nat /\ f >= A + P /\ f = A + o
            /\ f <= A + P + N + 4
        BY <2>1, <2>3, <2>4, <2>5, <2>7, Zenon
      <3> HIDE DEF A, P, N, f
      <3>2. o \in P..(P + N + 4)
        BY <3>1
      <3> QED BY <3>2 DEF P, N
    <2>9. /\ Len(x) >= Len(a) + Len(g) + 6
          /\ x[Len(a) + Len(g) + 5] = "CR" /\ x[Len(a) + Len(g) + 6] = "LF"
      <3> DEFINE P == Len(a)
                 N == Len(g)
                 L == Len(r.headers)
                 X == Len(x)
                 m == P + N + 4
      <3>1. /\ X >= m + 4 + L /\ x[m + 1] = "CR" /\ x[m + 2] = "LF"
        BY <2>2, Zenon DEF HasHead, LineLen
      <3>2. P \in Nat /\ N \in Nat /\ L \in Nat /\ X \in Nat
        BY <2>3
      <3> HIDE DEF P, N, L, X, a, g, x, r
      <3>3. X >= P + N + 6 /\ m + 1 = P + N + 5 /\ m + 2 = P + N + 6
        BY <3>1, <3>2
      <3>4. X >= P + N + 6 /\ x[P + N + 5] = "CR" /\ x[P + N + 6] = "LF"
        BY <3>1, <3>3
      <3> QED BY <3>4 DEF P, N, X
    <2> HIDE DEF a, g, x, r
    <2>10. ~HttpLike(data, RequestLine(data))
      BY <2>2, <2>7, <2>8, <2>9, RestRead
    <2> QED BY <2>7, <2>10, Zenon
  <1>8. RestStartsNone'
    BY <1>7, Zenon DEF RestStartsNone
  <1> QED BY <1>2, <1>4, <1>5, <1>6, <1>8

(* Every step keeps the invariant.                                         *)
LEMMA ReadInvHolds == Spec => []ReadInv
  <1>1. ReadInv /\ [Next]_vars => ReadInv'
    <2> SUFFICES ASSUME ReadInv, [Next]_vars PROVE ReadInv'
      OBVIOUS
    <2> USE DEF ReadInv
    <2>1. ASSUME NEW w, NEW h, NEW n, Write(w, h, n) \/ UNCHANGED vars
          PROVE  ReadInv'
      <3>1. UNCHANGED <<sent, stream, start, pos, last, span>>
        BY <2>1 DEF Write, vars, client
      <3>2. StreamInv'
        BY <3>1 DEF StreamInv
      <3>3. LineAsSent' /\ RestStartsNone'
        BY <3>1, Zenon DEF LineAsSent, RestStartsNone, Begun, LineEnd, MethodRead,
                           TargetRead
      <3>4. ParentAsSent'
        BY <3>1, Zenon DEF ParentAsSent, Begun
      <3>5. WholeHeadTraced'
        BY <3>1, Zenon DEF WholeHeadTraced, Begun, MethodRead
      <3> QED BY <3>2, <3>3, <3>4, <3>5
    <2>2. ASSUME NEW r \in Requests, ClientSend(r) PROVE ReadInv'
      BY <2>2, ClientSendInv, SendKeeps
    <2>3. ASSUME NEW n \in 1..Len(stream), Read(n) PROVE ReadInv'
      BY <2>3, ReadKeeps
    <2> QED BY <2>1, <2>2, <2>3 DEF Next
  <1> QED BY <1>1, StreamInit, PTL DEF Spec

(* For any requests in any order and any cuts: a read that begins in the   *)
(* method of a request starts a span exactly when it goes as far as the    *)
(* end of the request line or has "HTTP/1." or "HTTP/2" in the part of the *)
(* target it has, with what it has of the method and of the path.          *)
THEOREM RequestLineAsSent == Spec => []LineAsSent
  <1>1. ReadInv => LineAsSent
    BY DEF ReadInv
  <1> QED BY <1>1, ReadInvHolds, PTL

(* A read that begins behind the method of a request line starts no span,  *)
(* whatever the target has in it and whatever follows in the same read.    *)
THEOREM RestOfLineStartsNone == Spec => []RestStartsNone
  <1>1. ReadInv => RestStartsNone
    BY DEF ReadInv
  <1> QED BY <1>1, ReadInvHolds, PTL

(* Wherever a read cuts a request, the parent of the span is none or what  *)
(* the first symbols of one of its traceparents name, of the length that a *)
(* traceparent of version 00 has: no id is shortened or made up, and none  *)
(* comes from another header, from the body or from another request.       *)
THEOREM ParentIsAsSent == Spec => []ParentAsSent
  <1>1. ReadInv => ParentAsSent
    BY DEF ReadInv
  <1> QED BY <1>1, ReadInvHolds, PTL

(* A read of a whole head starts a span that continues the trace which the *)
(* request's last traceparent names, whatever else the head holds and      *)
(* whatever follows it.                                                    *)
THEOREM WholeHeadIsTraced == Spec => []WholeHeadTraced
  <1>1. ReadInv => WholeHeadTraced
    BY DEF ReadInv
  <1> QED BY <1>1, ReadInvHolds, PTL
=============================================================================
