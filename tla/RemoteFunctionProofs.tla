----------------------- MODULE RemoteFunctionProofs ------------------------
(***************************************************************************)
(* What holds of a remote function between the schedule and the panel, for *)
(* any urls, ranges, requests and sliders, and any number of late requests.*)
(***************************************************************************)
EXTENDS RemoteFunction, SequenceTheorems, WellFoundedInduction, TLAPS

-----------------------------------------------------------------------------
(* The url.                                                                *)

\* What a sequence of two pieces has at each of its positions.
LEMMA Joined ==
  ASSUME NEW S, NEW a \in Seq(S), NEW b \in Seq(S)
  PROVE  /\ a \o b \in Seq(S) /\ Len(a \o b) = Len(a) + Len(b)
         /\ \A i \in 1 .. Len(a) : (a \o b)[i] = a[i]
         /\ \A i \in 1 .. Len(b) : (a \o b)[Len(a) + i] = b[i]
<1>1. Len(a) \in Nat /\ Len(b) \in Nat
  BY LenProperties
<1> QED
  BY <1>1, ConcatProperties

\* A text has the tokens of three pieces, one after the other.
Consists(text, S, a, b, c) ==
  /\ text \in Seq(S) /\ Len(text) = Len(a) + Len(b) + Len(c)
  /\ DOMAIN text = 1 .. Len(text)
  /\ \A i \in 1 .. Len(a) : text[i] = a[i]
  /\ \A i \in 1 .. Len(b) : text[Len(a) + i] = b[i]
  /\ \A i \in 1 .. Len(c) : text[Len(a) + Len(b) + i] = c[i]

\* What a url of three pieces has at each of its positions.
LEMMA Pieces ==
  ASSUME NEW S, NEW a \in Seq(S), NEW b \in Seq(S), NEW c \in Seq(S)
  PROVE  Consists((a \o b) \o c, S, a, b, c)
<1> DEFINE ab == a \o b
<1>1. /\ ab \in Seq(S) /\ Len(ab) = Len(a) + Len(b)
      /\ \A i \in 1 .. Len(a) : ab[i] = a[i]
      /\ \A i \in 1 .. Len(b) : ab[Len(a) + i] = b[i]
  BY Joined
<1> HIDE DEF ab
<1>2. /\ ab \o c \in Seq(S) /\ Len(ab \o c) = Len(ab) + Len(c)
      /\ \A i \in 1 .. Len(ab) : (ab \o c)[i] = ab[i]
      /\ \A i \in 1 .. Len(c) : (ab \o c)[Len(ab) + i] = c[i]
  <2>1. ab \in Seq(S)
    BY <1>1
  <2> QED
    BY <2>1, Joined
<1>3. DOMAIN (ab \o c) = 1 .. Len(ab \o c)
  BY <1>2, LenProperties
<1>4. Len(a) \in Nat /\ Len(b) \in Nat /\ Len(c) \in Nat
  BY LenProperties
<1>5. \A i \in 1 .. Len(a) : (ab \o c)[i] = a[i]
  BY <1>1, <1>2, <1>4
<1>6. \A i \in 1 .. Len(b) : (ab \o c)[Len(a) + i] = b[i]
  BY <1>1, <1>2, <1>4
<1>7. /\ Len(ab \o c) = Len(a) + Len(b) + Len(c)
      /\ \A i \in 1 .. Len(c) : (ab \o c)[Len(a) + Len(b) + i] = c[i]
  BY <1>1, <1>2, <1>4
<1> QED
  BY <1>2, <1>3, <1>5, <1>6, <1>7, Zenon DEF ab, Consists

\* A token is last where it is and none follows.
LEMMA LastIs ==
  ASSUME NEW S, NEW text \in Seq(S), NEW token, NEW k \in DOMAIN text, text[k] = token,
         \A j \in DOMAIN text : j > k => text[j] # token
  PROVE  Has(text, token) /\ LastOf(text, token) = k
<1>1. DOMAIN text \subseteq Int
  BY LenProperties
<1> DEFINE P(i) == text[i] = token /\ \A j \in DOMAIN text : text[j] = token => j <= i
<1>2. P(k)
  BY <1>1
<1>3. \A i \in DOMAIN text : P(i) => i = k
  BY <1>1, <1>2
<1>4. (CHOOSE i \in DOMAIN text : P(i)) = k
  BY <1>2, <1>3
<1> QED
  BY <1>4 DEF LastOf, Has

\* A set of positions has a last one.
LEMMA LastPosition ==
  ASSUME NEW n \in Nat, NEW S \in SUBSET (1 .. n), S # {}
  PROVE  \E i \in S : \A j \in S : j <= i
<1> DEFINE T == {n - i : i \in S}
           R == OpToRel(<, Nat)
<1>1. \A i \in S : i \in 1 .. n /\ n - i \in Nat
  OBVIOUS
<1>2. T \subseteq Nat /\ T # {}
  BY <1>1
<1>3. IsWellFoundedOn(R, Nat)
  BY NatLessThanWellFounded
<1>4. \A x, y \in Nat : x < y => <<x, y>> \in R
  BY DEF OpToRel
<1> HIDE DEF T, R
<1>5. PICK x \in T : \A y \in T : ~ (<<y, x>> \in R)
  <2>1. IsWellFoundedOn(R, T)
    BY <1>2, <1>3, IsWellFoundedOnSubset
  <2> QED
    BY <1>2, <2>1, WFMin
<1>6. ASSUME NEW y \in T PROVE x <= y
  <2>1. x \in Nat /\ y \in Nat /\ ~ (<<y, x>> \in R)
    BY <1>2, <1>5
  <2>2. ~(y < x)
    BY <1>4, <2>1
  <2> QED
    BY <2>1, <2>2
<1>7. PICK i \in S : x = n - i
  BY <1>5 DEF T
<1>8. ASSUME NEW j \in S PROVE j <= i
  <2>1. n - j \in T
    BY DEF T
  <2>2. n - i <= n - j
    BY <1>6, <1>7, <2>1
  <2> QED
    BY <1>1, <2>2
<1> QED
  BY <1>8

\* A token that is there is last somewhere.
LEMMA LastOfFound ==
  ASSUME NEW S, NEW text \in Seq(S), NEW token, Has(text, token)
  PROVE  /\ LastOf(text, token) \in DOMAIN text /\ text[LastOf(text, token)] = token
         /\ \A j \in DOMAIN text : text[j] = token => j <= LastOf(text, token)
<1> DEFINE places == {i \in DOMAIN text : text[i] = token}
<1>1. Len(text) \in Nat /\ DOMAIN text = 1 .. Len(text)
  BY LenProperties
<1>2. places \in SUBSET (1 .. Len(text)) /\ places # {}
  BY <1>1 DEF Has
<1>3. PICK i \in places : \A j \in places : j <= i
  <2> HIDE DEF places
  <2> QED
    BY <1>1, <1>2, LastPosition
<1>4. \E k \in DOMAIN text : text[k] = token /\ \A j \in DOMAIN text : text[j] = token => j <= k
  BY <1>3
<1> QED
  BY <1>4 DEF LastOf

\* The search ends at the first token that is no number.
LEMMA AfterIs ==
  ASSUME NEW text, NEW start \in Nat, Len(text) \in Nat, NEW k \in start + 1 .. Len(text),
         text[k] \notin Digits, \A j \in start + 1 .. k - 1 : text[j] \in Digits
  PROVE  AfterDigits(text, start) = {k}
<1>1. k \in AfterDigits(text, start)
  BY DEF AfterDigits
<1>2. ASSUME NEW i \in AfterDigits(text, start) PROVE i = k
  <2>1. /\ i \in start + 1 .. Len(text) /\ text[i] \notin Digits
        /\ \A j \in start + 1 .. i - 1 : text[j] \in Digits
    BY DEF AfterDigits
  <2>2. ~(i < k)
    BY <2>1
  <2>3. ~(k < i)
    BY <2>1
  <2> QED
    BY <2>1, <2>2, <2>3
<1> QED
  BY <1>1, <1>2

\* Cut where its pieces meet, a text has the first of them before and the last
\* of them behind.
Divides(text, a, b, c) ==
  /\ SubSeq(text, 1, Len(a)) = a
  /\ SubSeq(text, Len(a) + Len(b) + 1, Len(text)) = c

\* The pieces of a url that is cut where they meet.
LEMMA CutWhereWritten ==
  ASSUME NEW S, NEW a \in Seq(S), NEW b \in Seq(S), NEW c \in Seq(S),
         NEW text, Consists(text, S, a, b, c)
  PROVE  Divides(text, a, b, c)
<1>1. /\ text \in Seq(S) /\ Len(text) = Len(a) + Len(b) + Len(c)
      /\ \A i \in 1 .. Len(a) : text[i] = a[i]
      /\ \A i \in 1 .. Len(c) : text[Len(a) + Len(b) + i] = c[i]
  BY DEF Consists
<1>2. Len(a) \in Nat /\ Len(b) \in Nat /\ Len(c) \in Nat
  BY LenProperties
<1>3. SubSeq(text, 1, Len(a)) = [i \in 1 .. Len(a) |-> text[i]]
  BY <1>1, <1>2
<1>4. a = [i \in 1 .. Len(a) |-> a[i]]
  BY LenProperties
<1>5. SubSeq(text, 1, Len(a)) = a
  BY <1>1, <1>3, <1>4
<1>6. SubSeq(text, Len(a) + Len(b) + 1, Len(text)) = [i \in 1 .. Len(c) |-> text[Len(a) + Len(b) + i]]
  BY <1>1, <1>2
<1>7. c = [i \in 1 .. Len(c) |-> c[i]]
  BY LenProperties
<1>8. SubSeq(text, Len(a) + Len(b) + 1, Len(text)) = c
  BY <1>1, <1>6, <1>7
<1> QED
  BY <1>5, <1>8 DEF Divides

\* A function is a slash and a path.
LEMMA FunctionWritten ==
  ASSUME NEW path \in Seq(Tokens)
  PROVE  LET function == <<"/">> \o path IN
           /\ function \in Seq(Tokens) /\ Len(function) = 1 + Len(path)
           /\ Len(path) \in Nat /\ DOMAIN path = 1 .. Len(path)
           /\ function[1] = "/"
           /\ \A i \in 1 .. Len(path) : function[1 + i] = path[i]
<1> DEFINE slash == <<"/">>
<1>1. slash \in Seq(Tokens) /\ Len(slash) = 1 /\ slash[1] = "/"
  BY UrlAssumption
<1> HIDE DEF slash
<1>2. /\ slash \o path \in Seq(Tokens) /\ Len(slash \o path) = Len(slash) + Len(path)
      /\ \A i \in 1 .. Len(slash) : (slash \o path)[i] = slash[i]
      /\ \A i \in 1 .. Len(path) : (slash \o path)[Len(slash) + i] = path[i]
  <2>1. slash \in Seq(Tokens)
    BY <1>1
  <2> QED
    BY <2>1, Joined
<1>3. Len(path) \in Nat /\ DOMAIN path = 1 .. Len(path)
  BY LenProperties
<1>4. (slash \o path)[1] = "/"
  BY <1>1, <1>2
<1> QED
  BY <1>1, <1>2, <1>3, <1>4 DEF slash

\* A port ends at the slash of the function.
LEMMA PortTaken ==
  ASSUME NEW host \in Seq(Tokens), NEW path \in Seq(Tokens), ~Has(path, ":"),
         NEW number \in Digits
  PROVE  LET function == <<"/">> \o path IN
           Taken((host \o <<":", number>>) \o function) = Meant(host, <<number>>, function)
<1> DEFINE port == <<":", number>>
           function == <<"/">> \o path
           text == (host \o port) \o function
           colon == Len(host) + 1
<1>1. port \in Seq(Tokens) /\ Len(port) = 2 /\ port[1] = ":" /\ port[2] = number
  BY UrlAssumption
<1>2. /\ function \in Seq(Tokens) /\ Len(function) = 1 + Len(path)
      /\ Len(path) \in Nat /\ DOMAIN path = 1 .. Len(path)
      /\ function[1] = "/"
      /\ \A i \in 1 .. Len(path) : function[1 + i] = path[i]
  BY FunctionWritten
<1>3. Len(host) \in Nat
  BY LenProperties
<1> HIDE DEF port, function
<1>0. Consists(text, Tokens, host, port, function)
  BY <1>1, <1>2, Pieces
<1> HIDE DEF text
<1>4. /\ text \in Seq(Tokens) /\ Len(text) = Len(host) + Len(port) + Len(function)
      /\ DOMAIN text = 1 .. Len(text)
      /\ \A i \in 1 .. Len(host) : text[i] = host[i]
      /\ \A i \in 1 .. Len(port) : text[Len(host) + i] = port[i]
      /\ \A i \in 1 .. Len(function) : text[Len(host) + Len(port) + i] = function[i]
  BY <1>0 DEF Consists
<1>5. SubSeq(text, 1, Len(host)) = host /\ SubSeq(text, Len(host) + Len(port) + 1, Len(text)) = function
  <2>1. Divides(text, host, port, function)
    BY <1>0, <1>1, <1>2, CutWhereWritten
  <2> QED
    BY <2>1 DEF Divides
<1>6. text[colon] = ":" /\ text[colon + 1] = number /\ text[colon + 2] = "/"
  BY <1>1, <1>2, <1>3, <1>4
<1>7. ASSUME NEW j \in DOMAIN text, j > colon + 2 PROVE text[j] # ":"
  <2>1. j - (colon + 2) \in 1 .. Len(path) /\ j = Len(host) + Len(port) + (1 + (j - (colon + 2)))
    BY <1>1, <1>2, <1>3, <1>4, <1>7
  <2>2. text[j] = path[j - (colon + 2)]
    BY <1>2, <1>4, <2>1
  <2> QED
    BY <1>2, <2>1, <2>2 DEF Has
<1>8. Has(text, ":") /\ LastOf(text, ":") = colon
  <2>1. colon \in DOMAIN text
    BY <1>1, <1>2, <1>3, <1>4
  <2>2. \A j \in DOMAIN text : j > colon => text[j] # ":"
    BY <1>3, <1>4, <1>6, <1>7 DEF Digits
  <2>3. text \in Seq(Tokens) /\ text[colon] = ":"
    BY <1>4, <1>6
  <2> HIDE DEF colon
  <2> QED
    BY <2>1, <2>2, <2>3, LastIs
<1>9. AfterDigits(text, colon) = {colon + 2}
  <2>1. colon \in Nat /\ Len(text) \in Nat /\ colon + 2 \in colon + 1 .. Len(text)
    BY <1>1, <1>2, <1>3, <1>4
  <2>2. text[colon + 2] \notin Digits
    BY <1>6 DEF Digits
  <2>3. \A j \in colon + 1 .. colon + 2 - 1 : text[j] \in Digits
    BY <1>3, <1>6
  <2> HIDE DEF colon
  <2> QED
    BY <2>1, <2>2, <2>3, AfterIs
<1>10. SubSeq(text, colon + 1, colon + 1) = <<number>>
  <2>1. SubSeq(text, colon + 1, colon + 1) = [i \in 1 .. 1 |-> text[colon + i]]
    BY <1>1, <1>2, <1>3, <1>4
  <2>2. \A i \in 1 .. 1 : text[colon + i] = number
    BY <1>6
  <2>3. SubSeq(text, colon + 1, colon + 1) = [i \in 1 .. 1 |-> number]
    BY <2>1, <2>2
  <2>4. <<number>> = [i \in 1 .. 1 |-> number]
    OBVIOUS
  <2> QED
    BY <2>3, <2>4
<1>11. Parts(text, colon - 1, SubSeq(text, colon + 1, colon + 1), colon + 2)
         = [host |-> host, port |-> <<number>>, function |-> function]
  <2>1. colon - 1 = Len(host) /\ colon + 2 = Len(host) + Len(port) + 1
    BY <1>1, <1>3
  <2> QED
    BY <1>5, <1>10, <2>1 DEF Parts
<1> HIDE DEF colon
<1>12. Taken(text) = {Parts(text, colon - 1, SubSeq(text, colon + 1, colon + 1), colon + 2)}
  <2> DEFINE Cut(i) == Parts(text, colon - 1, SubSeq(text, colon + 1, i - 1), i)
  <2>1. AfterDigits(text, colon) # {}
    BY <1>9
  <2>2. Taken(text) = {Cut(i) : i \in AfterDigits(text, colon)}
    BY <1>8, <2>1, Zenon DEF Taken
  <2> HIDE DEF Cut
  <2>3. Taken(text) = {Cut(colon + 2)}
    BY <1>9, <2>2
  <2>4. (colon + 2) - 1 = colon + 1
    BY <1>3 DEF colon
  <2>5. Cut(colon + 2) = Parts(text, colon - 1, SubSeq(text, colon + 1, colon + 1), colon + 2)
    BY <2>4, Zenon DEF Cut
  <2> QED
    BY <2>3, <2>5, Zenon
<1> QED
  BY <1>11, <1>12 DEF Meant, text, port, function

\* Without a port the url is divided at its last slash.
LEMMA SlashTaken ==
  ASSUME NEW host \in Seq(Tokens), NEW path \in Seq(Tokens), ~Has(host, ":"), ~Has(path, ":"),
         ~Has(path, "/")
  PROVE  LET function == <<"/">> \o path IN
           Taken(host \o function) = Meant(host, DefaultPort, function)
<1> DEFINE function == <<"/">> \o path
           gap == <<>>
           text == (host \o gap) \o function
           slash == Len(host) + 1
<1>1. host \o gap = host /\ gap \in Seq(Tokens) /\ Len(gap) = 0
  BY ConcatEmptySeq, EmptySeq
<1>2. /\ function \in Seq(Tokens) /\ Len(function) = 1 + Len(path)
      /\ Len(path) \in Nat /\ DOMAIN path = 1 .. Len(path)
      /\ function[1] = "/"
      /\ \A i \in 1 .. Len(path) : function[1 + i] = path[i]
  BY FunctionWritten
<1>3. Len(host) \in Nat /\ DOMAIN host = 1 .. Len(host)
  BY LenProperties
<1> HIDE DEF function, gap
<1>0. Consists(text, Tokens, host, gap, function)
  BY <1>1, <1>2, Pieces
<1> HIDE DEF text
<1>4. /\ text \in Seq(Tokens) /\ Len(text) = Len(host) + 0 + Len(function)
      /\ DOMAIN text = 1 .. Len(text)
      /\ \A i \in 1 .. Len(host) : text[i] = host[i]
      /\ \A i \in 1 .. Len(function) : text[Len(host) + 0 + i] = function[i]
  BY <1>1, <1>0 DEF Consists
<1>5. SubSeq(text, 1, Len(host)) = host /\ SubSeq(text, Len(host) + 0 + 1, Len(text)) = function
  <2>1. Divides(text, host, gap, function)
    BY <1>0, <1>1, <1>2, CutWhereWritten
  <2> QED
    BY <1>1, <2>1 DEF Divides
<1>6. text[slash] = "/"
  BY <1>2, <1>3, <1>4
<1>7. ASSUME NEW j \in DOMAIN text, j > slash PROVE text[j] # ":" /\ text[j] # "/"
  <2>1. j - slash \in 1 .. Len(path) /\ j = Len(host) + 0 + (1 + (j - slash))
    BY <1>2, <1>3, <1>4, <1>7
  <2>2. text[j] = path[j - slash]
    BY <1>2, <1>4, <2>1
  <2> QED
    BY <1>2, <2>1, <2>2 DEF Has
<1>8. ~Has(text, ":")
  <2>1. ASSUME NEW j \in DOMAIN text PROVE text[j] # ":"
    <3>1. CASE j \in 1 .. Len(host)
      BY <1>3, <1>4, <3>1 DEF Has
    <3>2. CASE j = slash
      BY <1>6, <3>2
    <3>3. CASE j > slash
      BY <1>7, <3>3
    <3> QED
      BY <1>3, <1>4, <3>1, <3>2, <3>3
  <2> QED
    BY <2>1 DEF Has
<1>9. Has(text, "/") /\ LastOf(text, "/") = slash
  <2>1. slash \in DOMAIN text
    BY <1>2, <1>3, <1>4
  <2>2. text \in Seq(Tokens) /\ text[slash] = "/" /\ \A j \in DOMAIN text : j > slash => text[j] # "/"
    BY <1>4, <1>6, <1>7
  <2> HIDE DEF slash
  <2> QED
    BY <2>1, <2>2, LastIs
<1>10. Parts(text, slash - 1, DefaultPort, slash)
         = [host |-> host, port |-> DefaultPort, function |-> function]
  <2>1. slash - 1 = Len(host) /\ slash = Len(host) + 0 + 1
    BY <1>3
  <2> QED
    BY <1>5, <2>1 DEF Parts
<1>11. text = host \o function
  BY <1>1 DEF text
<1> HIDE DEF slash
<1> QED
  BY <1>8, <1>9, <1>10, <1>11 DEF Taken, Meant, function

\* Behind the colon of a scheme there is no port.
LEMMA SchemeTaken ==
  ASSUME NEW host \in Seq(Tokens), NEW path \in Seq(Tokens), ~Has(host, ":"), ~Has(path, ":"),
         "http" \in Tokens
  PROVE  LET text == (<<"http", ":", "/", "/">> \o host) \o (<<"/">> \o path) IN
           \A p \in Taken(text) : p.port = <<>>
<1> DEFINE scheme == <<"http", ":", "/", "/">>
           function == <<"/">> \o path
           text == (scheme \o host) \o function
<1>1. scheme \in Seq(Tokens) /\ Len(scheme) = 4 /\ scheme[2] = ":" /\ scheme[3] = "/" /\ scheme[4] = "/"
  BY UrlAssumption
<1>2. /\ function \in Seq(Tokens) /\ Len(function) = 1 + Len(path)
      /\ Len(path) \in Nat /\ DOMAIN path = 1 .. Len(path)
      /\ function[1] = "/"
      /\ \A i \in 1 .. Len(path) : function[1 + i] = path[i]
  BY FunctionWritten
<1>3. Len(host) \in Nat /\ DOMAIN host = 1 .. Len(host)
  BY LenProperties
<1> HIDE DEF scheme, function
<1>0. Consists(text, Tokens, scheme, host, function)
  BY <1>1, <1>2, Pieces
<1> HIDE DEF text
<1>4. /\ text \in Seq(Tokens) /\ Len(text) = Len(scheme) + Len(host) + Len(function)
      /\ DOMAIN text = 1 .. Len(text)
      /\ \A i \in 1 .. Len(scheme) : text[i] = scheme[i]
      /\ \A i \in 1 .. Len(host) : text[Len(scheme) + i] = host[i]
      /\ \A i \in 1 .. Len(function) : text[Len(scheme) + Len(host) + i] = function[i]
  BY <1>0 DEF Consists
<1>5. text[2] = ":" /\ text[3] = "/" /\ text[4] = "/" /\ text[5 + Len(host)] = "/"
  BY <1>1, <1>2, <1>3, <1>4
<1>6. ASSUME NEW j \in DOMAIN text, j > 2 PROVE text[j] # ":"
  <2>1. CASE j \in {3, 4, 5 + Len(host)}
    BY <1>5, <2>1
  <2>2. CASE j \in 5 .. 4 + Len(host)
    <3>1. j - 4 \in 1 .. Len(host) /\ j = Len(scheme) + (j - 4)
      BY <1>1, <1>3, <2>2
    <3>2. text[j] = host[j - 4]
      BY <1>4, <3>1
    <3> QED
      BY <1>3, <3>1, <3>2 DEF Has
  <2>3. CASE j > 5 + Len(host)
    <3>1. /\ j - (5 + Len(host)) \in 1 .. Len(path)
          /\ j = Len(scheme) + Len(host) + (1 + (j - (5 + Len(host))))
      BY <1>1, <1>2, <1>3, <1>4, <2>3
    <3>2. text[j] = path[j - (5 + Len(host))]
      BY <1>2, <1>4, <3>1
    <3> QED
      BY <1>2, <3>1, <3>2 DEF Has
  <2> QED
    BY <1>3, <1>4, <1>6, <2>1, <2>2, <2>3
<1>7. Has(text, ":") /\ LastOf(text, ":") = 2
  <2> DEFINE colon == 2
  <2>1. colon \in DOMAIN text
    BY <1>1, <1>2, <1>3, <1>4
  <2>2. text \in Seq(Tokens) /\ text[colon] = ":" /\ \A j \in DOMAIN text : j > colon => text[j] # ":"
    BY <1>4, <1>5, <1>6
  <2> HIDE DEF colon
  <2>3. Has(text, ":") /\ LastOf(text, ":") = colon
    BY <2>1, <2>2, LastIs
  <2> QED
    BY <2>3 DEF colon
<1>8. AfterDigits(text, 2) = {3}
  <2>1. Len(text) \in Nat /\ 3 \in 2 + 1 .. Len(text)
    BY <1>1, <1>2, <1>3, <1>4
  <2>2. text[3] \notin Digits /\ \A j \in 2 + 1 .. 3 - 1 : text[j] \in Digits
    BY <1>5 DEF Digits
  <2> QED
    BY <2>1, <2>2, AfterIs
<1>9. SubSeq(text, 2 + 1, 3 - 1) = <<>>
  BY <1>4
<1>10. Taken(text) = {Parts(text, 2 - 1, SubSeq(text, 2 + 1, 3 - 1), 3)}
  BY <1>7, <1>8 DEF Taken
<1> QED
  BY <1>9, <1>10 DEF Parts, text, scheme, function

\* With a colon in the path more than the host is taken for it: the url is cut
\* at that colon, or at the slash of the function or one behind it.
LEMMA ColonInPath ==
  ASSUME NEW host \in Seq(Tokens), NEW path \in Seq(Tokens), Has(path, ":")
  PROVE  LET text == (host \o <<":", "digits">>) \o (<<"/">> \o path) IN
           \A p \in Taken(text) : p.host # host
<1> DEFINE port == <<":", "digits">>
           function == <<"/">> \o path
           text == (host \o port) \o function
<1>1. port \in Seq(Tokens) /\ Len(port) = 2
  BY UrlAssumption DEF Digits
<1>2. /\ function \in Seq(Tokens) /\ Len(function) = 1 + Len(path)
      /\ Len(path) \in Nat /\ DOMAIN path = 1 .. Len(path)
      /\ function[1] = "/"
      /\ \A i \in 1 .. Len(path) : function[1 + i] = path[i]
  BY FunctionWritten
<1>3. Len(host) \in Nat
  BY LenProperties
<1> HIDE DEF port, function
<1>4. Consists(text, Tokens, host, port, function)
  BY <1>1, <1>2, Pieces
<1> HIDE DEF text
<1>5. /\ text \in Seq(Tokens) /\ Len(text) = Len(host) + Len(port) + Len(function)
      /\ DOMAIN text = 1 .. Len(text)
      /\ \A i \in 1 .. Len(function) : text[Len(host) + Len(port) + i] = function[i]
  BY <1>4 DEF Consists
<1>6. Len(host) + 3 \in DOMAIN text /\ text[Len(host) + 3] = "/"
  BY <1>1, <1>2, <1>3, <1>5
<1>7. PICK k \in 1 .. Len(path) : path[k] = ":"
  BY <1>2 DEF Has
<1>8. Len(host) + 3 + k \in DOMAIN text /\ text[Len(host) + 3 + k] = ":"
  <2>1. 1 + k \in 1 .. Len(function) /\ Len(host) + Len(port) + (1 + k) = Len(host) + 3 + k
    BY <1>1, <1>2, <1>3
  <2>2. text[Len(host) + Len(port) + (1 + k)] = ":"
    BY <1>2, <1>5, <1>7, <2>1
  <2> QED
    BY <1>1, <1>2, <1>3, <1>5, <2>1, <2>2
<1>9. Has(text, ":") /\ Has(text, "/")
  BY <1>6, <1>8 DEF Has
<1>10. LastOf(text, ":") \in DOMAIN text /\ Len(host) + 3 <= LastOf(text, ":")
  <2>1. LastOf(text, ":") \in DOMAIN text /\ Len(host) + 3 + k <= LastOf(text, ":")
    BY <1>5, <1>8, <1>9, LastOfFound
  <2> QED
    BY <1>3, <1>5, <2>1
<1>11. LastOf(text, "/") \in DOMAIN text /\ Len(host) + 3 <= LastOf(text, "/")
  BY <1>5, <1>6, <1>9, LastOfFound
<1>12. ASSUME NEW m \in DOMAIN text, Len(host) + 3 <= m
       PROVE  SubSeq(text, 1, m - 1) # host
  <2>1. m \in Nat /\ m <= Len(text) /\ Len(text) \in Nat
    BY <1>1, <1>2, <1>3, <1>5
  <2>2. Len(SubSeq(text, 1, m - 1)) = m - 1
    BY <1>3, <1>5, <1>12, <2>1
  <2> QED
    BY <1>3, <1>12, <2>1, <2>2
<1>13. ASSUME NEW p \in Taken(text) PROVE p.host # host
  <2>1. p.host \in {SubSeq(text, 1, LastOf(text, ":") - 1), SubSeq(text, 1, LastOf(text, "/") - 1)}
    BY <1>9 DEF Taken, Parts
  <2> QED
    BY <1>10, <1>11, <1>12, <2>1
<1> QED
  BY <1>13 DEF text, port, function

\* A url of a host, a port and a path is taken apart as it is written
\* (remote_function::update_values) exactly when its path has no colon; for
\* any hosts and paths.
THEOREM SplitsAsWrittenHolds == SplitsAsWritten
<1> SUFFICES ASSUME NEW host \in Hosts, NEW path \in Paths
             PROVE  SplitAsWritten(host, path)
  BY DEF SplitsAsWritten, SplitWrong
<1>1. host \in Seq(Tokens) /\ path \in Seq(Tokens)
  BY UrlAssumption
<1> DEFINE function == <<"/">> \o path
<1>2. CASE Has(path, ":")
  <2>1. \A p \in Taken((host \o <<":", "digits">>) \o function) : p.host # host
    BY <1>1, <1>2, ColonInPath
  <2> DEFINE text == (host \o <<":", "digits">>) \o function
             meant == [host |-> host, port |-> <<"digits">>, function |-> function]
  <2>2. Split(text) # Meant(host, <<"digits">>, function)
    <3>1. \A p \in Taken(text) : p.host # host
      BY <2>1
    <3>2. meant.host = host /\ meant \in Meant(host, <<"digits">>, function)
      BY DEF Meant
    <3> HIDE DEF text, meant
    <3>3. meant \notin Split(text)
      BY <3>1, <3>2 DEF Split
    <3> QED
      BY <3>2, <3>3
  <2> QED
    BY <1>2, <2>2 DEF SplitAsWritten
<1>3. CASE ~Has(path, ":")
  <2>1. /\ Taken((host \o <<":", "digits">>) \o function) = Meant(host, <<"digits">>, function)
        /\ Taken((host \o <<":", "big">>) \o function) = Meant(host, <<"big">>, function)
    BY <1>1, <1>3, PortTaken DEF Digits
  <2>2. PortParses(<<"digits">>) /\ PortParses(DefaultPort) /\ ~PortParses(<<"big">>) /\ ~PortParses(<<>>)
    BY DEF PortParses, Has, DefaultPort
  <2>3. Split((host \o <<":", "digits">>) \o function) = Meant(host, <<"digits">>, function)
    BY <2>1, <2>2 DEF Split, Meant
  <2>4. Split((host \o <<":", "big">>) \o function) = {}
    BY <2>1, <2>2 DEF Split, Meant
  <2>5. ASSUME ~Has(host, ":"), ~Has(path, "/")
        PROVE  Split(host \o function) = Meant(host, DefaultPort, function)
    BY <1>1, <1>3, <2>2, <2>5, SlashTaken DEF Split, Meant
  <2>6. ASSUME ~Has(host, ":")
        PROVE  Split((<<"http", ":", "/", "/">> \o host) \o function) = {}
    BY <1>1, <1>3, <2>2, <2>6, SchemeTaken, UrlAssumption DEF Split
  <2> QED
    BY <1>3, <2>3, <2>4, <2>5, <2>6 DEF SplitAsWritten
<1> QED
  BY <1>2, <1>3

-----------------------------------------------------------------------------
(* The slider.                                                             *)

\* The quotient of a number between two multiples lies between the factors.
LEMMA QuotientBetween ==
  ASSUME NEW x \in Nat, NEW s \in Nat \ {0}, NEW a \in Nat, NEW b \in Nat,
         a * s <= x, x <= b * s
  PROVE  x \div s \in a .. b
<1> DEFINE q == x \div s
<1>1. q \in Int /\ s * q <= x /\ x < s * (q + 1)
  OBVIOUS
<1> HIDE DEF q
<1>2. a < q + 1
  <2> SUFFICES ASSUME q + 1 <= a PROVE FALSE
    BY <1>1
  <2>1. s * (q + 1) <= s * a
    BY <1>1
  <2> QED
    BY <1>1, <2>1
<1>3. q <= b
  <2> SUFFICES ASSUME b + 1 <= q PROVE FALSE
    BY <1>1
  <2>1. s * (b + 1) <= s * q
    BY <1>1
  <2> QED
    BY <1>1, <2>1
<1> QED
  BY <1>1, <1>2, <1>3 DEF q

\* Floats are counted in whole units, and every number that has no more than
\* the bits of a mantissa is one.
LEMMA FloatTypes ==
  /\ Floats \subseteq Int
  /\ \A i \in -Mantissa .. Mantissa : i * Unit \in Floats
<1>1. ASSUME NEW x \in Floats PROVE x \in Int
  <2>1. PICK m \in -Mantissa .. Mantissa, ulp \in Ulps : x = m * ulp
    BY DEF Floats
  <2>2. m \in Int /\ ulp \in Int
    BY RemoteAssumption
  <2> QED
    BY <2>1, <2>2
<1>2. ASSUME NEW i \in -Mantissa .. Mantissa PROVE i * Unit \in Floats
  BY RemoteAssumption DEF Floats
<1> QED
  BY <1>1, <1>2

\* The order of two integers is that of their multiples.
LEMMA MultiplesInOrder ==
  ASSUME NEW a \in Int, NEW b \in Int, NEW d \in Nat \ {0}, a < b
  PROVE  a * d < b * d
<1>1. b - (a + 1) \in Nat
  OBVIOUS
<1>2. (b - (a + 1)) * d \in Nat
  BY <1>1
<1>3. b * d = (b - (a + 1)) * d + a * d + d
  OBVIOUS
<1>4. a * d \in Int /\ b * d \in Int
  OBVIOUS
<1> QED
  BY <1>2, <1>3, <1>4

\* Rounding does not lead past a float.
LEMMA RoundedKeeps ==
  ASSUME NEW n \in Int, NEW d \in Nat \ {0}, NEW x \in Rounded(n, d), NEW b \in Floats
  PROVE  /\ x \in Floats /\ x \in Int
         /\ b * d <= n => b <= x
         /\ n <= b * d => x <= b
<1>1. x \in Floats /\ Off(x, n, d) <= Off(b, n, d)
  BY DEF Rounded
<1>2. x \in Int /\ b \in Int
  BY <1>1, FloatTypes
<1> DEFINE xd == x * d
           bd == b * d
<1>3. xd \in Int /\ bd \in Int
  BY <1>2
<1>4. (x < b => xd < bd) /\ (b < x => bd < xd)
  BY <1>2, MultiplesInOrder
<1>5. Size(xd - n) <= Size(bd - n)
  BY <1>1 DEF Off
<1> HIDE DEF xd, bd
<1>6. bd <= n => b <= x
  BY <1>2, <1>3, <1>4, <1>5 DEF Size
<1>7. n <= bd => x <= b
  BY <1>2, <1>3, <1>4, <1>5 DEF Size
<1> QED
  BY <1>1, <1>2, <1>6, <1>7 DEF bd

\* A float between two numbers is cut off to one between them.
LEMMA TruncatedBetween ==
  ASSUME NEW x \in Int, NEW d \in Nat \ {0}, NEW low \in Int, NEW high \in Int,
         low * d <= x, x <= high * d
  PROVE  Truncated(x, d) \in low .. high
<1>1. CASE x >= 0
  <2> DEFINE least == IF low >= 0 THEN low ELSE 0
  <2>1. least \in Nat /\ low <= least /\ least * d <= x
    BY <1>1
  <2>2. high \in Nat
    <3> SUFFICES ASSUME high < 0 PROVE FALSE
      OBVIOUS
    <3>1. high * d < 0 * d
      BY MultiplesInOrder
    <3> QED
      BY <1>1, <3>1
  <2> HIDE DEF least
  <2>3. x \div d \in least .. high
    BY <1>1, <2>1, <2>2, QuotientBetween
  <2> QED
    BY <1>1, <2>1, <2>3 DEF Truncated
<1>2. CASE x < 0
  <2> DEFINE least == IF high <= 0 THEN -high ELSE 0
  <2>1. least \in Nat /\ high >= -least
    OBVIOUS
  <2>2. least * d <= -x
    <3>1. CASE high <= 0
      <4>1. least = -high /\ (-high) * d = -(high * d)
        BY <3>1
      <4>2. high * d \in Int
        OBVIOUS
      <4> HIDE DEF least
      <4> QED
        BY <4>1, <4>2
    <3>2. CASE high > 0
      BY <1>2, <3>2
    <3> QED
      BY <3>1, <3>2
  <2>3. -low \in Nat /\ -x <= (-low) * d
    <3>1. low < 0
      <4> SUFFICES ASSUME low >= 0 PROVE FALSE
        OBVIOUS
      <4>1. low * d >= 0
        OBVIOUS
      <4> QED
        BY <1>2, <4>1
    <3>2. (-low) * d = -(low * d) /\ low * d \in Int
      OBVIOUS
    <3> QED
      BY <3>1, <3>2
  <2> HIDE DEF least
  <2>4. (-x) \div d \in least .. -low
    <3>1. -x \in Nat
      BY <1>2
    <3> QED
      BY <2>1, <2>2, <2>3, <3>1, QuotientBetween
  <2>5. Truncated(x, d) = -((-x) \div d)
    BY <1>2 DEF Truncated
  <2> QED
    BY <2>1, <2>4, <2>5
<1> QED
  BY <1>1, <1>2

\* The bounds of a slider are a range, and what it stands for is a number.
LEMMA SliderType ==
  ASSUME NEW move \in Moves
  PROVE  /\ move.to \in OutputNumber
         /\ move.to.range = Bounds(move.from) /\ move.from \in Ranges
<1>1. PICK range \in Ranges, position \in 0 .. Steps :
        \E v \in SliderValues(range, position) : move = [from |-> range, to |-> v]
  BY DEF Moves
<1>2. PICK v \in SliderValues(range, position) : move = [from |-> range, to |-> v]
  BY <1>1
<1>3. PICK x \in Sums(Bounds(range), position) :
        \E n \in Cast(x) : v = [n |-> n, range |-> Bounds(range)]
  BY <1>2 DEF SliderValues
<1>4. PICK n \in Cast(x) : v = [n |-> n, range |-> Bounds(range)]
  BY <1>3
<1>5. n \in Number
  BY <1>4, RemoteAssumption DEF Cast, Number
<1>6. Bounds(range) \in Ranges
  BY RemoteAssumption DEF Bounds, Ranges, Number
<1> QED
  BY <1>2, <1>4, <1>5, <1>6 DEF OutputNumber

\* The sum of a slider, if its range is manageable: between the multiples of
\* the lower end and of what the slider may add to it.
LEMMA SumBetween ==
  ASSUME NEW low \in Int, NEW high \in Int, Manageable(<<low, high>>), low <= high,
         NEW position \in 0 .. Steps, NEW x \in Sums(<<low, high>>, position)
  PROVE  x \in Int /\ low * Unit <= x /\ x <= high * Unit
<1> DEFINE span == high - Size(low)
           most == span + low
<1>1. Mantissa \in Nat \ {0} /\ Unit \in Nat \ {0} /\ Steps \in Nat \ {0} /\ MaxInt \in Nat
  BY RemoteAssumption
<1>2. -low <= high /\ high <= Mantissa
  BY DEF Manageable
<1>3. /\ span \in 0 .. Mantissa /\ low \in -Mantissa .. Mantissa
      /\ most \in -Mantissa .. Mantissa /\ most <= high
  BY <1>1, <1>2 DEF Size
<1>4. Span(<<low, high>>) = span
  BY <1>1, <1>3 DEF Span
<1>5. most * Unit = span * Unit + low * Unit
  BY <1>1, <1>3
<1> HIDE DEF span, most
<1>6. PICK sf \in Rounded(span * Unit, 1), scale \in Rounded(position * Unit, Steps),
           lf \in Rounded(low * Unit, 1) :
        \E product \in Products(sf, scale) : x \in Rounded(product + lf * Unit, Unit)
  BY <1>4 DEF Sums
<1>7. PICK product \in Products(sf, scale) : x \in Rounded(product + lf * Unit, Unit)
  BY <1>6
<1>8. sf = span * Unit
  <2> DEFINE whole == span * Unit
  <2>1. whole \in Floats /\ whole \in Int /\ whole * 1 = whole
    BY <1>1, <1>3, FloatTypes
  <2> HIDE DEF whole
  <2>2. sf \in Int /\ whole <= sf /\ sf <= whole
    <3>1. sf \in Rounded(whole, 1)
      BY DEF whole
    <3> QED
      BY <2>1, <3>1, RoundedKeeps
  <2> QED
    BY <2>1, <2>2 DEF whole
<1>9. lf = low * Unit
  <2> DEFINE whole == low * Unit
  <2>1. whole \in Floats /\ whole \in Int /\ whole * 1 = whole
    BY <1>1, <1>3, FloatTypes
  <2> HIDE DEF whole
  <2>2. lf \in Int /\ whole <= lf /\ lf <= whole
    <3>1. lf \in Rounded(whole, 1)
      BY DEF whole
    <3> QED
      BY <2>1, <3>1, RoundedKeeps
  <2> QED
    BY <2>1, <2>2 DEF whole
<1>10. scale \in 0 .. Unit
  <2>1. 0 \in Floats /\ Unit \in Floats
    <3>1. 0 * Unit = 0 /\ 1 * Unit = Unit /\ 0 \in -Mantissa .. Mantissa /\ 1 \in -Mantissa .. Mantissa
      BY <1>1
    <3> QED
      BY <3>1, FloatTypes
  <2> DEFINE reached == position * Unit
  <2>2. reached \in Int /\ 0 * Steps <= reached /\ reached <= Unit * Steps
    <3>1. position \in Nat /\ Steps - position \in Nat
      BY <1>1
    <3>2. position * Unit \in Nat /\ (Steps - position) * Unit \in Nat
      BY <1>1, <3>1
    <3>3. Unit * Steps = position * Unit + (Steps - position) * Unit
      BY <1>1, <3>1
    <3> QED
      BY <1>1, <3>2, <3>3
  <2>3. scale \in Rounded(reached, Steps)
    OBVIOUS
  <2> HIDE DEF reached
  <2> QED
    BY <1>1, <2>1, <2>2, <2>3, RoundedKeeps
<1>11. sf \in Floats /\ sf \in Nat /\ sf * scale \in 0 .. sf * Unit
  <2>1. sf \in Floats /\ sf \in Nat
    BY <1>1, <1>3, <1>8, FloatTypes
  <2>2. scale \in Nat /\ Unit - scale \in Nat
    BY <1>1, <1>10
  <2>3. sf * scale \in Nat /\ sf * (Unit - scale) \in Nat
    BY <2>1, <2>2
  <2>4. sf * Unit = sf * scale + sf * (Unit - scale)
    BY <1>1, <2>1, <2>2
  <2> QED
    BY <2>1, <2>3, <2>4
<1>12. product \in 0 .. sf * Unit
  <2>1. CASE product = sf * scale
    BY <1>11, <2>1
  <2>2. ASSUME NEW rounded \in Rounded(sf * scale, Unit), product = Unit * rounded
        PROVE  product \in 0 .. sf * Unit
    <3> DEFINE exact == sf * scale
    <3>1. 0 \in Floats
      <4>1. 0 * Unit = 0 /\ 0 \in -Mantissa .. Mantissa
        BY <1>1
      <4> QED
        BY <4>1, FloatTypes
    <3>2. exact \in Int /\ 0 * Unit <= exact /\ exact <= sf * Unit /\ rounded \in Rounded(exact, Unit)
      BY <1>1, <1>11
    <3> HIDE DEF exact
    <3>3. rounded \in 0 .. sf
      BY <1>1, <1>11, <3>1, <3>2, RoundedKeeps
    <3>4. rounded \in Nat /\ sf - rounded \in Nat
      BY <1>11, <3>3
    <3>5. Unit * rounded \in Nat /\ (sf - rounded) * Unit \in Nat
      BY <1>1, <3>4
    <3>6. sf * Unit = Unit * rounded + (sf - rounded) * Unit
      BY <1>1, <1>11, <3>4
    <3> QED
      BY <2>2, <3>5, <3>6
  <2> QED
    BY <2>1, <2>2 DEF Products
<1>13. x \in Int /\ low * Unit <= x /\ x <= most * Unit
  <2> DEFINE sum == product + lf * Unit
             top == most * Unit
  <2>1. lf \in Floats /\ top \in Floats /\ top = sf + lf /\ lf \in Int
    BY <1>1, <1>3, <1>5, <1>8, <1>9, FloatTypes
  <2> HIDE DEF top
  <2>2. lf * Unit \in Int /\ sf * Unit \in Int /\ top * Unit = sf * Unit + lf * Unit
    BY <1>1, <1>11, <2>1
  <2>3. sum \in Int /\ lf * Unit <= sum /\ sum <= top * Unit
    BY <1>12, <2>2
  <2>4. x \in Rounded(sum, Unit)
    BY <1>7
  <2> HIDE DEF sum
  <2>5. x \in Int /\ lf <= x /\ x <= top
    BY <1>1, <2>1, <2>3, <2>4, RoundedKeeps
  <2> QED
    BY <1>9, <2>5 DEF top
<1>14. most * Unit <= high * Unit
  <2>1. CASE most = high
    BY <1>1, <2>1
  <2>2. CASE most < high
    <3>1. most \in Int
      BY <1>3
    <3>2. most * Unit < high * Unit /\ most * Unit \in Int /\ high * Unit \in Int
      BY <1>1, <2>2, <3>1, MultiplesInOrder
    <3> QED
      BY <3>2
  <2> QED
    BY <1>3, <2>1, <2>2
<1> QED
  <2>1. most * Unit \in Int /\ high * Unit \in Int
    BY <1>1, <1>3
  <2> QED
    BY <1>13, <1>14, <2>1

\* A slider over a manageable range stays in it.
LEMMA SliderInRange ==
  ASSUME NEW move \in Moves, Manageable(move.to.range)
  PROVE  move.to.n \in move.to.range[1] .. move.to.range[2]
<1>1. PICK range \in Ranges, position \in 0 .. Steps :
        \E v \in SliderValues(range, position) : move = [from |-> range, to |-> v]
  BY DEF Moves
<1>2. PICK v \in SliderValues(range, position) : move = [from |-> range, to |-> v]
  BY <1>1
<1>3. PICK x \in Sums(Bounds(range), position) :
        \E n \in Cast(x) : v = [n |-> n, range |-> Bounds(range)]
  BY <1>2 DEF SliderValues
<1>4. PICK n \in Cast(x) : v = [n |-> n, range |-> Bounds(range)]
  BY <1>3
<1>5. PICK low \in Number, high \in Number : Bounds(range) = <<low, high>> /\ low <= high
  <2>1. Bounds(range) \in {r \in Number \X Number : r[1] <= r[2]}
    BY RemoteAssumption DEF Bounds, Ranges, Number
  <2> QED
    BY <2>1
<1>6. move.to = [n |-> n, range |-> <<low, high>>]
  BY <1>2, <1>4, <1>5
<1>7. low \in Int /\ high \in Int /\ Unit \in Nat \ {0} /\ MaxInt \in Nat
  BY RemoteAssumption DEF Number
<1>8. Manageable(<<low, high>>) /\ x \in Sums(<<low, high>>, position)
  BY <1>3, <1>5, <1>6
<1>9. x \in Int /\ low * Unit <= x /\ x <= high * Unit
  BY <1>5, <1>7, <1>8, SumBetween
<1>10. Truncated(x, Unit) \in low .. high
  BY <1>7, <1>9, TruncatedBetween
<1>11. low .. high \subseteq Number
  BY <1>7 DEF Number
<1>12. n = Truncated(x, Unit)
  BY <1>4, <1>10, <1>11 DEF Cast
<1> QED
  BY <1>6, <1>10, <1>12

-----------------------------------------------------------------------------
(* Acknowledged calls.                                                     *)

\* The inductive invariant behind AcknowledgedIsShown: only the call that
\* waits has a request under way, it carries the value in force, an answer
\* comes after it was taken, and a positive one means the host shows it.
SentInv ==
  /\ call \in {"none", "update", "waiting"}
  /\ call # "waiting" => sent = <<>>
  /\ call = "waiting" => sent \in {<<>>, <<CurrentState.n>>}
  /\ (call = "waiting" /\ answer # "none") => sent = <<>>
  /\ (call = "waiting" /\ answer = "ok" /\ ~overtaken) => remote = CurrentState.n
  /\ AcknowledgedIsShown

\* A step of the network leaves the calls alone.
LEMMA NetworkSent ==
  ASSUME SentInv, Network
  PROVE  SentInv'
<1>1. UNCHANGED <<value, overridden, call, answered>>
  BY DEF Network, HostTakes, HostRejects, LateTakes, LateIsLost, FailOrRecover, outputVars, callVars
<1>2. CurrentState' = CurrentState
  BY <1>1 DEF CurrentState
<1>3. CASE HostTakes
  <2>1. sent # <<>> /\ call = "waiting" /\ sent = <<CurrentState.n>>
    BY <1>3 DEF HostTakes, SentInv
  <2>2. remote' = CurrentState.n /\ sent' = <<>> /\ answer' = "ok"
    BY <1>3, <2>1 DEF HostTakes
  <2> QED
    BY <1>1, <1>2, <2>1, <2>2 DEF SentInv, AcknowledgedIsShown
<1>4. CASE HostRejects
  BY <1>1, <1>2, <1>4 DEF HostRejects, SentInv, AcknowledgedIsShown
<1>5. ASSUME NEW n \in late, LateTakes(n) PROVE SentInv'
  BY <1>1, <1>2, <1>5 DEF LateTakes, SentInv, AcknowledgedIsShown
<1>6. ASSUME NEW n \in late, LateIsLost(n) PROVE SentInv'
  BY <1>1, <1>2, <1>6 DEF LateIsLost, SentInv, AcknowledgedIsShown
<1>7. CASE FailOrRecover
  BY <1>1, <1>2, <1>7 DEF FailOrRecover, SentInv, AcknowledgedIsShown
<1> QED
  BY <1>3, <1>4, <1>5, <1>6, <1>7 DEF Network

\* A step of a call that has begun.
LEMMA UpdateSent ==
  ASSUME SentInv, UpdateValues
  PROVE  SentInv'
<1>1. UNCHANGED <<value, overridden>>
  BY DEF UpdateValues, Unconnected, SendRequest, ReceiveAnswer, GiveUp, Return, outputVars
<1>2. CurrentState' = CurrentState
  BY <1>1 DEF CurrentState
<1>3. CASE Unconnected
  BY <1>3 DEF Unconnected, Return, networkVars, SentInv, AcknowledgedIsShown
<1>4. CASE SendRequest
  BY <1>2, <1>4 DEF SendRequest, SentInv, AcknowledgedIsShown
<1>5. CASE ReceiveAnswer
  BY <1>2, <1>5 DEF ReceiveAnswer, Return, SentInv, AcknowledgedIsShown
<1>6. CASE GiveUp
  BY <1>6 DEF GiveUp, Return, SentInv, AcknowledgedIsShown
<1> QED
  BY <1>3, <1>4, <1>5, <1>6 DEF UpdateValues

\* The beginning of a call.
LEMMA CallSent ==
  ASSUME SentInv, Call
  PROVE  SentInv'
<1>1. CASE CheckBox
  <2>1. CurrentState' = CurrentState
    BY <1>1 DEF CheckBox, outputVars, CurrentState
  <2> QED
    BY <1>1, <2>1 DEF CheckBox, callVars, networkVars, SentInv, AcknowledgedIsShown
<1>2. CASE call' = "update" /\ call = "none" /\ UNCHANGED networkVars
  BY <1>2 DEF networkVars, SentInv, AcknowledgedIsShown
<1> QED
  BY <1>1, <1>2 DEF Call, ControlOutput, ScheduleRetries, TakeOver, UncheckBox, MoveSlider, Override

\* Whoever called, and whatever was lost on the way: after a call that
\* reported success the host shows the value in force, unless a request that
\* had been given up took effect later.
THEOREM AcknowledgedIsShownHolds == Spec => []AcknowledgedIsShown
<1>1. Init => SentInv
  BY DEF Init, SentInv, AcknowledgedIsShown
<1>2. SentInv /\ [Next]_vars => SentInv'
  <2> SUFFICES ASSUME SentInv, [Next]_vars PROVE SentInv'
    OBVIOUS
  <2>1. CASE UNCHANGED vars
    BY <2>1 DEF vars, outputVars, callVars, networkVars, SentInv, AcknowledgedIsShown, CurrentState
  <2> QED
    BY <2>1, CallSent, UpdateSent, NetworkSent DEF Next
<1>3. SentInv => AcknowledgedIsShown
  BY DEF SentInv
<1> QED
  BY <1>1, <1>2, <1>3, PTL DEF Spec

-----------------------------------------------------------------------------
(* Types and ranges.                                                       *)

\* The variables keep to their types; also where a float is beyond the numbers
\* of an int.
THEOREM TypeCorrect == Spec => []TypeOK
<1>1. Init => TypeOK
  BY RemoteAssumption DEF Init, TypeOK
<1>2. TypeOK /\ [Next]_vars => TypeOK'
  <2> SUFFICES ASSUME TypeOK, [Next]_vars PROVE TypeOK'
    OBVIOUS
  <2>0. CurrentState \in OutputNumber
    BY DEF TypeOK, CurrentState
  <2>1. ASSUME NEW n \in Requests, ControlOutput(n) PROVE TypeOK'
    <3>1. Plain(n) \in OutputNumber
      BY RemoteAssumption DEF Plain, OutputNumber, Ranges
    <3> QED
      BY <2>1, <3>1 DEF ControlOutput, TypeOK, panelVars, networkVars
  <2>2. CASE ScheduleRetries
    BY <2>1, <2>2 DEF ScheduleRetries, TypeOK
  <2>3. CASE CheckBox
    BY <2>0, <2>3 DEF CheckBox, TypeOK, outputVars, callVars, networkVars
  <2>4. CASE TakeOver
    BY <2>4 DEF TakeOver, Override, TypeOK, networkVars
  <2>5. CASE UncheckBox
    BY <2>5 DEF UncheckBox, Override, TypeOK, networkVars
  <2>6. CASE MoveSlider
    <3>1. PICK move \in Moves : Override(<<move.to>>)
      BY <2>6 DEF MoveSlider
    <3>2. move.to \in OutputNumber
      BY SliderType
    <3> QED
      BY <2>6, <3>1, <3>2 DEF MoveSlider, Override, TypeOK, panelVars, networkVars
  <2>7. CASE Unconnected
    BY <2>7 DEF Unconnected, Return, TypeOK, outputVars, panelVars, networkVars
  <2>8. CASE SendRequest
    <3>1. sent' = <<CurrentState.n>> /\ CurrentState.n \in Number
      BY <2>0, <2>8 DEF SendRequest, OutputNumber
    <3> QED
      BY <2>8, <3>1 DEF SendRequest, TypeOK, outputVars, panelVars
  <2>9. CASE ReceiveAnswer
    BY <2>9 DEF ReceiveAnswer, Return, TypeOK, outputVars, panelVars
  <2>10. CASE GiveUp
    <3>1. \A i \in DOMAIN sent : sent[i] \in Number
      BY DEF TypeOK
    <3>2. late' \subseteq Number
      BY <2>10, <3>1 DEF GiveUp, TypeOK
    <3> QED
      BY <2>10, <3>2 DEF GiveUp, Return, TypeOK, outputVars, panelVars
  <2>11. CASE HostTakes
    <3>1. sent[1] \in Number
      BY <2>11 DEF HostTakes, TypeOK
    <3> QED
      BY <2>11, <3>1 DEF HostTakes, TypeOK, outputVars, callVars, panelVars
  <2>12. CASE HostRejects
    BY <2>12 DEF HostRejects, TypeOK, outputVars, callVars, panelVars
  <2>13. ASSUME NEW n \in late, LateTakes(n) \/ LateIsLost(n) PROVE TypeOK'
    BY <2>13 DEF LateTakes, LateIsLost, TypeOK, outputVars, callVars, panelVars
  <2>14. CASE FailOrRecover
    BY <2>14 DEF FailOrRecover, TypeOK, outputVars, callVars, panelVars
  <2>15. CASE UNCHANGED vars
    BY <2>15 DEF vars, TypeOK, outputVars, callVars, panelVars, networkVars
  <2> QED
    BY <2>1, <2>2, <2>3, <2>4, <2>5, <2>6, <2>7, <2>8, <2>9, <2>10, <2>11, <2>12, <2>13, <2>14, <2>15
       DEF Next, Call, UpdateValues, Network
<1> QED
  BY <1>1, <1>2, PTL DEF Spec

\* The values that have no manageable range, lie in it, or came with it.
Kept ==
  {v \in OutputNumber :
     (v \notin Defaults /\ Manageable(v.range)) => v.n \in v.range[1] .. v.range[2]}

\* The inductive invariant behind InRange: the callback of the check box may
\* carry such a value from the output to its override.
RangeInv ==
  /\ due \in Number \cup {none}
  /\ value \in Kept
  /\ overridden \in {<<>>} \cup {<<v>> : v \in Kept}
  /\ taken \in {<<>>} \cup {<<v>> : v \in Kept}

\* Neither the slider, which computes in floats, nor the schedule ever gives an
\* output a value outside the range that goes with it, if that is a manageable
\* one; for floats of any precision and sliders of any number of positions.
THEOREM InRangeHolds == Spec => []InRange
<1>1. Init => RangeInv
  BY RemoteAssumption DEF Init, RangeInv, Kept
<1>2. RangeInv /\ [Next]_vars => RangeInv'
  <2> SUFFICES ASSUME RangeInv, [Next]_vars PROVE RangeInv'
    OBVIOUS
  <2>0. CurrentState \in Kept
    BY DEF RangeInv, CurrentState
  <2>1. ASSUME NEW n \in Requests, ControlOutput(n) PROVE RangeInv'
    <3>1. Plain(n) \in Kept
      BY RemoteAssumption DEF Plain, OutputNumber, Ranges, Kept, Manageable
    <3> QED
      BY <2>1, <3>1, RemoteAssumption DEF ControlOutput, RangeInv, panelVars
  <2>2. CASE ScheduleRetries
    <3>1. Plain(due) \in Kept
      <4>1. due \in Number
        BY <2>2, RemoteAssumption DEF ScheduleRetries, RangeInv, Number
      <4> QED
        BY <4>1 DEF Plain, OutputNumber, Ranges, Kept, Manageable
    <3> QED
      BY <2>2, <3>1 DEF ScheduleRetries, ControlOutput, RangeInv, panelVars
  <2>3. CASE CheckBox
    BY <2>0, <2>3 DEF CheckBox, RangeInv, outputVars, callVars
  <2>4. CASE TakeOver
    BY <2>4 DEF TakeOver, Override, RangeInv
  <2>5. CASE UncheckBox
    BY <2>5 DEF UncheckBox, Override, RangeInv
  <2>6. CASE MoveSlider
    <3>1. PICK move \in Moves : Override(<<move.to>>)
      BY <2>6 DEF MoveSlider
    <3>2. move.to \in Kept
      BY SliderType, SliderInRange DEF Kept
    <3> QED
      BY <2>6, <3>1, <3>2 DEF MoveSlider, Override, RangeInv, panelVars
  <2>7. CASE UpdateValues
    BY <2>7 DEF UpdateValues, Unconnected, SendRequest, ReceiveAnswer, GiveUp, Return, RangeInv,
                outputVars, panelVars
  <2>8. CASE Network
    BY <2>8 DEF Network, HostTakes, HostRejects, LateTakes, LateIsLost, FailOrRecover, RangeInv,
                outputVars, callVars, panelVars
  <2>9. CASE UNCHANGED vars
    BY <2>9 DEF vars, RangeInv, outputVars, callVars, panelVars
  <2> QED
    BY <2>1, <2>2, <2>3, <2>4, <2>5, <2>6, <2>7, <2>8, <2>9 DEF Next, Call
<1>3. RangeInv => InRange
  BY DEF RangeInv, InRange, Kept, CurrentState
<1> QED
  BY <1>1, <1>2, <1>3, PTL DEF Spec

=============================================================================
