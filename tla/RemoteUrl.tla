----------------------------- MODULE RemoteUrl -----------------------------
(***************************************************************************)
(* How remote_function::update_values takes a url apart.  A url is a       *)
(* sequence of tokens: ":" and "/", "digits" for a number a port may have, *)
(* "big" for one it may not, anything else for a word.                     *)
(***************************************************************************)
EXTENDS Naturals, Sequences

CONSTANTS
  Tokens,  \* what urls are made of
  Hosts,   \* what is written before the port, and
  Paths    \* after the slash that follows it

Digits == {"digits", "big"}

ASSUME UrlAssumption ==
  /\ {"http", ":", "/"} \cup Digits \subseteq Tokens
  /\ Hosts \cup Paths \subseteq Seq(Tokens)

DefaultPort == <<"digits">>   \* "80"
Refused == <<>>

Has(url, token) == \E i \in DOMAIN url : url[i] = token

\* find_last_of, of a token that is there.
LastOf(url, token) ==
  CHOOSE i \in DOMAIN url : url[i] = token /\ \A j \in DOMAIN url : url[j] = token => j <= i

\* Mutant of AfterDigits: the colon itself is where the search begins.
FromColon(url, start) == {start}

\* find_first_not_of the digits, from after that position on.
AfterDigits(url, start) ==
  {i \in start + 1 .. Len(url) :
     url[i] \notin Digits /\ \A j \in start + 1 .. i - 1 : url[j] \in Digits}

Parts(url, host, port, function) ==
  [host |-> SubSeq(url, 1, host), port |-> port, function |-> SubSeq(url, function, Len(url))]

\* The last colon divides host and port, and the first character after it
\* that is no digit begins the function; without both the last slash does.
Taken(url) ==
  LET colon == LastOf(url, ":")
      slash == LastOf(url, "/")
  IN  IF Has(url, ":") /\ AfterDigits(url, colon) # {}
      THEN {Parts(url, colon - 1, SubSeq(url, colon + 1, i - 1), i) : i \in AfterDigits(url, colon)}
      ELSE IF Has(url, "/") THEN {Parts(url, slash - 1, DefaultPort, slash)}
      ELSE {}

\* from_chars: an empty port and one out of range are errors.
PortParses(port) == port # <<>> /\ ~Has(port, "big")

\* The request a url stands for: none, or one.
Split(url) == {p \in Taken(url) : PortParses(p.port)}

-----------------------------------------------------------------------------

Meant(host, port, function) == {[host |-> host, port |-> port, function |-> function]}

\* A url of that host, a port and that path is taken apart as it is written
\* exactly when the path has no colon, and refused if no port has its number.
\* One without a port is taken apart right if its function has one slash only,
\* and refused if it begins with a scheme.
SplitAsWritten(host, path) ==
  LET function == <<"/">> \o path IN
    /\ Split((host \o <<":", "digits">>) \o function) = Meant(host, <<"digits">>, function)
         <=> ~Has(path, ":")
    /\ ~Has(path, ":") =>
         /\ Split((host \o <<":", "big">>) \o function) = {}
         /\ ~Has(host, ":") =>
              /\ ~Has(path, "/") => Split(host \o function) = Meant(host, DefaultPort, function)
              /\ Split((<<"http", ":", "/", "/">> \o host) \o function) = {}

SplitWrong == {w \in Hosts \X Paths : ~SplitAsWritten(w[1], w[2])}

\* Whatever the host, a url that is written as host, port and function is taken
\* apart that way, unless there is a colon in the function: that one is taken
\* for the colon of the port, and a part of the function for the host.  Without
\* a port all but the last part of the function is taken for the host.
SplitsAsWritten == SplitWrong = {}

=============================================================================
