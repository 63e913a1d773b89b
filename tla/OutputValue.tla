---------------------------- MODULE OutputValue ----------------------------
(***************************************************************************)
(* output_value::deserialize: from a JSON description to the value of an   *)
(* output.  An optional is a sequence of at most one element.              *)
(*                                                                         *)
(* A JSON value is a record whose field json names its kind; a number has  *)
(* its number n (a float the truncated one), a string its word and the     *)
(* number its digits spell, if there is one.  Of a value of type string    *)
(* only the type is kept.                                                  *)
(***************************************************************************)
EXTENDS FiniteSetsExt, Sequences, Integers

CONSTANT WordSize   \* the values of an int: 2^32 in the program

ASSUME WordSizeAssumption == WordSize \in {2 * n : n \in 1 .. WordSize}

\* What get<int> and get<unsigned int> make of a JSON number.
AsInt(n) == ((n + WordSize \div 2) % WordSize) - (WordSize \div 2)
AsUnsigned(n) == n % WordSize
MaxInt == (WordSize \div 2) - 1

Null == [json |-> "null"]
IsNumber(d) == d.json \in {"unsigned", "integer", "float"}

\* A JSON value that is neither an array nor an object, and what a value of an
\* output may be described by.
IsSingle(d) ==
  /\ IsNumber(d) => d.n \in Int
  /\ d.json = "string" => d.digits \in Seq(Nat)
IsDescription(d) ==
  /\ IsSingle(d)
  /\ d.json = "object" =>
       /\ IsSingle(d.default)
       /\ d.range.json = "pair" => IsSingle(d.range.first) /\ IsSingle(d.range.second)

Words == {"on", "off", "toggle"}

Value(type, n, word) == [type |-> type, n |-> n, word |-> word, min |-> <<>>, max |-> <<>>]
Text == Value("string", 0, "")
Types == {"number", "number_unsigned", "switch_output", "tasmota_power_command", "string"}
OutputValues == [type : Types, n : Int, word : Words \cup {""}, min : Seq(Int), max : Seq(Int)]
Optional(S) == {<<>>} \cup {<<v>> : v \in S}

\* The types an object may name, and the value each starts with.
Initial ==
  [int |-> Value("number", 0, ""), unsigned_int |-> Value("number_unsigned", 0, ""),
   switch_output |-> Value("switch_output", 0, "off"),
   tasmota_power_command |-> Value("tasmota_power_command", 0, "off"), string |-> Text]

\* The value of a default entry.  Its type is that of the JSON value; of a
\* string only the words of a switch are taken over.
Default(d, type) ==
  CASE d.json = "unsigned" -> Value("number_unsigned", AsUnsigned(d.n), "")
    [] d.json = "integer" -> Value("number", AsInt(d.n), "")
    [] d.json = "string" /\ d.word \in Words -> Value("switch_output", 0, d.word)
    [] OTHER -> Initial[type]

\* The range of a number; that of an unsigned one gets its lower bound twice
\* and no upper bound.
Ranged(value, type, a, b) ==
  CASE type = "int" /\ IsNumber(a) ->
         [value EXCEPT !.min = <<Min({AsInt(a.n), AsInt(b.n)})>>,
                       !.max = <<Max({AsInt(a.n), AsInt(b.n)})>>]
    [] type = "unsigned_int" /\ IsNumber(a) ->
         [value EXCEPT !.min = <<Min({AsUnsigned(a.n), AsUnsigned(b.n)})>>]
    [] OTHER -> value

\* A description that is an object.
Described(d) ==
  LET value == Default(d.default, d.type)
  IN  IF \/ d.type \notin DOMAIN Initial
         \/ d.default.json \notin {"null", "unsigned", "integer", "string"}
      THEN <<>>
      ELSE IF d.range = Null THEN <<value>>
      ELSE IF \/ d.range.json # "pair"
              \/ IsNumber(d.range.first) # IsNumber(d.range.second)
      THEN <<>>
      ELSE <<Ranged(value, d.type, d.range.first, d.range.second)>>

\* The number the digits of a string spell, other characters removed.
Spelt(d, type, limit) ==
  IF d.digits # <<>> /\ d.digits[1] <= limit THEN <<Value(type, d.digits[1], "")>> ELSE <<>>

\* A single value for an output whose value has the given type ("unknown" if
\* there is none).  A string that fits nothing else is kept as a string.
Single(d, type) ==
  CASE type = "number_unsigned" /\ d.json = "unsigned" -> <<Value(type, AsUnsigned(d.n), "")>>
    [] type = "number_unsigned" /\ d.json = "string" -> Spelt(d, type, WordSize - 1)
    [] type = "number" /\ IsNumber(d) -> <<Value(type, AsInt(d.n), "")>>
    [] type = "number" /\ d.json = "string" -> Spelt(d, type, MaxInt)
    [] type = "string" -> <<Text>>
    [] /\ type \in {"switch_output", "tasmota_power_command"}
       /\ d.json = "string" /\ d.word \in Words -> <<Value(type, 0, d.word)>>
    [] OTHER -> IF d.json = "string" THEN <<Text>> ELSE <<>>

Deserialize(d, type) ==
  IF d = Null THEN <<>> ELSE IF d.json = "object" THEN Described(d) ELSE Single(d, type)

=============================================================================
