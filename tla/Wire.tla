-------------------------------- MODULE Wire --------------------------------
(***************************************************************************)
(* Requests and replies as they travel: sendRequest and printResponse of   *)
(* the client, ProtocolHelper and Response of the server.  A message is a   *)
(* sequence of fields, each with the number of bytes it takes: a word of    *)
(* 32 bits, a number of 64 bits, a tag, or the bytes of a string.  Lengths  *)
(* are counted in bytes, as in the code; what a field says is one value.   *)
(***************************************************************************)
EXTENDS Commands

CONSTANTS
  Length,    \* how many bytes a string has
  WordSize,  \* bytes in a word (4)
  LongSize,  \* bytes in a number (8)
  MaxArg,    \* the client's kMaxArg: the longest message it sends or takes (4096)
  MaxMsg,    \* kMaxMsg: the longest message of the server (10 MB)
  MaxArgs    \* kMaxArgs: the most strings in a request (100)

ASSUME WireAssumption ==
  /\ Length \in [Texts -> Nat]
  /\ {WordSize, LongSize} \subseteq Nat \ {0}
  /\ {MaxArg, MaxMsg, MaxArgs} \subseteq Nat

\* A field: how many bytes, and what they say.
Tag(x) == [bytes |-> 1, says |-> x]
Word(x) == [bytes |-> WordSize, says |-> x]
Long64(x) == [bytes |-> LongSize, says |-> x]
Text(t) == [bytes |-> Length[t], says |-> t]

\* The sum of q[i] for i in 1..n.
SumTo(q, n) ==
  LET sum[i \in 0..n] == IF i = 0 THEN 0 ELSE sum[i - 1] + q[i]
  IN sum[n]

Bytes(fields) == SumTo([i \in DOMAIN fields |-> fields[i].bytes], Len(fields))

\* A message: what the length in front of it says, and its items, each a
\* sequence of fields.
Message(items) ==
  [length |-> SumTo([i \in DOMAIN items |-> Bytes(items[i])], Len(items)), items |-> items]

Size(message) == WordSize + message.length

-----------------------------------------------------------------------------
(* Requests                                                                *)

\* sendRequest: how many strings, then each of them behind its own length.
Request(args) ==
  Message(<<<<Word(Len(args))>>>> \o [i \in DOMAIN args |-> <<Word(Length[args[i]]), Text(args[i])>>])

CanSend(args) == Request(args).length <= MaxArg

Strings(message) == message.items[1][1].says
String(message, i) == message.items[i + 1][2].says

\* Mutation of Parse: the length is taken to include its own word.
ParseTooEarly(size, message) ==
  IF size < WordSize THEN [result |-> "wait"]
  ELSE IF message.length > MaxMsg THEN [result |-> "throws"]
  ELSE IF size < message.length THEN [result |-> "wait"]
  ELSE IF Strings(message) > MaxArgs THEN [result |-> "throws"]
  ELSE [result |-> "request",
        args |-> [i \in 1..Strings(message) |->
                    IF i = 1 THEN Lower[String(message, i)] ELSE String(message, i)]]

\* Mutation of Parse: the name of the command is left as it is.
ParseKeepsCase(size, message) ==
  IF size < WordSize THEN [result |-> "wait"]
  ELSE IF message.length > MaxMsg THEN [result |-> "throws"]
  ELSE IF size < Size(message) THEN [result |-> "wait"]
  ELSE IF Strings(message) > MaxArgs THEN [result |-> "throws"]
  ELSE [result |-> "request", args |-> [i \in 1..Strings(message) |-> String(message, i)]]

\* parseRequest on a buffer of size bytes that begins with this message: it
\* waits for the rest, throws, or takes the request out.
Parse(size, message) ==
  IF size < WordSize THEN [result |-> "wait"]
  ELSE IF message.length > MaxMsg THEN [result |-> "throws"]
  ELSE IF size < Size(message) THEN [result |-> "wait"]
  ELSE IF Strings(message) > MaxArgs THEN [result |-> "throws"]
  ELSE [result |-> "request",
        args |-> [i \in 1..Strings(message) |->
                    IF i = 1 THEN Lower[String(message, i)] ELSE String(message, i)]]

-----------------------------------------------------------------------------
(* Replies                                                                 *)

\* A Response that is no array, as appendToBuffer writes it.  The wording of
\* errors is left out: their messages have no bytes here.
Single(reply) ==
  <<Tag(reply.tag)>> \o
  CASE reply.tag = "nil" -> << >>
    [] reply.tag = "str" -> <<Word(Length[reply.text]), Text(reply.text)>>
    [] reply.tag \in {"int", "dbl"} -> <<Long64(reply.number)>>
    [] reply.tag = "err" -> <<Word(reply.code), Word(0)>>

\* An array is the number of its elements, and these.
Items(reply) ==
  IF reply.tag = "arr"
  THEN <<<<Tag("arr"), Word(Len(reply.elements))>>>>
       \o [i \in DOMAIN reply.elements |-> Single(reply.elements[i])]
  ELSE <<Single(reply)>>

TooBig == Err("ERR_TOO_BIG")

Fitting(reply) == IF Message(Items(reply)).length > MaxMsg THEN TooBig ELSE reply

\* ProtocolHelper::serialize
Serialize(reply) == Message(Items(Fitting(reply)))

\* How a reply begins.
TagOf(message) == message.items[1][1].says

\* printResponse: what it shows of one item, and the bytes it takes it to have.
PrintSingle(item) ==
  CASE item[1].says = "nil" -> [shows |-> Nil, used |-> 1]
    [] item[1].says = "str" -> [shows |-> Str(item[3].says), used |-> 1 + WordSize + item[2].says]
    [] item[1].says = "int" -> [shows |-> Int64(item[2].says), used |-> 1 + LongSize]
    [] item[1].says = "dbl" -> [shows |-> Dbl(item[2].says), used |-> 1 + LongSize]
    [] item[1].says = "err" -> [shows |-> Err(item[2].says), used |-> 1 + 2 * WordSize + item[3].says]

\* What a message says; a message with more in it than is shown says nothing.
PrintAll(message) ==
  LET elements == IF TagOf(message) = "arr" THEN message.items[1][2].says ELSE 0
      printed == [i \in 1..elements |-> PrintSingle(message.items[i + 1])]
      used == IF TagOf(message) = "arr"
              THEN 1 + WordSize + SumTo([i \in 1..elements |-> printed[i].used], elements)
              ELSE PrintSingle(message.items[1]).used
  IN IF used # message.length THEN [tag |-> "bad"]
     ELSE IF TagOf(message) = "arr" THEN Arr([i \in 1..elements |-> printed[i].shows])
     ELSE PrintSingle(message.items[1]).shows

\* read_res takes no message that is longer than its buffer.
CanShow(message) == message.length <= MaxArg /\ PrintAll(message).tag # "bad"
=============================================================================
