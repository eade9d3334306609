---------------------------- MODULE ProtocolData ----------------------------
(***************************************************************************)
(* The protocol layer (yarc_protocol_data.cpp): a command is split into    *)
(* words, its key gives the hash slot, trees of data are printed to and    *)
(* parsed from a connection.                                               *)
(*                                                                         *)
(* What is on the connection is a sequence of tokens, a token being what   *)
(* one loop of the parser reads: a type byte, a count, the bytes of a      *)
(* blob, a line, or CRLF.  The one piece of state the parser keeps between *)
(* two values is the errno of the reception thread, which ParseCount tests *)
(* and nothing resets.  When the parser rejects a value the thread exits,  *)
(* and the next one (whose errno is its own, 0 at first) goes on in the    *)
(* middle of that value, on the same connection: what is left of it is     *)
(* read as further values, or rejected in its turn, byte by byte.          *)
(***************************************************************************)
EXTENDS HashSlot, TLC

CONSTANTS
    Letters,     \* what a user types at once: a byte, or a percent sign as printf has it
    MaxText,     \* bound: the length of a typed command
    Keys,        \* keys of the commands that are built from an ArrayData
    Replies,     \* what the server sends, see "the server's side" below
    MaxReplies   \* bound: values on the connection that are not parsed yet

\* ParseCommand formats what it is given into a buffer of 1024 bytes, and does not look
\* at the length: a longer command overruns it, which is not modelled.
ASSUME BufferAssumption == MaxText < 1024

Space   == 32
Quote   == 34
Percent == 37

VARIABLES
    text,        \* what the user has typed
    command,     \* the command made of it, or NoCommand
    awaiting,    \* the command has been sent
    pending,     \* the replies on the connection, as the server meant them
    torn,        \* the first of them was rejected, and its rest is on the connection
    wire,        \* the tokens on the connection
    last,        \* <<reply, data, whole>>: the last value parsed, whether it is all of the
                 \* reply it came from; or <<>>
    errno,       \* the reception thread's errno is not zero
    reading      \* the reception thread runs

vars == <<text, command, awaiting, pending, torn, wire, last, errno, reading>>

----------------------------------------------------------------------------
(* Data.  attr is <<>> or holds the attributes that came with the value. *)

BlobStringData(type, null, bytes) ==
    [type |-> type, null |-> null, bytes |-> bytes, attr |-> <<>>]
LineData(type, line) == [type |-> type, line |-> line, attr |-> <<>>]
BooleanData(value)   == [type |-> "#", value |-> value, attr |-> <<>>]
NullData             == [type |-> "_", attr |-> <<>>]
EndData              == [type |-> ".", attr |-> <<>>]
ArrayData(type, null, items) ==
    [type |-> type, null |-> null, items |-> items, attr |-> <<>>]
MapData(type, pairs, fields) ==
    [type |-> type, pairs |-> pairs, fields |-> fields, attr |-> <<>>]

BlobTypes  == {"$", "!", "="}
ArrayTypes == {"*", "~", ">"}
MapTypes   == {"%", "|"}

NoCommand == EndData

----------------------------------------------------------------------------
(* Commands *)

\* Bug: a space splits a word inside quotes, too.
Tokenize_SplitsQuoted(parser, ch) ==
    IF ch = Quote THEN [parser EXCEPT !.inQuotedText = ~@]
    ELSE IF ch = Space THEN [parser EXCEPT !.wordList = Append(@, parser.newWord), !.newWord = <<>>]
    ELSE [parser EXCEPT !.newWord = Append(@, ch)]

\* One round of the loop of ParseCommand.
Tokenize(parser, ch) ==
    IF ch = Quote THEN [parser EXCEPT !.inQuotedText = ~@]
    ELSE IF ch = Space /\ ~parser.inQuotedText
         THEN [parser EXCEPT !.wordList = Append(@, parser.newWord), !.newWord = <<>>]
         ELSE [parser EXCEPT !.newWord = Append(@, ch)]

\* vsprintf: of two percent signs one is printed.  A lone one asks for an argument.
Formatted(typed) ==
    FoldLeft(LAMBDA f, ch : IF ch = Percent /\ ~f.asks THEN [f EXCEPT !.asks = TRUE]
                            ELSE [asks |-> FALSE, printed |-> Append(f.printed, ch)],
             [asks |-> FALSE, printed |-> <<>>], typed).printed

Words(typed) ==
    LET parser == FoldLeft(Tokenize,
                      [wordList |-> <<>>, newWord |-> <<>>, inQuotedText |-> FALSE],
                      Formatted(typed))
    IN IF parser.newWord # <<>> THEN Append(parser.wordList, parser.newWord)
       ELSE parser.wordList

ParseCommand(typed) ==
    LET words == Words(typed)
    IN ArrayData("*", FALSE, [i \in DOMAIN words |-> BlobStringData("$", FALSE, words[i])])

FindCommandKey(data) ==
    IF data.type = "*" /\ Len(data.items) >= 2 /\ data.items[2].type = "$"
    THEN data.items[2].bytes ELSE <<>>

CalcCommandHashSlot(data) == CalcKeyHashSlot(FindCommandKey(data))

----------------------------------------------------------------------------
(* Printing *)

Type(t)  == <<"type", t>>
Count(n) == <<"count", n>>
Bytes(b) == IF b = <<>> THEN <<>> ELSE <<<<"bytes", b>>>>
Line(l)  == <<"line", l>>
CRLF     == <<"crlf", <<>>>>

\* std::map goes through its fields in the order of their names.
Before(f, g) ==
    \E i \in 1..Len(g) : /\ i <= Len(f) + 1
                         /\ SubSeq(f, 1, i - 1) = SubSeq(g, 1, i - 1)
                         /\ i > Len(f) \/ f[i] < g[i]

\* Lines that matter by what they say, as bytes.  A double is its number of
\* ten-millionths; for those that are written otherwise there are negative ones.
True     == <<116>>
False    == <<102>>
Inf      == <<105, 110, 102>>
MinusInf == <<45, 105, 110, 102>>
DBL_MAX  == <<-1000>>
DBL_MIN  == <<-1001>>
Denormal == <<-1002>>

\* %f keeps six decimals.
Rounded(tenMillionths) == ((tenMillionths + 5) \div 10) * 10

PrintedDouble(line) ==
    CASE line = DBL_MAX  -> Inf
      [] line = DBL_MIN  -> MinusInf
      [] line = Denormal -> <<0>>
      [] OTHER           -> <<Rounded(line[1])>>

RECURSIVE PrintTree(_)

PrintItems(items) == FlattenSeq([i \in DOMAIN items |-> PrintTree(items[i])])

PrintBlobString(data) ==
    IF data.null THEN <<Count(-1), CRLF>>
    ELSE <<Count(Len(data.bytes)), CRLF>> \o Bytes(data.bytes) \o <<CRLF>>

PrintArray(data) ==
    IF data.null THEN <<Count(-1), CRLF>>
    ELSE <<Count(Len(data.items)), CRLF>> \o PrintItems(data.items)

\* The pairs of the list, then the fields of the map with their names.
PrintMap(data) ==
    LET names == SetToSortSeq(DOMAIN data.fields, Before)
    IN <<Count(Len(data.pairs) + Len(names)), CRLF>>
       \o PrintItems(FlattenSeq(data.pairs))
       \o PrintItems(FlattenSeq([i \in DOMAIN names |->
              <<BlobStringData("$", FALSE, names[i]), data.fields[names[i]]>>]))

PrintDataType(data) ==
    <<Type(data.type)>> \o
    CASE data.type \in BlobTypes            -> PrintBlobString(data)
      [] data.type \in ArrayTypes           -> PrintArray(data)
      [] data.type \in MapTypes             -> PrintMap(data)
      [] data.type = ","                    -> <<Line(PrintedDouble(data.line)), CRLF>>
      [] data.type \in {"+", "-", ":", "<"} -> <<Line(data.line), CRLF>>
      [] data.type = "#"                    -> <<Line(IF data.value THEN True ELSE False), CRLF>>
      [] data.type \in {"_", "."}           -> <<CRLF>>

\* Bug: the attributes of a value are not printed.
PrintTree_NoAttributes(data) == PrintDataType(data)

PrintTree(data) ==
    (IF data.attr = <<>> THEN <<>> ELSE PrintDataType(data.attr[1])) \o PrintDataType(data)

----------------------------------------------------------------------------
(* Parsing.  A parser is given what it reads from, [wire, errno], and tells *)
(* whether it succeeded, with what, and what is left; if not, whether it    *)
(* waits for more to come.  An operator with a parameter r is what a parser *)
(* does once a part of it has been parsed.                                  *)

Streamed == -2      \* the count "?"
Junk     == 256     \* a byte that realloc left uninitialized

Good(data, s) == [ok |-> TRUE, waits |-> FALSE, data |-> data, at |-> s]
Rejected(s)   == [ok |-> FALSE, waits |-> FALSE, at |-> s]

\* Something else was to come, or nothing has come yet.
Bad(s)        == [ok |-> FALSE, waits |-> s.wire = <<>>, at |-> s]

Comes(s, kind) == s.wire # <<>> /\ Head(s.wire)[1] = kind
What(s)        == Head(s.wire)[2]
Skip(s)        == [s EXCEPT !.wire = Tail(@)]

\* What has been parsed is data, if CRLF follows.
ParseCRLF(data, s) == IF Comes(s, "crlf") THEN Good(data, Skip(s)) ELSE Bad(s)

\* Bug: a count of 0 is taken for one that could not be converted.
ParseCount_NotZero(s) ==
    IF ~Comes(s, "count") \/ What(s) = 0 THEN Bad(s) ELSE ParseCRLF(What(s), Skip(s))

\* Of the CRLF of a count, CR has been read when the count is looked at.
LF == <<"lf", <<>>>>
SkipCR(s) == [s EXCEPT !.wire = <<LF>> \o Tail(@)]

\* strtol gives 0 for a count of 0, and nothing has reset errno.
ParseCount(s) ==
    IF ~Comes(s, "count") THEN Bad(s)
    ELSE IF What(s) = 0 /\ s.errno THEN Rejected(SkipCR(Skip(s)))
    ELSE ParseCRLF(What(s), Skip(s))

ParseCRLFTerminatedString(s) ==
    IF Comes(s, "line") THEN ParseCRLF(What(s), Skip(s)) ELSE Bad(s)

\* Numbers that strtol or strtod cannot represent are clamped, and errno is
\* ERANGE from then on: 3e9 for the 32-bit long of Windows, a denormal double.
Wide       == <<51, 101, 57>>
OutOfRange == {Wide, Denormal}
Clamped    == <<-1003>>

ParsedNumber(type, line) ==
    CASE type = ":" /\ line = Wide       -> Clamped
      [] type = "," /\ line = Inf        -> DBL_MAX
      [] type = "," /\ line = MinusInf   -> DBL_MIN
      [] OTHER                           -> line

Minus   == 45
IsDigit == 48..57

\* A big number is one if it has nothing but digits.
LineParsed(type, r) ==
    IF ~r.ok THEN r
    ELSE IF type = "<" /\ ~(ToSet(r.data) \subseteq IsDigit) THEN Rejected(r.at)
    ELSE IF type \notin {":", ","} THEN Good(LineData(type, r.data), r.at)
    ELSE Good(LineData(type, ParsedNumber(type, r.data)),
              [r.at EXCEPT !.errno = @ \/ r.data \in OutOfRange])

ParseLine(type, s) == LineParsed(type, ParseCRLFTerminatedString(s))

\* bool(byte): every byte but 0 is true.
ParseBoolean(s) ==
    IF Comes(s, "line") THEN ParseCRLF(BooleanData(TRUE), Skip(s)) ELSE Bad(s)

ParseByteArrayData(type, count, s) ==
    IF count = 0 THEN ParseCRLF(BlobStringData(type, FALSE, <<>>), s)
    ELSE IF Comes(s, "bytes") /\ Len(What(s)) = count
    THEN ParseCRLF(BlobStringData(type, FALSE, What(s)), Skip(s)) ELSE Bad(s)

ChunkCounted(r) ==
    IF ~r.ok THEN r
    ELSE IF r.data = Streamed THEN Rejected(r.at)
    ELSE IF r.data = 0 THEN Good(BlobStringData(";", FALSE, <<>>), r.at)
    ELSE ParseByteArrayData(";", r.data, r.at)

ParseChunk(s) == ChunkCounted(ParseCount(s))

\* The array grows and each chunk is copied to its beginning.
AddChunk(bytes, chunk) ==
    [i \in 1..Len(bytes) + Len(chunk) |->
        IF i <= Len(chunk) THEN chunk[i] ELSE IF i <= Len(bytes) THEN bytes[i] ELSE Junk]

\* The loop of BlobStringData::Parse, until an empty chunk.
RECURSIVE ParseChunks(_, _, _)
ChunkParsed(type, bytes, r) ==
    IF ~r.ok THEN r
    ELSE IF r.data.bytes = <<>> THEN Good(BlobStringData(type, FALSE, bytes), r.at)
    ELSE ParseChunks(type, AddChunk(bytes, r.data.bytes), r.at)

ParseChunks(type, bytes, s) ==
    IF Comes(s, "type") /\ What(s) = ";"
    THEN ChunkParsed(type, bytes, ParseChunk(Skip(s))) ELSE Bad(s)

BlobCounted(type, r) ==
    IF ~r.ok THEN r
    ELSE IF r.data = -1 THEN Good(BlobStringData(type, TRUE, <<>>), r.at)
    ELSE IF r.data = Streamed THEN ParseChunks(type, <<>>, r.at)
    ELSE ParseByteArrayData(type, r.data, r.at)

ParseBlobString(type, s) == BlobCounted(type, ParseCount(s))

RECURSIVE ParseTree(_)

\* The loop of ArrayData::Parse; n is Streamed, or how many are to come.
RECURSIVE ParseItems(_, _, _)
ItemParsed(n, items, r) ==
    IF ~r.ok THEN r
    ELSE IF n = Streamed /\ r.data.type = "." THEN Good(items, r.at)
    ELSE ParseItems(IF n = Streamed THEN n ELSE n - 1, Append(items, r.data), r.at)

ParseItems(n, items, s) ==
    IF n = 0 THEN Good(items, s) ELSE ItemParsed(n, items, ParseTree(s))

ItemsParsed(type, r) == IF r.ok THEN Good(ArrayData(type, FALSE, r.data), r.at) ELSE r

ArrayCounted(type, r) ==
    IF ~r.ok THEN r
    ELSE IF r.data = -1 THEN Good(ArrayData(type, TRUE, <<>>), r.at)
    ELSE ItemsParsed(type, ParseItems(r.data, <<>>, r.at))

ParseArray(type, s) == ArrayCounted(type, ParseCount(s))

\* The first loop of MapData::Parse: the pairs as they come.
RECURSIVE ParsePairs(_, _, _)
ValueParsed(n, pairs, field, r) ==
    IF ~r.ok THEN r
    ELSE ParsePairs(IF n = Streamed THEN n ELSE n - 1, Append(pairs, <<field, r.data>>), r.at)

FieldParsed(n, pairs, r) ==
    IF ~r.ok THEN r
    ELSE IF n = Streamed /\ r.data.type = "." THEN Good(pairs, r.at)
    ELSE ValueParsed(n, pairs, r.data, ParseTree(r.at))

ParsePairs(n, pairs, s) ==
    IF n = 0 THEN Good(pairs, s) ELSE FieldParsed(n, pairs, ParseTree(s))

\* Its second loop: what has a string for its field goes to the map, where a
\* later value of a field replaces an earlier one.
IsName(pair) == pair[1].type \in {"+", "$"}

NameOf(pair) == IF pair[1].type = "$" THEN pair[1].bytes ELSE pair[1].line

\* Bug: std::map::insert without the search for the field: the first value stays.
SetField_Insert(fields, pair) == fields @@ (NameOf(pair) :> pair[2])

SetField(fields, pair) == (NameOf(pair) :> pair[2]) @@ fields

PairsParsed(type, r) ==
    IF ~r.ok THEN r
    ELSE Good(MapData(type, SelectSeq(r.data, LAMBDA pair : ~IsName(pair)),
                      FoldLeft(SetField, <<>>, SelectSeq(r.data, IsName))), r.at)

MapCounted(type, r) == IF r.ok THEN PairsParsed(type, ParsePairs(r.data, <<>>, r.at)) ELSE r

ParseMap(type, s) == MapCounted(type, ParseCount(s))

\* Bug: the CRLF after the type is left on the connection.
ParseNull_NoCRLF(type, s) == Good([type |-> type, attr |-> <<>>], s)

ParseNull(type, s) == ParseCRLF([type |-> type, attr |-> <<>>], s)

\* What follows the type byte.
ParseAs(type, s) ==
    CASE type \in BlobTypes                 -> ParseBlobString(type, s)
      [] type \in ArrayTypes                -> ParseArray(type, s)
      [] type \in MapTypes                  -> ParseMap(type, s)
      [] type \in {"+", "-", ":", ",", "<"} -> ParseLine(type, s)
      [] type = "#"                         -> ParseBoolean(s)
      [] type \in {"_", "."}                -> ParseNull(type, s)
      [] type = ";"                         -> ParseChunk(s)
      [] OTHER                              -> Rejected(s)

\* Where a rejected value was left, the next byte is taken for a type, whatever it is:
\* of what can be left, only a minus sign is one.
TypeByte(byte) == IF byte = Minus THEN "-" ELSE "none"

SkipByte(s) ==
    CASE Comes(s, "crlf") -> SkipCR(s)
      [] Comes(s, "lf")   -> Skip(s)
      [] Len(What(s)) = 1 -> Skip(s)
      [] OTHER            -> [s EXCEPT !.wire[1][2] = Tail(@)]

ParseDataType(s) ==
    CASE s.wire = <<>>                -> Bad(s)
      [] Comes(s, "type")             -> ParseAs(What(s), Skip(s))
      [] Comes(s, "crlf") \/ Comes(s, "lf") -> Rejected(SkipByte(s))
      [] OTHER                        -> ParseAs(TypeByte(What(s)[1]), SkipByte(s))

\* Attributes come before the value they are about.
ValueAfter(attributes, r) ==
    IF r.ok THEN Good([r.data EXCEPT !.attr = <<attributes>>], r.at) ELSE r

TreeParsed(r) ==
    IF ~r.ok \/ r.data.type # "|" THEN r ELSE ValueAfter(r.data, ParseDataType(r.at))

ParseTree(s) == TreeParsed(ParseDataType(s))

----------------------------------------------------------------------------
(* The server's side: the values of RESP3 as a Redis server sends them.  A  *)
(* reply is what is meant (as the data the parser should give), how it is   *)
(* written, and what is odd about it: the client has no representation for  *)
(* something in it ("inexact"), prints something in it otherwise ("fine"),  *)
(* does not know a type in it ("unknown"), or something in it has the count *)
(* 0 ("empty").                                                             *)

Reply(means, written, odd) == [means |-> means, written |-> written, odd |-> odd]

Odd(condition, what) == IF condition THEN {what} ELSE {}

SendLine(type, line) ==
    Reply(LineData(type, ParsedNumber(type, line)), <<Type(type), Line(line), CRLF>>,
          Odd(line \in OutOfRange \cup {MinusInf}, "inexact"))

SendDouble(tenMillionths) ==
    Reply(LineData(",", <<tenMillionths>>), <<Type(","), Line(<<tenMillionths>>), CRLF>>,
          Odd(tenMillionths % 10 # 0, "fine"))

SendDenormal == [SendLine(",", Denormal) EXCEPT !.odd = @ \cup {"fine"}]

SendBoolean(b) ==
    Reply(BooleanData(b), <<Type("#"), Line(IF b THEN True ELSE False), CRLF>>,
          Odd(~b, "inexact"))

SendNull == Reply(NullData, <<Type("_"), CRLF>>, {})

\* The null strings and arrays of RESP2.
SendOldNull(type) ==
    Reply(IF type = "$" THEN BlobStringData("$", TRUE, <<>>) ELSE ArrayData("*", TRUE, <<>>),
          <<Type(type), Count(-1), CRLF>>, {})

SendBigNumber(line) ==
    Reply(LineData("<", line), <<Type("("), Line(line), CRLF>>, {"inexact", "unknown"})

SendBlob(type, bytes) ==
    Reply(BlobStringData(type, FALSE, bytes),
          <<Type(type), Count(Len(bytes)), CRLF>> \o Bytes(bytes) \o <<CRLF>>,
          Odd(bytes = <<>>, "empty"))

SendChunks(chunks) ==
    Reply(BlobStringData("$", FALSE, FlattenSeq(chunks)),
          <<Type("$"), Count(Streamed), CRLF>>
          \o FlattenSeq([i \in DOMAIN chunks |->
                <<Type(";"), Count(Len(chunks[i])), CRLF>> \o Bytes(chunks[i]) \o <<CRLF>>])
          \o <<Type(";"), Count(0), CRLF>>,
          {"empty"} \cup Odd(Len(chunks) > 1, "inexact"))

AllOdd(replies)        == UNION {replies[i].odd : i \in DOMAIN replies}
Means(replies)         == [i \in DOMAIN replies |-> replies[i].means]
Written(replies)       == FlattenSeq([i \in DOMAIN replies |-> replies[i].written])

SendArray(type, streamed, items) ==
    Reply(ArrayData(type, FALSE, Means(items)),
          <<Type(type), Count(IF streamed THEN Streamed ELSE Len(items)), CRLF>>
          \o Written(items) \o (IF streamed THEN <<Type("."), CRLF>> ELSE <<>>),
          AllOdd(items) \cup Odd(~streamed /\ items = <<>>, "empty"))

\* Pairs of replies; a field is there once, with the last value given for it.
SendMap(type, streamed, pairs) ==
    LET flat  == FlattenSeq(pairs)
        means == [i \in DOMAIN pairs |-> Means(pairs[i])]
        named == {i \in DOMAIN pairs : IsName(means[i])}
    IN Reply(MapData(type, SelectSeq(means, LAMBDA p : ~IsName(p)),
                     [f \in {NameOf(means[i]) : i \in named} |->
                        means[Max({i \in named : NameOf(means[i]) = f})][2]]),
             <<Type(type), Count(IF streamed THEN Streamed ELSE Len(pairs)), CRLF>>
             \o Written(flat) \o (IF streamed THEN <<Type("."), CRLF>> ELSE <<>>),
             AllOdd(flat) \cup Odd(~streamed /\ pairs = <<>>, "empty"))

SendAttributed(attributes, r) ==
    Reply([r.means EXCEPT !.attr = <<attributes.means>>], attributes.written \o r.written,
          attributes.odd \cup r.odd)

----------------------------------------------------------------------------
(* A session: commands are typed or built and sent, replies are parsed. *)

Init ==
    /\ text = <<>> /\ command = NoCommand /\ awaiting = FALSE
    /\ pending = <<>> /\ torn = FALSE /\ wire = <<>> /\ last = <<>>
    /\ errno = FALSE /\ reading = TRUE

connection == <<pending, torn, wire, last, errno, reading>>

\* A percent sign is typed twice: a lone one would have vsprintf read an argument that
\* was not passed, which is undefined and not modelled.
TypeLetter(typed) ==
    /\ ~awaiting /\ command = NoCommand /\ Len(text) + Len(typed) <= MaxText
    /\ text' = text \o typed
    /\ UNCHANGED <<command, awaiting, connection>>

MakeCommand ==
    /\ ~awaiting /\ command = NoCommand /\ text # <<>>
    /\ command' = ParseCommand(text)
    /\ UNCHANGED <<text, awaiting, connection>>

\* A program sets the elements of an array itself, as PubSub::Publish does.
BuildCommand(key) ==
    /\ ~awaiting /\ command = NoCommand /\ text = <<>>
    /\ command' = ArrayData("*", FALSE, <<BlobStringData("$", FALSE, <<65>>),
                                          BlobStringData("$", FALSE, key)>>)
    /\ UNCHANGED <<text, awaiting, connection>>

Send ==
    /\ command # NoCommand
    /\ command' = NoCommand /\ text' = <<>> /\ awaiting' = TRUE
    /\ UNCHANGED connection

\* The reply, or a value the server pushes with it.
ServerSends(r) ==
    /\ awaiting /\ Len(pending) < MaxReplies
    /\ pending' = Append(pending, r)
    /\ wire' = wire \o r.written
    /\ UNCHANGED <<text, command, awaiting, torn, last, errno, reading>>

\* SimpleClient::ThreadFunc parses the next value, and exits if it cannot.  A reply is
\* done with when it was parsed in one go, or nothing is left of it.
Receive ==
    /\ reading /\ pending # <<>>
    /\ \E r \in {ParseTree([wire |-> wire, errno |-> errno])} :
          /\ ~r.waits
          /\ reading' = r.ok
          /\ errno' = r.at.errno
          /\ wire' = r.at.wire
          /\ last' = IF r.ok THEN <<Head(pending), r.data, ~torn>> ELSE last
          /\ IF (r.ok /\ ~torn) \/ r.at.wire = Written(Tail(pending))
             THEN pending' = Tail(pending) /\ torn' = FALSE
             ELSE torn' = TRUE /\ UNCHANGED pending
    /\ UNCHANGED <<text, command, awaiting>>

\* The replies have come: the next command.
NextCommand ==
    /\ awaiting /\ pending = <<>> /\ last # <<>>
    /\ awaiting' = FALSE /\ last' = <<>>
    /\ UNCHANGED <<text, command, pending, torn, wire, errno, reading>>

\* One Update deletes the thread that has exited, the next starts another on the same
\* connection.  Its errno is its own.
Respawn ==
    /\ ~reading
    /\ reading' = TRUE /\ errno' = FALSE
    /\ UNCHANGED <<text, command, awaiting, pending, torn, wire, last>>

Next ==
    \/ \E typed \in Letters : TypeLetter(typed)
    \/ MakeCommand
    \/ \E key \in Keys : BuildCommand(key)
    \/ Send
    \/ \E r \in Replies : ServerSends(r)
    \/ Receive
    \/ NextCommand
    \/ Respawn

Spec == Init /\ [][Next]_vars

----------------------------------------------------------------------------
(* Properties *)

\* A word of a command is what stands between two spaces outside of quotes,
\* without the quotes, empty words included; only an empty last word is
\* dropped.  (ParseCommand; position i is inside quotes if an odd number of
\* them stands before it.)
WordsSplitAtSpaces ==
    command # NoCommand /\ text # <<>> =>
        LET Quoted(i) == Cardinality({h \in 1..i - 1 : text[h] = Quote}) % 2 = 1
            cuts      == {0, Len(text) + 1}
                         \cup {i \in DOMAIN text : text[i] = Space /\ ~Quoted(i)}
            \* of the percent signs, which come in pairs, every other one
            Kept(t)   == {i \in DOMAIN t : \/ t[i] \notin {Quote, Percent}
                                           \/ /\ t[i] = Percent
                                              /\ Cardinality({h \in 1..i : t[h] = Percent}) % 2 = 0}
            Plain(i, j) == LET t == SubSeq(text, i + 1, j - 1)
                               kept == SetToSortSeq(Kept(t), <)
                           IN  [k \in DOMAIN kept |-> t[kept[k]]]
            ends      == SetToSortSeq(cuts \ {0}, <)
            Start(k)  == IF k = 1 THEN 0 ELSE ends[k - 1]
            all       == [k \in DOMAIN ends |-> Plain(Start(k), ends[k])]
            words     == IF all[Len(all)] = <<>> THEN SubSeq(all, 1, Len(all) - 1) ELSE all
        IN [i \in DOMAIN command.items |-> command.items[i].bytes] = words

\* The client sends a command to the node that owns its key: it computes the
\* slot the cluster computes, for every key without a NUL.
SlotAgreesWithServer ==
    command # NoCommand =>
        LET key == FindCommandKey(command)
        IN Nul \notin ToSet(key) => CalcCommandHashSlot(command) = ServerSlot(key)

\* A value is parsed to its end and no further, whatever comes before or after it; and
\* what is left of a rejected value is all that is read amiss: the values it is taken
\* for end where it ends, and from there on responses are read as they were sent.
InStep ==
    IF torn THEN IsSuffix(Written(Tail(pending)), wire) ELSE wire = Written(pending)

\* What is parsed is what was sent, nested, attributed, streamed or null, except
\* where the client has no representation of it, or has rejected the beginning.
ParsesWhatWasSent ==
    last # <<>> /\ last[3] /\ "inexact" \notin last[1].odd => last[2] = last[1].means

\* The reception thread gives up on a reply only for a type it does not know, or for an
\* empty value after a number that was out of range.
RejectsOnlyUnknown ==
    [][torn' /\ ~torn => \/ "unknown" \in Head(pending).odd
                         \/ "empty" \in Head(pending).odd /\ errno']_vars

\* What is printed is parsed to the same data, for commands and for whatever has
\* been parsed, save doubles with more than six decimals: a response can be sent back
\* (to PUBLISH it) and comes out equal.
PrintsWhatItParses ==
    \A data \in {command} \cup (IF last = <<>> \/ "fine" \in last[1].odd THEN {} ELSE {last[2]}) :
        ParseTree([wire |-> PrintTree(data), errno |-> FALSE])
            = Good(data, [wire |-> <<>>, errno |-> FALSE])
=============================================================================
