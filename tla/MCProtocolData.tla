--------------------------- MODULE MCProtocolData ---------------------------
(* Bounded inputs for the protocol layer: what is typed, the keys of commands *)
(* and the replies of the server.                                             *)
EXTENDS ProtocolData

A == 97
B == 98

TypedLetters == {<<A>>, <<Space>>, <<Quote>>, <<Percent, Percent>>}

\* Every byte as a key of its own (every entry of the table), and every short
\* key with braces in it.
AllBytes   == {<<b>> : b \in 0..255}
BracedKeys == UNION {[1..n -> {A, LBrace, RBrace}] : n \in 0..5}
CommandKeys == AllBytes \cup BracedKeys

OK    == <<79, 75>>
Seven == <<55>>
MinusSeven == <<Minus, 55>>

Scalars ==
    {SendLine("+", OK), SendLine("-", OK), SendLine(":", Seven), SendLine(":", Wide),
     SendDouble(72500000), SendDouble(1234567), SendLine(",", Inf),
     SendLine(",", MinusInf), SendDenormal, SendBoolean(TRUE), SendBoolean(FALSE), SendNull,
     SendOldNull("$"), SendOldNull("*"), SendBigNumber(Seven), SendBigNumber(MinusSeven),
     SendBlob("$", <<>>), SendBlob("$", <<A>>), SendBlob("!", <<A, B>>),
     SendBlob("=", <<B>>), SendChunks(<<>>), SendChunks(<<<<A, B>>>>),
     SendChunks(<<<<A, B>>, <<B>>>>)}

a == SendBlob("$", <<A>>)
b == SendBlob("$", <<B>>)
n == SendLine(":", Seven)

\* Null, empty and nested elements, in arrays of both ways of ending.
Arrays ==
    {SendArray("*", streamed, items) :
        streamed \in BOOLEAN,
        items \in {<<>>, <<a, SendNull>>, <<SendOldNull("*"), n>>,
                   <<SendArray("*", FALSE, <<>>), a>>,
                   <<SendArray("*", TRUE, <<a>>), SendLine(":", Wide)>>}}
    \cup {SendArray("~", FALSE, <<a, n>>), SendArray(">", FALSE, <<a, SendArray("~", TRUE, <<n>>)>>)}

\* Maps with fields that are strings, numbers, or given twice.
Maps ==
    {SendMap("%", streamed, pairs) :
        streamed \in BOOLEAN,
        pairs \in {<<>>, <<<<b, n>>, <<a, SendNull>>>>, <<<<a, n>>, <<a, b>>>>,
                   <<<<n, a>>, <<SendLine("+", OK), SendArray("*", TRUE, <<n>>)>>>>}}

Attributes == SendMap("|", FALSE, <<<<a, SendMap("%", FALSE, <<<<b, n>>>>)>>>>)

Attributed ==
    {SendAttributed(Attributes, r) :
        r \in {n, SendArray("*", FALSE, <<a, n>>), SendArray("*", FALSE, <<>>)}}
    \cup {SendArray("*", FALSE, <<SendAttributed(Attributes, n), a>>)}

ServerReplies == Scalars \cup Arrays \cup Maps \cup Attributed
=============================================================================
