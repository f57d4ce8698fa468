---------------------------- MODULE MCHTTPFraming ---------------------------
EXTENDS HTTPFraming

MC_Phrase == [c \in Codes |-> <<"OK">>]
MC_Number == [d \in Digits |-> CASE d = "1" -> 1 [] d = "2" -> 2 [] OTHER -> 0]

Parts == [scheme |-> <<>>, host |-> <<>>, port |-> URL_PORT_NULL, path |-> <<>>, query |-> <<>>, fragment |-> <<>>]
Query1 == <<"k", "=", "v">>

MC_Absolute == [Parts EXCEPT !.scheme = <<"http">>, !.host = <<"h">>, !.port = "80", !.path = <<"p", "/", "q">>]
MC_HostOnly == [Parts EXCEPT !.scheme = <<"http">>, !.host = <<"h">>]
MC_WithQuery ==
  [Parts EXCEPT !.path = <<"p">>, !.query = Query1 \o <<"&", "k", "=">>, !.fragment = <<"f">>]
MC_URIs == {MC_Absolute, MC_WithQuery}

Field(name, value) == [name |-> name, value |-> value, parameters |-> <<>>]
MC_Length == Field(CONTENT_LENGTH, <<"1">>)
MC_Chunked == Field(TRANSFER_ENCODING, CHUNKED)
MC_Type ==
  [Field(<<"Content-Type">>, <<"text">>) EXCEPT !.parameters =
     <<[key |-> <<"charset">>, value |-> <<"u">>], [key |-> <<"q">>, value |-> <<"1">>]>>]
MC_Close == Field(CONNECTION, <<"close">>)
MC_Fields == {MC_Length, MC_Chunked, MC_Type, MC_Close}

\* Parts of the counterexamples.
MC_EmptyPath == {MC_HostOnly}
MC_QueryOnly == {[Parts EXCEPT !.scheme = <<"http">>, !.host = <<"h">>, !.query = Query1]}
MC_EmptyValue == {Field(<<"X">>, <<>>), MC_Close}
MC_ThreeChunks == {<<<<"x">>, <<"y">>, <<"z">>>>, <<>>}
MC_LongBody == {<<[i \in 1 .. 30 |-> "x"]>>, <<>>}

MC_Bodies == {<<>>, <<<<"x">>>>, <<<<"x", "y">>, <<"z">>>>}
=============================================================================
