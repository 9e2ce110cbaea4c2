--------------------------- MODULE RequestStreams ---------------------------
(***************************************************************************)
(* Streams of requests for HttpParser, each with the requests it holds.    *)
(***************************************************************************)
EXTENDS Naturals, Sequences

EOL == <<"CR", "LF">>
V11 == <<"SP", "HTT", "P/", "1", ".", "1">>
V10 == <<"SP", "HTT", "P/", "1", ".", "0">>

Message(start, url, lines, headers, body, sentBody) ==
    [wire    |-> start \o url \o lines \o EOL \o sentBody,
     request |-> [method |-> IF start[1] = "CONN" THEN "CONNECT" ELSE "GET", raw_url |-> url,
                  url |-> IF url = <<"/", "?", "x">> THEN <<"/">> ELSE url, headers |-> headers, body |-> body]]

Get == <<"GE", "T", "SP">>
H(n, v) == n \o <<":", "SP">> \o v \o EOL

Bare    == Message(Get, <<"/">>, V11 \o EOL, <<>>, <<>>, <<>>)
Query   == Message(EOL \o Get, <<"/", "?", "x">>, V11 \o EOL \o H(<<"x">>, <<"a">>), <<<<<<"x">>, <<"a">>>>>>, <<>>, <<>>)
Proxied == Message(Get, <<"a", ":", "/", "/", "a", "/", "#", "x">>, V11 \o <<"LF">>, <<>>, <<>>, <<>>)
Length  == Message(Get, <<"/", "a">>, V11 \o EOL \o H(<<"con", "tent-length">>, <<"2">>),
                   <<<<<<"con", "tent-length">>, <<"2">>>>>>, <<"GE", "LF">>, <<"GE", "LF">>)
Folded  == Message(Get, <<"/">>, V11 \o EOL \o H(<<"x">>, <<"a">>) \o <<"SP", "con">> \o EOL \o H(<<"a">>, <<"x", "x">>),
                   <<<<<<"x">>, <<"a", "SP", "con">>>>, <<<<"a">>, <<"x", "x">>>>>>, <<>>, <<>>)
Chunked == Message(Get, <<"*">>, V11 \o EOL \o H(<<"transfer", "-encoding">>, <<"chunk", "ed">>),
                   <<<<<<"transfer", "-encoding">>, <<"chunk", "ed">>>>>>, <<"a", "CR", "x">>,
                   <<"2", ";", "x">> \o EOL \o <<"a", "CR">> \o EOL \o <<"0", "1">> \o EOL \o <<"x">> \o EOL \o <<"0">> \o EOL \o EOL)
Keep10  == Message(Get, <<"/">>, V10 \o EOL \o H(<<"con", "nection">>, <<"keep", "-alive">>) \o H(<<"x">>, <<>>),
                   <<<<<<"con", "nection">>, <<"keep", "-alive">>>>, <<<<"x">>, <<>>>>>>, <<>>, <<>>)
Zero    == Message(Get, <<"/">>, V11 \o <<"LF">> \o H(<<"con", "tent-length">>, <<"0">>),
                   <<<<<<"con", "tent-length">>, <<"0">>>>>>, <<>>, <<>>)

Closes  == Message(Get, <<"/">>, V11 \o EOL \o H(<<"con", "nection">>, <<"cl", "ose">>),
                   <<<<<<"con", "nection">>, <<"cl", "ose">>>>>>, <<>>, <<>>)
Old     == Message(Get, <<"/">>, V10 \o EOL, <<>>, <<>>, <<>>)
Oldest  == Message(Get, <<"/">>, EOL, <<>>, <<>>, <<>>)

Upgrade == Message(Get, <<"/">>, V11 \o EOL \o H(<<"up", "grade">>, <<"x">>), <<<<<<"up", "grade">>, <<"x">>>>>>, <<>>, <<>>)
Tunnel  == Message(<<"CONN", "ECT", "SP">>, <<"a", "@", "x", ":", "1">>, V11 \o EOL, <<>>, <<>>, <<>>)

Kept  == {Bare, Query, Proxied, Length, Folded, Chunked, Keep10, Zero}
Final == {Closes, Old, Oldest}

One(m, plain) == [wire |-> m.wire, requests |-> <<m.request>>, ends |-> <<Len(m.wire)>>, refused |-> FALSE, plain |-> plain]
Two(m, n, plain) ==
    [wire |-> m.wire \o n.wire, requests |-> <<m.request, n.request>>,
     ends |-> <<Len(m.wire), Len(m.wire) + Len(n.wire)>>, refused |-> FALSE, plain |-> plain]
Closed(m, n) ==
    [wire |-> m.wire \o EOL \o n.wire, requests |-> <<m.request>>, ends |-> <<Len(m.wire)>>, refused |-> TRUE, plain |-> TRUE]
Bad(w) == [wire |-> w, requests |-> <<>>, ends |-> <<>>, refused |-> TRUE, plain |-> TRUE]

Start == Get \o <<"/">> \o V11 \o EOL
Malformed ==
    {Bad(<<"x", "T">>), Bad(<<"GE", "SP">>), Bad(Get \o <<"a", "/", "SP">>), Bad(Get \o <<"a", "SP">>),
     Bad(<<"CONN", "ECT", "SP", "a", "@", "@">>), Bad(Get \o <<"/", "#", "CR", "x">>), Bad(Get \o <<"/", "SP", "x">>),
     Bad(Get \o <<"/", "SP", "HTT", "P/", "0">>), Bad(Get \o <<"/", "SP", "HTT", "P/", "1", "1", "1", "1">>),
     Bad(Start \o <<"x", "?">>), Bad(Start \o <<"?">>), Bad(Start \o <<"CR", "CR">>),
     Bad(Start \o H(<<"con", "tent-length">>, <<"x">>)), Bad(Start \o H(<<"con", "tent-length">>, <<"2", "SP", "x">>)),
     Bad(Start \o H(<<"con", "tent-length">>, <<"2", "2", "2">>)), Bad(Start \o H(<<"con", "tent-length">>, <<"2">>) \o <<"SP", "2">>),
     Bad(Start \o H(<<"transfer", "-encoding">>, <<"chunk", "ed">>) \o EOL \o <<"1", "0", "0">>),
     Bad(Start \o H(<<"transfer", "-encoding">>, <<"chunk", "ed">>) \o EOL \o <<"x">>),
     Bad(Start \o H(<<"transfer", "-encoding">>, <<"chunk", "ed">>) \o EOL \o <<"1">> \o EOL \o <<"x", "x">>),
     Bad(Start \o H(<<"x">>, <<"a", "a", "a", "a", "a", "a", "a", "a", "a", "a", "a", "a", "a", "a", "a", "a", "a", "a", "a", "a", "a", "a", "a">>))}

Requests  == {Two(m, n, TRUE) : m, n \in Kept} \cup {Two(m, n, FALSE) : m \in {Bare, Chunked}, n \in {Upgrade, Tunnel}}
Endings   == {Closed(m, n) : m \in Final, n \in {Bare, Length}} \cup Malformed
=============================================================================
