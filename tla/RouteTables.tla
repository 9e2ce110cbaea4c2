---------------------------- MODULE RouteTables ----------------------------
(***************************************************************************)
(* Rules and URLs for Router.                                              *)
(***************************************************************************)
EXTENDS Naturals, Sequences

Plain(path, methods) == [path |-> path, methods |-> methods, kind |-> "plain"]

Paths ==
    {<<"/">>, <<"/", "a">>, <<"/", "a", "b">>, <<"/", "a", "/">>, <<"/", "<int>">>, <<"/", "<uint>">>,
     <<"/", "<double>">>, <<"/", "<str>">>, <<"/", "<path>">>, <<"/", "a", "<str>">>, <<"/", "<str>", "/">>,
     <<"/", "<int>", "b">>, <<"/", "<str>", "/", "<double>">>}

Routes == {Plain(p, {"GET"}) : p \in Paths}

Characters == {"/", "a", "b", "1", "-", "."}
ShortUrls == {<<"/">> \o s : s \in UNION {[1..n -> Characters] : n \in 0..2}}
LongUrls  == {<<"/", "a", "/", "+", "1">>, <<"/", "1", "1", "b">>, <<"/", "1", "1", "1">>, <<"/", "a", "/", "b", "/">>,
              <<"/", "-", "1", "b">>, <<"/", "b", "/", "1", ".">>, <<"/", "a", "/", ".", "1">>}
RouteUrls == ShortUrls \cup LongUrls

Kinds ==
    {Plain(<<"/", "a">>, {"GET", "POST"}), Plain(<<"/", "a">>, {"POST"}), Plain(<<"/", "<str>", "/">>, {"GET", "POST"}),
     Plain(<<"/", "<str>">>, {"POST"}), [path |-> <<"/", "b">>, methods |-> {"POST"}, kind |-> "websocket"],
     [path |-> <<"/", "b">>, methods |-> {"GET"}, kind |-> "plain"], [path |-> <<"/", "b">>, methods |-> {"GET"}, kind |-> "bare"]}
FewUrls == {<<"/", "a">>, <<"/", "b">>, <<"/", "a", "/">>}
=============================================================================
