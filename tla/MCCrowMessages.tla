--------------------------- MODULE MCCrowMessages ---------------------------
(***************************************************************************)
(* The parts of crow_all.h that read what a client sends, each on its own  *)
(* small instance: the words of a request's head, the request parser, the  *)
(* router, the websocket connection, query strings, and JSON: its text,    *)
(* the values loaded of it and the values an answer is built of.  The      *)
(* parts keep separate state; scene, fixed by the initial state, says      *)
(* which of them runs, and the others stay as they were made.              *)
(***************************************************************************)
EXTENDS Integers, Sequences, SequencesExt

VARIABLES
    scene,
    kind, name, state, match, index, read,
    sent, taken, parser, fed,
    all_rules, added, trie, rules, phase, answer,
    state_, remaining_length_, mask_, mini_header_, fragment_, message_,
    is_binary_, is_reading, close_connection_, has_sent_close_,
    has_recv_close_, is_close_handler_called_, sending_buffers_,
    write_buffers_, object, open, arrived, pos, peer, posts, got, wire, calls,
    url, pieces, pairs, reply,
    genre, text, typed, root, told,
    chars, flag, ends, order, cached, answer_, behind,
    calls_, w, dumped

Wires  == INSTANCE RequestStreams
Tables == INSTANCE RouteTables
Frames == INSTANCE FrameStreams

Word == INSTANCE HttpWords

Http == INSTANCE HttpParser WITH
    Streams <- Wires!Requests \cup Wires!Endings,
    MaxHeader <- 34, UllMax <- 99, Pieces <- {1, 2, 3, 5, 8}

(* Every rule with a parameter of every type, on many URLs.                *)
Paths == INSTANCE Router WITH
    Declared <- Tables!Routes, MaxRules <- 3, Urls <- Tables!RouteUrls,
    Asked <- {"GET"}, LongDigits <- 2
(* Rules of every kind and method, on a few URLs.                          *)
Kinds == INSTANCE Router WITH
    Declared <- Tables!Kinds, MaxRules <- 3, Urls <- Tables!FewUrls,
    Asked <- {"GET", "POST", "COPY"}, LongDigits <- 2

(* A conversation; frames cut anywhere; and a peer and an application that  *)
(* both close, or hang up, at any time.                                     *)
Talk == INSTANCE WebSocket WITH
    Stream <- Frames!TalkStream, Stops <- Frames!TalkStops,
    Farewells <- Frames!TalkEnds, BufferSize <- 8, Sends <- 1, Closes <- 0,
    Answers <- TRUE, Stale <- {0, 33152}
Pieces == INSTANCE WebSocket WITH
    Stream <- Frames!ShortStream, Stops <- Frames!ShortStops,
    Farewells <- Frames!ShortStops, BufferSize <- 1, Sends <- 1, Closes <- 0,
    Answers <- TRUE, Stale <- {0, 33152}
Hangup == INSTANCE WebSocket WITH
    Stream <- Frames!LeaverStream, Stops <- Frames!LeaverStops,
    Farewells <- Frames!LeaverStops, BufferSize <- 8, Sends <- 1, Closes <- 2,
    Answers <- TRUE, Stale <- {0}

(* Parameters plain and escaped, in lists and dictionaries, and a fragment.  *)
Query == INSTANCE QueryString WITH
    UrlStarts <- {<<47, 63>>, <<47, 63, 97, 61, 98, 38>>},
    UrlChunks <- {<<97, 61>>, <<97, 91, 93, 61>>, <<97, 91, 107, 93, 61>>,
                  <<37, 54, 49, 61>>, <<98>>, <<38>>, <<37, 52>>, <<43>>, <<35>>},
    UrlLength <- 4, MaxPairs <- 3, Asked <- {<<97>>}

(* Numbers of up to six characters, strings with every kind of escape, and  *)
(* values in one another.                                                   *)
TextPieces ==
    [numbers |-> {<<45>>, <<48>>, <<49>>, <<46>>, <<69>>, <<43>>},
     strings |-> {<<34>>, <<97>>, <<92, 34>>, <<92, 92>>, <<92, 110>>, <<92>>,
                  <<92, 117, 48, 48, 69, 57>>, <<92, 117, 50, 48, 97, 67>>,
                  <<92, 117, 48, 48, 49, 70>>, <<92, 117, 48, 48, 48, 48>>,
                  <<10>>, <<0>>},
     values  |-> {<<91>>, <<93>>, <<123>>, <<125>>, <<44>>, <<58>>,
                  <<34, 97, 34, 58>>, <<34, 92, 34, 34>>, <<55>>, <<45, 49, 57>>,
                  <<32>>, <<116, 114, 117, 101>>, <<110, 117>>}]
Texts == INSTANCE JsonText WITH
    Chunks <- TextPieces, Bits <- 4,
    MaxChunks <- [numbers |-> 6, strings |-> 4, values |-> 7]
(* Three members, two of them with one key.                                 *)
Copies == INSTANCE JsonHandles WITH
    Handles <- {"loaded", "copy", "other"}, Loaded <- "loaded", Keys <- <<2, 1, 2>>,
    Raw <- <<<<97, 92, 110>>, <<97>>, <<92, 92, 110>>>>
Built == INSTANCE JsonBuilder WITH
    Names <- {"x", "y"}, Fields <- {"k"}, MaxItems <- 3, MaxCalls <- 4,
    Scalars <- {[t |-> "Number", as |-> "si", n |-> -1],
                [t |-> "Number", as |-> "d", n |-> 5]}

words     == <<kind, name, state, match, index, read>>
requests  == <<sent, taken, parser, fed>>
routing   == <<all_rules, added, trie, rules, phase, answer>>
websocket == <<state_, remaining_length_, mask_, mini_header_, fragment_,
               message_, is_binary_, is_reading, close_connection_,
               has_sent_close_, has_recv_close_, is_close_handler_called_,
               sending_buffers_, write_buffers_, object, open, arrived, pos,
               peer, posts, got, wire, calls>>
query  == <<url, pieces, pairs, reply>>
texts  == <<genre, text, typed, root, told>>
copies == <<chars, flag, ends, order, cached, answer_, behind>>
built  == <<calls_, w, dumped>>
data   == <<query, texts, copies, built>>
vars == <<scene, words, requests, routing, websocket, data>>

WebSockets == {"talk", "pieces", "hangup"}

Init ==
    /\ scene \in {"words", "requests", "paths", "kinds", "query",
                  "texts", "copies", "built"} \cup WebSockets
    /\ Word!Init /\ (scene # "words" => kind = "method")
    /\ Http!Init
    /\ scene # "requests" => sent = CHOOSE s \in Wires!Requests : TRUE
    /\ Paths!Init
    /\ IF scene \in {"talk", "pieces"} THEN Talk!Init ELSE Hangup!Init
    /\ scene \in WebSockets \/ ~is_binary_
    /\ Query!Init /\ (scene # "query" => url = <<47, 63>>)
    /\ Texts!Init /\ (scene # "texts" => genre = "numbers")
    /\ Copies!Init /\ Built!Init

Next ==
    \/ scene = "words" /\ Word!Next
       /\ UNCHANGED <<scene, requests, routing, websocket, data>>
    \/ scene = "requests" /\ Http!Next
       /\ UNCHANGED <<scene, words, routing, websocket, data>>
    \/ scene = "paths" /\ Paths!Next
       /\ UNCHANGED <<scene, words, requests, websocket, data>>
    \/ scene = "kinds" /\ Kinds!Next
       /\ UNCHANGED <<scene, words, requests, websocket, data>>
    \/ scene = "talk" /\ Talk!Next
       /\ UNCHANGED <<scene, words, requests, routing, data>>
    \/ scene = "pieces" /\ Pieces!Next
       /\ UNCHANGED <<scene, words, requests, routing, data>>
    \/ scene = "hangup" /\ Hangup!Next
       /\ UNCHANGED <<scene, words, requests, routing, data>>
    \/ scene = "query" /\ Query!Next
       /\ UNCHANGED <<scene, words, requests, routing, websocket, texts, copies, built>>
    \/ scene = "texts" /\ Texts!Next
       /\ UNCHANGED <<scene, words, requests, routing, websocket, query, copies, built>>
    \/ scene = "copies" /\ Copies!Next
       /\ UNCHANGED <<scene, words, requests, routing, websocket, query, texts, built>>
    \/ scene = "built" /\ Built!Next
       /\ UNCHANGED <<scene, words, requests, routing, websocket, query, texts, copies>>

Spec == Init /\ [][Next]_vars
-----------------------------------------------------------------------------
(* Each part keeps its types; no assert of http_parser_execute fails        *)
(* (crow_all.h:4550, 4779, 4952); and a websocket object is deleted only    *)
(* when no completion of a read or a write can still run on it, never       *)
(* before its close handler was called if it was opened; it is used         *)
(* afterwards only by the handler of the Close that ends the handshake and  *)
(* by a call posted before its end; and reading stops only in a frame cut   *)
(* in two or for a closing write (crow_all.h:6717-6739, 6784-6969,          *)
(* 7034-7042, 7092-7100).                                                   *)
ReadersConsistent ==
    /\ Word!TypeOK /\ Http!TypeOK /\ Paths!TypeOK
    /\ Query!TypeOK /\ Texts!TypeOK /\ Copies!TypeOK /\ Built!TypeOK
    /\ scene = "talk" => Talk!TypeOK
    /\ scene = "pieces" => Pieces!TypeOK
    /\ scene = "hangup" => Hangup!TypeOK
    /\ Http!AssertsHold
    /\ Talk!NothingRunsOnTheDeleted
    /\ Talk!ToldBeforeDeleted
    /\ Talk!OnlyAFrameIsAbandoned

(* Where the reads of a connection end makes no difference to the requests its   *)
(* parser makes of them (crow_all.h:3673-3693, 4947-4969).                       *)
CutsDoNotMatter == Http!CutsDoNotMatter

(* What is handled is what was sent, request by request, and nothing that   *)
(* follows the last one; exactly the malformed streams are refused; and the *)
(* method, a header's name and its value are what was read in whole words,  *)
(* whatever the words share (crow_all.h:3963-4938).                         *)
RequestsAreThoseSent ==
    /\ Http!RequestsAreThoseSent /\ Http!BadIsRefused
    /\ Word!MethodsAreRead /\ Word!NamesAreRead /\ Word!ValuesAreRead

(* The answer is that of the first declared rule that matches, whatever     *)
(* the trie shares and merges; an application runs exactly when no rule     *)
(* hides another one and each has a handler; and a redirection leads to a   *)
(* page and not to a redirection (crow_all.h:8106, 8164, 8340, 8451).       *)
FirstRuleAnswers ==
    Paths!FirstRuleAnswers /\ Paths!TwinsAreRefused /\ Paths!RedirectionsEnd

(* A message in one frame or two reaches the message handler as the peer    *)
(* meant it, in its order, with control frames inside and between the       *)
(* messages and lengths of every form; nothing else reaches it but the      *)
(* second part of a message in two frames, once more and as a text          *)
(* (crow_all.h:6983-7059); and frames are written whole, once and in the    *)
(* order of the calls, however writes and calls overlap (do_write at 7061). *)
TalkIsUnderstood ==
    /\ [](scene = "talk" => IsPrefix(got, Frames!TalkMeant))
    /\ Talk!OutgoingKeepsItsOrder

(* A query and a JSON text mean to Crow what they mean to the client, and a *)
(* JSON value that Crow writes is read as the same value (crow_all.h:51,    *)
(* 635, 962, 1349).                                                         *)
TextsAreUnderstood ==
    Query!AnswersFollowTheQuery /\ Texts!ReadAsWritten /\ Texts!WrittenIsReadAgain

(* A JSON value stays what it was read as or made of, whatever is read,     *)
(* copied, looked up, moved and assigned in between, but for a string read  *)
(* late through an early copy and a number that was moved (crow_all.h:962,  *)
(* 1044, 1803).                                                             *)
ValuesAreKept ==
    Copies!StringsAreMeant /\ Copies!KeysAreFound /\ Built!DumpIsMeant
=============================================================================
