------------------------------ MODULE HttpParser ------------------------------
(***************************************************************************)
(* The HTTP parser of a Crow connection (crow_all.h): http_parser_execute  *)
(* for requests, in strict mode, and the HTTPParser callbacks that build a *)
(* request out of it. What a client sent arrives in reads of any size; the *)
(* parser keeps its state from one read to the next, and the pieces of an  *)
(* URL, a header or a body that a read ends inside of are handed over      *)
(* before the buffer is used again.                                        *)
(*                                                                         *)
(* A character of the model is one character that matters ("CR", ":") or a *)
(* piece of a word ("con" "nection"), so that a read may end inside a word; *)
(* module HttpWords has the words character by character.                  *)
(***************************************************************************)
EXTENDS Naturals, Sequences
LOCAL INSTANCE SequencesExt

CONSTANTS
    Streams,    \* what a client may send: [wire, requests, ends, refused]
    MaxHeader,  \* CROW_HTTP_MAX_HEADER_SIZE, in characters of the model
    UllMax,     \* CROW_ULLONG_MAX
    Pieces      \* how much a read may bring

----------------------------------------------------------------------------
(* Characters.                                                             *)
Numerals == <<"0", "1", "2">>
Digits == {"0", "1", "2"}
Number(ch) == (CHOOSE n \in 1..3 : Numerals[n] = ch) - 1
Letters == {"a", "x", "GE", "T", "CONN", "ECT", "HTT", "con", "nection", "tent-length", "transfer",
            "-encoding", "up", "grade", "chunk", "ed", "cl", "ose", "keep", "-alive"}
Blank == {"SP", "CR", "LF"}
Tokens == Letters \cup Digits \cup {"*", "."}
UrlChars == Tokens \cup {":", ";", "@", "/", "P/"}
UserInfoChars == Tokens \cup {":", ";"}
Chars == UrlChars \cup Blank \cup {"?", "#"}

MethodStart == [GE |-> "GET", CONN |-> "CONNECT"]
MethodRest  == [GET |-> "T", CONNECT |-> "ECT"]

VARIABLES
    sent,    \* the stream of this client
    taken,   \* how much of it has been fed to the parser
    parser,  \* http_parser and HTTPParser, see New
    fed      \* what the last feed returned: "ok" or "failed", or "ended"

vars == <<sent, taken, parser, fed>>

(* The url_mark .. body_mark of one call, as positions in its buffer.      *)
NoMark == [url |-> 0, header_field |-> 0, header_value |-> 0, body |-> 0]

New ==
    [state |-> "s_start_req", flags |-> {}, content_length |-> 0, header_state |-> "h_general",
     method |-> "GET", index |-> 0, http_major |-> 0, http_minor |-> 0, nread |-> 0,
     upgrade |-> FALSE, http_errno |-> "HPE_OK",
     raw_url |-> <<>>, header_building_state |-> 0, header_field |-> <<>>, header_value |-> <<>>,
     headers |-> <<>>, body |-> <<>>,
     handled |-> <<>>,   \* the requests given to Connection::handle
     asserts |-> TRUE,   \* no assert of the parser has failed
     data |-> <<>>, p |-> 0, mark |-> NoMark, returned |-> FALSE]

Go(r, s)   == [r EXCEPT !.state = s]
Fail(r, e) == [r EXCEPT !.http_errno = e]
Ch(r) == r.data[r.p]
Asserting(r, e) == [r EXCEPT !.asserts = @ /\ e]

----------------------------------------------------------------------------
(* The callbacks of HTTPParser.                                            *)
OnMessageBeginMutant(r) ==
    [r EXCEPT !.raw_url = <<>>, !.header_building_state = 0, !.header_field = <<>>,
              !.header_value = <<>>, !.body = <<>>]

OnMessageBegin(r) ==
    [r EXCEPT !.raw_url = <<>>, !.header_building_state = 0, !.header_field = <<>>,
              !.header_value = <<>>, !.headers = <<>>, !.body = <<>>]

OnUrl(r, s) == [r EXCEPT !.raw_url = @ \o s]

Emplace(r) ==
    [r EXCEPT !.headers = Append(@, <<r.header_field, r.header_value>>),
              !.header_field = <<>>, !.header_value = <<>>]

OnHeaderField(r, s) ==
    IF r.header_building_state = 0
    THEN [(IF r.header_value # <<>> THEN Emplace(r) ELSE r) EXCEPT
             !.header_field = s, !.header_building_state = 1]
    ELSE [r EXCEPT !.header_field = @ \o s]

OnHeaderValue(r, s) ==
    [r EXCEPT !.header_value = IF r.header_building_state = 0 THEN @ \o s ELSE s,
              !.header_building_state = 0]

OnHeadersComplete(r) == IF r.header_field # <<>> THEN Emplace(r) ELSE r

OnBody(r, s) == [r EXCEPT !.body = @ \o s]

UpToQuery(s) ==
    IF \E i \in 1..Len(s) : s[i] = "?"
    THEN SubSeq(s, 1, (CHOOSE i \in 1..Len(s) : s[i] = "?" /\ \A j \in 1..(i - 1) : s[j] # "?") - 1)
    ELSE s

OnMessageComplete(r) ==
    [r EXCEPT !.handled = Append(@, [method |-> r.method, raw_url |-> r.raw_url, url |-> UpToQuery(r.raw_url),
                                     headers |-> r.headers, body |-> r.body])]

(* CROW_MARK, and CROW_CALLBACK_DATA_ with what lies between the mark and  *)
(* the position last.                                                      *)
Mark(r, f) == IF r.mark[f] = 0 THEN [r EXCEPT !.mark[f] = r.p] ELSE r

CallbackData(r, f, last) ==
    LET s == SubSeq(r.data, r.mark[f], last) IN
    IF r.mark[f] = 0 THEN r
    ELSE [(CASE f = "url" -> OnUrl(r, s)                    [] f = "header_field" -> OnHeaderField(r, s)
             [] f = "header_value" -> OnHeaderValue(r, s)   [] f = "body" -> OnBody(r, s))
             EXCEPT !.mark[f] = 0]

(* CROW_NEW_MESSAGE: after a message that is not to be followed by another *)
(* one on this connection the parser is dead.                              *)
ShouldKeepAlive(r) ==
    IF r.http_major > 0 /\ r.http_minor > 0 THEN "F_CONNECTION_CLOSE" \notin r.flags
                                            ELSE "F_CONNECTION_KEEP_ALIVE" \in r.flags

NewMessage(r) == OnMessageComplete(Go(r, IF ShouldKeepAlive(r) THEN "s_start_req" ELSE "s_dead"))

----------------------------------------------------------------------------
(* The request line.                                                       *)
ParseUrlChar(s, ch) ==
    CASE s = "s_req_spaces_before_url" /\ ch \in {"/", "*"} -> "s_req_path"
      [] s \in {"s_req_spaces_before_url", "s_req_schema"} /\ ch \in Letters -> "s_req_schema"
      [] s = "s_req_schema" /\ ch = ":" -> "s_req_schema_slash"
      [] s = "s_req_schema_slash" /\ ch = "/" -> "s_req_schema_slash_slash"
      [] s = "s_req_schema_slash_slash" /\ ch = "/" -> "s_req_server_start"
      [] s = "s_req_server_with_at" /\ ch = "@" -> "s_dead"
      [] s \in {"s_req_server_start", "s_req_server", "s_req_server_with_at"} ->
            (CASE ch = "/" -> "s_req_path"              [] ch = "?" -> "s_req_query_string_start"
               [] ch = "@" -> "s_req_server_with_at"    [] ch \in UserInfoChars -> "s_req_server"
               [] OTHER -> "s_dead")
      [] s = "s_req_path" ->
            (CASE ch \in UrlChars -> s                  [] ch = "?" -> "s_req_query_string_start"
               [] ch = "#" -> "s_req_fragment_start"    [] OTHER -> "s_dead")
      [] s \in {"s_req_query_string_start", "s_req_query_string"} ->
            (CASE ch \in UrlChars \cup {"?"} -> "s_req_query_string"
               [] ch = "#" -> "s_req_fragment_start"    [] OTHER -> "s_dead")
      [] s = "s_req_fragment_start" ->
            (CASE ch \in UrlChars \cup {"?"} -> "s_req_fragment"
               [] ch = "#" -> s                         [] OTHER -> "s_dead")
      [] s = "s_req_fragment" /\ ch \in UrlChars \cup {"?", "#"} -> s
      [] OTHER -> "s_dead"

StartReq(r) ==
    LET ch == Ch(r)
        s  == [r EXCEPT !.flags = {}, !.content_length = UllMax]
    IN  IF ch \in {"CR", "LF"} THEN r
        ELSE IF ch \notin DOMAIN MethodStart THEN Fail(s, "HPE_INVALID_METHOD")
        ELSE OnMessageBegin([s EXCEPT !.method = MethodStart[ch], !.index = 1, !.state = "s_req_method"])

ReqMethod(r) ==
    CASE Ch(r) = "SP" /\ r.index = 2 -> [r EXCEPT !.state = "s_req_spaces_before_url", !.index = @ + 1]
      [] r.index = 1 /\ Ch(r) = MethodRest[r.method] -> [r EXCEPT !.index = @ + 1]
      [] OTHER -> Fail(r, "HPE_INVALID_METHOD")

UrlStates == {"s_req_path", "s_req_schema", "s_req_schema_slash", "s_req_schema_slash_slash",
              "s_req_server_start", "s_req_server", "s_req_server_with_at", "s_req_query_string_start",
              "s_req_query_string", "s_req_fragment_start", "s_req_fragment"}
NoSpaceYet == {"s_req_schema", "s_req_schema_slash", "s_req_schema_slash_slash", "s_req_server_start"}

InUrl(r, from) ==
    LET s == ParseUrlChar(from, Ch(r)) IN
    IF s = "s_dead" THEN Fail(Go(r, s), "HPE_INVALID_URL") ELSE Go(r, s)

SpacesBeforeUrl(r) ==
    IF Ch(r) = "SP" THEN r
    ELSE InUrl(Mark(r, "url"), IF r.method = "CONNECT" THEN "s_req_server_start" ELSE r.state)

Url(r) ==
    LET ch == Ch(r) IN
    IF ch \notin Blank THEN InUrl(r, r.state)
    ELSE IF r.state \in NoSpaceYet THEN Fail(r, "HPE_INVALID_URL")
    ELSE IF ch = "SP" THEN CallbackData(Go(r, "s_req_http_start"), "url", r.p - 1)
    ELSE CallbackData([r EXCEPT !.http_major = 0, !.http_minor = 9,
                                !.state = IF ch = "CR" THEN "s_req_line_almost_done" ELSE "s_header_field_start"],
                      "url", r.p - 1)

HttpStart(r) ==
    CASE r.state = "s_req_http_start" /\ Ch(r) = "HTT" -> Go(r, "s_req_http_HTT")
      [] r.state = "s_req_http_start" /\ Ch(r) = "SP"  -> r
      [] r.state = "s_req_http_HTT"   /\ Ch(r) = "P/"  -> Go(r, "s_req_first_http_major")
      [] OTHER -> Fail(r, IF r.state = "s_req_http_start" THEN "HPE_INVALID_CONSTANT" ELSE "HPE_STRICT")

(* A version number, of which the last digit is before the character end.  *)
Version(r, field, isEnd, next) ==
    LET ch == Ch(r)
        n  == 10 * r[field] + Number(ch)
    IN  IF isEnd THEN Go(r, next)
        ELSE IF ch \notin Digits \/ n > 999 THEN Fail(r, "HPE_INVALID_VERSION")
        ELSE [r EXCEPT ![field] = n]

HttpVersion(r) ==
    LET ch == Ch(r) IN
    CASE r.state = "s_req_first_http_major" /\ ch \in Digits \ {"0"} ->
            [r EXCEPT !.http_major = Number(ch), !.state = "s_req_http_major"]
      [] r.state = "s_req_http_major" -> Version(r, "http_major", ch = ".", "s_req_first_http_minor")
      [] r.state = "s_req_first_http_minor" /\ ch \in Digits ->
            [r EXCEPT !.http_minor = Number(ch), !.state = "s_req_http_minor"]
      [] r.state = "s_req_http_minor" ->
            Version(r, "http_minor", ch \in {"CR", "LF"},
                    IF ch = "CR" THEN "s_req_line_almost_done" ELSE "s_header_field_start")
      [] OTHER -> Fail(r, "HPE_INVALID_VERSION")

LineAlmostDone(r) == IF Ch(r) = "LF" THEN Go(r, "s_header_field_start") ELSE Fail(r, "HPE_LF_EXPECTED")

----------------------------------------------------------------------------

(* The end of the headers. The same character may be read by several       *)
(* states in a row (goto reexecute_byte).                                  *)
HeadersDone(r) ==
    LET s == [r EXCEPT !.nread = 0] IN
    CASE Ch(r) # "LF" -> Fail(r, "HPE_STRICT")
      [] Ch(r) = "LF" /\ r.upgrade -> [NewMessage(s) EXCEPT !.returned = TRUE]
      [] Ch(r) = "LF" /\ ~r.upgrade /\ "F_CHUNKED" \in r.flags -> Go(s, "s_chunk_size_start")
      [] Ch(r) = "LF" /\ ~r.upgrade /\ "F_CHUNKED" \notin r.flags ->
            IF r.content_length \in {0, UllMax} THEN NewMessage(s) ELSE Go(s, "s_body_identity")

HeadersAlmostDone(r) ==
    CASE Ch(r) # "LF" -> Fail(r, "HPE_STRICT")
      [] Ch(r) = "LF" /\ "F_TRAILING" \in r.flags -> NewMessage(r)
      [] OTHER -> HeadersDone(OnHeadersComplete(
                    [r EXCEPT !.state = "s_headers_done",
                              !.upgrade = "F_UPGRADE" \in r.flags \/ r.method = "CONNECT"]))

HeaderFieldStart(r) ==
    LET ch == Ch(r) IN
    CASE ch = "CR" -> Go(r, "s_headers_almost_done")
      [] ch = "LF" -> HeadersAlmostDone(Go(r, "s_headers_almost_done"))
      [] ch \in Tokens ->
            [Mark(r, "header_field") EXCEPT
                !.index = 0, !.state = "s_header_field",
                !.header_state = CASE ch = "con" -> "h_CON"  [] ch = "transfer" -> "h_matching_transfer_encoding"
                                   [] ch = "up" -> "h_matching_upgrade"  [] OTHER -> "h_general"]
      [] OTHER -> Fail(r, "HPE_INVALID_HEADER_TOKEN")

HeaderField(r) ==
    LET ch == Ch(r)
        h  == r.header_state
    IN  CASE ch \in Tokens ->
                [Asserting(r, h \in {"h_general", "h_CON", "h_matching_transfer_encoding", "h_matching_upgrade",
                                  "h_connection", "h_content_length", "h_transfer_encoding", "h_upgrade"})
                    EXCEPT !.header_state =
                        CASE h = "h_CON" /\ ch = "nection" -> "h_connection"
                          [] h = "h_CON" /\ ch = "tent-length" -> "h_content_length"
                          [] h = "h_matching_transfer_encoding" /\ ch = "-encoding" -> "h_transfer_encoding"
                          [] h = "h_matching_upgrade" /\ ch = "grade" -> "h_upgrade"
                          [] OTHER -> "h_general"]
          [] ch \in {":", "CR", "LF"} ->
                CallbackData(Go(r, CASE ch = ":" -> "s_header_value_discard_ws" [] ch = "CR" -> "s_header_almost_done"
                                     [] ch = "LF" -> "s_header_field_start"), "header_field", r.p - 1)
          [] OTHER -> Fail(r, "HPE_INVALID_HEADER_TOKEN")

----------------------------------------------------------------------------
(* The value of a header.                                                  *)
ValueStart(r) ==
    LET ch == Ch(r)
        h  == r.header_state
        s  == [Mark(r, "header_value") EXCEPT !.state = "s_header_value", !.index = 0]
        To(n) == [s EXCEPT !.header_state = n]
    IN  CASE h = "h_upgrade" -> [To("h_general") EXCEPT !.flags = @ \cup {"F_UPGRADE"}]
          [] h = "h_content_length" ->
                IF ch \in Digits THEN [s EXCEPT !.content_length = Number(ch)] ELSE Fail(s, "HPE_INVALID_CONTENT_LENGTH")
          [] h = "h_transfer_encoding" /\ ch = "chunk" -> To("h_matching_transfer_encoding_chunked")
          [] h = "h_connection" /\ ch = "keep" -> To("h_matching_connection_keep_alive")
          [] h = "h_connection" /\ ch = "cl" -> To("h_matching_connection_close")
          [] OTHER -> To("h_general")

DiscardWs(r) ==
    CASE Ch(r) = "SP" -> r
      [] Ch(r) = "CR" -> Go(r, "s_header_value_discard_ws_almost_done")
      [] Ch(r) = "LF" -> Go(r, "s_header_value_discard_lws")
      [] OTHER -> ValueStart(r)

DiscardLws(r) ==
    IF Ch(r) = "SP" THEN Go(r, "s_header_value_discard_ws")
    ELSE HeaderFieldStart(CallbackData(Go(Mark(r, "header_value"), "s_header_field_start"), "header_value", r.p - 1))

FoldedFlags == [h_connection_keep_alive |-> "F_CONNECTION_KEEP_ALIVE", h_connection_close |-> "F_CONNECTION_CLOSE",
                h_transfer_encoding_chunked |-> "F_CHUNKED"]

ValueLws(r) ==
    IF Ch(r) = "SP" THEN ValueStart(Go(r, "s_header_value_start"))
    ELSE HeaderFieldStart([r EXCEPT
            !.state = "s_header_field_start",
            !.flags = IF r.header_state \in DOMAIN FoldedFlags THEN @ \cup {FoldedFlags[r.header_state]} ELSE @])

(* The end of a line: s_header_almost_done and its like.                   *)
LineFeed(r, s) == IF Ch(r) = "LF" THEN Go(r, s) ELSE Fail(r, "HPE_STRICT")

(* One more digit, refused before the product could wrap around.           *)
MoreDigits(r, base, e) ==
    LET t == (base * r.content_length + Number(Ch(r))) % (UllMax + 1) IN
    IF (UllMax - base) \div base < r.content_length THEN Fail(r, e) ELSE [r EXCEPT !.content_length = t]

HeaderValue(r) ==
    LET ch == Ch(r)
        h  == r.header_state
        To(n) == [r EXCEPT !.header_state = n]
    IN  CASE ch = "CR" -> CallbackData(Go(r, "s_header_almost_done"), "header_value", r.p - 1)
          [] ch = "LF" -> LineFeed(CallbackData(Go(r, "s_header_almost_done"), "header_value", r.p - 1), "s_header_value_lws")
          [] h \in {"h_connection", "h_transfer_encoding"} -> Asserting(r, FALSE)
          [] h = "h_content_length" ->
                IF ch = "SP" THEN r
                ELSE IF ch \in Digits THEN MoreDigits(r, 10, "HPE_INVALID_CONTENT_LENGTH")
                ELSE Fail(r, "HPE_INVALID_CONTENT_LENGTH")
          [] h = "h_matching_transfer_encoding_chunked" /\ ch = "ed" -> To("h_transfer_encoding_chunked")
          [] h = "h_matching_connection_keep_alive" /\ ch = "-alive" -> To("h_connection_keep_alive")
          [] h = "h_matching_connection_close" /\ ch = "ose" -> To("h_connection_close")
          [] h \in DOMAIN FoldedFlags /\ ch = "SP" -> r
          [] OTHER -> To("h_general")

----------------------------------------------------------------------------
(* The body. As much of it as the buffer has is taken at once.             *)
TakeBody(r) ==
    LET left == Len(r.data) - r.p + 1
        n    == IF r.content_length < left THEN r.content_length ELSE left
        s    == Asserting(Mark(r, "body"), r.content_length \notin {0, UllMax})
    IN  [s EXCEPT !.content_length = @ - n, !.p = @ + n - 1]

BodyIdentity(r) ==
    LET s == TakeBody(r) IN
    IF s.content_length = 0 THEN NewMessage(CallbackData(Go(s, "s_message_done"), "body", s.p)) ELSE s

ChunkSize(r) ==
    LET ch == Ch(r) IN
    CASE r.state = "s_chunk_size_start" /\ ch \in Digits ->
            [Asserting(r, r.nread = 1) EXCEPT !.content_length = Number(ch), !.state = "s_chunk_size"]
      [] r.state = "s_chunk_size" /\ ch \in Digits -> MoreDigits(r, 16, "HPE_INVALID_CONTENT_LENGTH")
      [] r.state = "s_chunk_size" /\ ch \in {";", "SP"} -> Go(r, "s_chunk_parameters")
      [] r.state \in {"s_chunk_size", "s_chunk_parameters"} /\ ch = "CR" -> Go(r, "s_chunk_size_almost_done")
      [] r.state = "s_chunk_parameters" /\ ch # "CR" -> r
      [] OTHER -> Fail(r, "HPE_INVALID_CHUNK_SIZE")

ChunkSizeAlmostDone(r) ==
    LET s == [r EXCEPT !.nread = 0] IN
    IF Ch(r) # "LF" THEN Fail(r, "HPE_STRICT")
    ELSE IF r.content_length = 0 THEN [s EXCEPT !.flags = @ \cup {"F_TRAILING"}, !.state = "s_header_field_start"]
    ELSE Go(s, "s_chunk_data")

ChunkData(r) ==
    LET s == TakeBody(r) IN IF s.content_length = 0 THEN Go(s, "s_chunk_data_almost_done") ELSE s

ChunkDataAlmostDone(r) ==
    IF Ch(r) # "CR" THEN Fail(r, "HPE_STRICT")
    ELSE CallbackData(Go(Asserting(r, r.content_length = 0), "s_chunk_data_done"), "body", r.p - 1)

ChunkDataDone(r) ==
    IF Ch(r) # "LF" THEN Fail(r, "HPE_STRICT") ELSE [r EXCEPT !.nread = 0, !.state = "s_chunk_size_start"]

----------------------------------------------------------------------------
(* One character. Everything before the body counts against the limit of   *)
(* the headers, the sizes of chunks included.                              *)
BodyStates == {"s_chunk_data", "s_chunk_data_almost_done", "s_chunk_data_done", "s_body_identity"}

Step(r) ==
    LET s == r.state IN
    CASE s = "s_dead" -> IF Ch(r) \in {"CR", "LF"} THEN r ELSE Fail(r, "HPE_CLOSED_CONNECTION")
      [] s = "s_start_req" -> StartReq(r)
      [] s = "s_req_method" -> ReqMethod(r)
      [] s = "s_req_spaces_before_url" -> SpacesBeforeUrl(r)
      [] s \in UrlStates -> Url(r)
      [] s \in {"s_req_http_start", "s_req_http_HTT"} -> HttpStart(r)
      [] s \in {"s_req_first_http_major", "s_req_http_major", "s_req_first_http_minor", "s_req_http_minor"} -> HttpVersion(r)
      [] s = "s_req_line_almost_done" -> LineAlmostDone(r)
      [] s = "s_header_field_start" -> HeaderFieldStart(r)
      [] s = "s_header_field" -> HeaderField(r)
      [] s = "s_header_value_discard_ws" -> DiscardWs(r)
      [] s = "s_header_value_discard_ws_almost_done" -> LineFeed(r, "s_header_value_discard_lws")
      [] s = "s_header_value_discard_lws" -> DiscardLws(r)
      [] s = "s_header_value" -> HeaderValue(r)
      [] s = "s_header_almost_done" -> LineFeed(r, "s_header_value_lws")
      [] s = "s_header_value_lws" -> ValueLws(r)
      [] s = "s_headers_almost_done" -> HeadersAlmostDone(r)
      [] s = "s_body_identity" -> BodyIdentity(r)
      [] s \in {"s_chunk_size_start", "s_chunk_size", "s_chunk_parameters"} -> ChunkSize(r)
      [] s = "s_chunk_size_almost_done" -> ChunkSizeAlmostDone(r)
      [] s = "s_chunk_data" -> ChunkData(r)
      [] s = "s_chunk_data_almost_done" -> ChunkDataAlmostDone(r)
      [] s = "s_chunk_data_done" -> ChunkDataDone(r)
      [] OTHER -> Asserting(Fail(r, "HPE_INVALID_INTERNAL_STATE"), FALSE)

Byte(r) ==
    LET n == r.nread + 1 IN
    IF r.state \in BodyStates THEN Step(r)
    ELSE IF n > MaxHeader THEN Fail([r EXCEPT !.nread = n], "HPE_HEADER_OVERFLOW")
    ELSE Step([r EXCEPT !.nread = n])

(* http_parser_execute: a piece that the last buffer ended inside of goes  *)
(* on at the start of this one, and what this one ends inside of is handed *)
(* over at its end.                                                        *)
MarksAtStartMutant(r) ==
    CASE r.state = "s_header_value" -> [NoMark EXCEPT !.header_value = 1]
      [] r.state \in UrlStates -> [NoMark EXCEPT !.url = 1]
      [] OTHER -> NoMark

MarksAtStart(r) ==
    CASE r.state = "s_header_field" -> [NoMark EXCEPT !.header_field = 1]
      [] r.state = "s_header_value" -> [NoMark EXCEPT !.header_value = 1]
      [] r.state \in UrlStates -> [NoMark EXCEPT !.url = 1]
      [] OTHER -> NoMark

LeftOver(r) ==
    LET n == Len(r.data)
        s == Asserting(r, \A f, g \in DOMAIN NoMark : r.mark[f] # 0 /\ r.mark[g] # 0 => f = g)
    IN  CallbackData(CallbackData(CallbackData(CallbackData(s, "header_field", n), "header_value", n), "url", n), "body", n)

Stopped(r) == r.returned \/ r.http_errno # "HPE_OK"

Execute(r, data) ==
    LET start == [r EXCEPT !.data = data, !.p = 0, !.mark = MarksAtStart(r)]
        One(s, i) == IF Stopped(s) \/ i <= s.p THEN s ELSE Byte([s EXCEPT !.p = i])
        last == IF Stopped(r) THEN r ELSE FoldLeftDomain(One, start, data)
    IN  IF Stopped(last) THEN last ELSE LeftOver(last)

(* All of the data was parsed.                                             *)
Parsed(r) == r.http_errno = "HPE_OK" /\ (r.returned => r.p = Len(r.data))

(* What stays in the parser when a call is over.                           *)
Rest(r) == [r EXCEPT !.data = <<>>, !.p = 0, !.mark = NoMark, !.returned = FALSE]

----------------------------------------------------------------------------
Init ==
    /\ sent \in Streams
    /\ taken = 0 /\ parser = New /\ fed = "ok"

(* A read of n characters (Connection::do_read). A connection is not read  *)
(* any more after an error, nor after a request that hands it to another   *)
(* protocol, unless that request is one the server takes as a plain one.   *)
Feed(n) ==
    /\ fed = "ok"
    /\ parser.upgrade => sent.plain
    /\ taken + n <= Len(sent.wire)
    /\ LET r == Execute(parser, SubSeq(sent.wire, taken + 1, taken + n)) IN
       /\ parser' = Rest(r)
       /\ fed' = IF Parsed(r) THEN "ok" ELSE "failed"
    /\ taken' = taken + n
    /\ UNCHANGED sent

(* HTTPParser::done, at the end of the connection: feed of nothing.        *)
Done ==
    /\ fed = "ok" /\ fed' = "ended"
    /\ parser' = IF parser.state \in {"s_dead", "s_start_req"} THEN parser ELSE Fail(parser, "HPE_INVALID_EOF_STATE")
    /\ UNCHANGED <<sent, taken>>

Next == (\E n \in Pieces : Feed(n)) \/ Done

Spec == Init /\ [][Next]_vars

----------------------------------------------------------------------------
(* Type correctness; the number of bytes the headers may take is kept, and *)
(* a length never is the value that stands for none.                       *)
TypeOK ==
    /\ taken \in 0..Len(sent.wire)
    /\ parser.state \in BodyStates => parser.content_length \in 0..(UllMax - 1)
    /\ parser.nread \in 0..(MaxHeader + 1)
    /\ parser.nread > MaxHeader => parser.http_errno = "HPE_HEADER_OVERFLOW"
    /\ parser.header_building_state \in {0, 1}

(* No assert of the parser fails: a buffer ends inside of one piece at     *)
(* most, each chunk starts with a fresh count of its header, a body is     *)
(* never read without a length, and no header is half recognised when its  *)
(* value starts (crow_all.h:4550, 4779, 4824, 4908, 4952).                 *)
AssertsHold == parser.asserts

(* Where the reads of a connection end makes no difference: the state of   *)
(* the parser, the requests it handled and the pieces it has gathered are  *)
(* those it would have after one read of everything (crow_all.h:3673,      *)
(* 4952-4962).                                                             *)
CutsDoNotMatter ==
    fed = "ok" => parser = Rest(Execute(New, SubSeq(sent.wire, 1, taken)))

(* What is handled is what was sent: each request with its own URL,        *)
(* headers and body and nothing of its neighbours', at its last character  *)
(* and not before; and nothing behind a request that is to be the last.    *)
RequestsAreThoseSent ==
    parser.handled = SubSeq(sent.requests, 1, Len(SelectSeq(sent.ends, LAMBDA e : e <= taken)))

(* Bytes are refused if and only if there is something to refuse in them,  *)
(* and at the end of what is well formed the parser is ready for the next  *)
(* request.                                                                *)
BadIsRefused ==
    /\ fed = "failed" => sent.refused
    /\ taken = Len(sent.wire) /\ fed = "ok" => ~sent.refused /\ parser.state \in {"s_start_req", "s_dead"}
=============================================================================
