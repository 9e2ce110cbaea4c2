------------------------------ MODULE HttpWords ------------------------------
(***************************************************************************)
(* The three places where http_parser_execute (crow_all.h) recognises a    *)
(* word one character at a time, keeping nothing of it but a candidate and *)
(* an index: the method, the name of a header and the value of a header.   *)
(* A word may be of any length: all that is remembered of what was read is *)
(* the longest word it may still become (read), or Other.                  *)
(***************************************************************************)
EXTENDS Naturals, Sequences

Methods ==
    {"DELETE", "GET", "HEAD", "POST", "PUT", "CONNECT", "OPTIONS", "TRACE",
     "PATCH", "PURGE", "COPY", "LOCK", "MKCOL", "MOVE", "PROPFIND",
     "PROPPATCH", "SEARCH", "UNLOCK", "REPORT", "MKACTIVITY", "CHECKOUT",
     "MERGE", "M-SEARCH", "NOTIFY", "SUBSCRIBE", "UNSUBSCRIBE", "MKCALENDAR"}

(* The header_states, by the word each stands for.                         *)
Matching ==
    [h_matching_connection        |-> "connection",
     h_matching_proxy_connection  |-> "proxy-connection",
     h_matching_content_length    |-> "content-length",
     h_matching_transfer_encoding |-> "transfer-encoding",
     h_matching_upgrade           |-> "upgrade",
     h_matching_transfer_encoding_chunked |-> "chunked",
     h_matching_connection_keep_alive     |-> "keep-alive",
     h_matching_connection_close          |-> "close"]

Matched ==
    [h_matching_connection        |-> "h_connection",
     h_matching_proxy_connection  |-> "h_connection",
     h_matching_content_length    |-> "h_content_length",
     h_matching_transfer_encoding |-> "h_transfer_encoding",
     h_matching_upgrade           |-> "h_upgrade",
     h_matching_transfer_encoding_chunked |-> "h_transfer_encoding_chunked",
     h_matching_connection_keep_alive     |-> "h_connection_keep_alive",
     h_matching_connection_close          |-> "h_connection_close"]

Fields == {Matching[h] : h \in {"h_matching_connection", "h_matching_proxy_connection",
                                "h_matching_content_length", "h_matching_transfer_encoding",
                                "h_matching_upgrade"}}
Values == {"chunked", "keep-alive", "close"}
Words(k) == CASE k = "method" -> Methods [] k = "field" -> Fields [] OTHER -> Values

(* The character at a position of C's array, NUL behind the last one.      *)
At(word, i) == IF i < Len(word) THEN SubSeq(word, i + 1, i + 1) ELSE "NUL"

Letters(word) == {At(word, i) : i \in 0..(Len(word) - 1)}
Chars == {" ", "~"} \cup UNION {Letters(w) : w \in Methods \cup Fields \cup Values}

Other == "other"

VARIABLES
    kind,   \* what is read: "method", "field", or "value" of a header
    name,   \* for a value: "h_transfer_encoding" or "h_connection"
    state,  \* "start", "inside", "accepted" or "error"
    match,  \* the candidate: a method, or a header_state
    index,
    read

vars == <<kind, name, state, match, index, read>>

Init ==
    /\ kind \in {"method", "field", "value"}
    /\ name \in IF kind = "value" THEN {"h_transfer_encoding", "h_connection"} ELSE {""}
    /\ state = "start" /\ match = "" /\ index = 0 /\ read = ""

(* What read becomes with one more character. Spaces behind a whole value  *)
(* belong to the line and not to the word.                                 *)
Extend(ch) ==
    IF read # Other /\ \E w \in Words(kind) : \E n \in 1..Len(w) : SubSeq(w, 1, n) = read \o ch
    THEN read \o ch
    ELSE IF kind = "value" /\ ch = " " /\ read \in Values THEN read ELSE Other

Become(s, m, i, ch) ==
    /\ state' = s /\ match' = m /\ index' = i /\ read' = Extend(ch)
    /\ UNCHANGED <<kind, name>>

----------------------------------------------------------------------------
(* The method.                                                             *)
FirstMethod ==
    [C |-> "CONNECT", D |-> "DELETE", G |-> "GET", H |-> "HEAD", L |-> "LOCK", M |-> "MKCOL",
     N |-> "NOTIFY", O |-> "OPTIONS", P |-> "POST", R |-> "REPORT", S |-> "SUBSCRIBE",
     T |-> "TRACE", U |-> "UNLOCK"]

StartMethod(ch) ==
    /\ kind = "method" /\ state = "start"
    /\ IF ch \in DOMAIN FirstMethod THEN Become("inside", FirstMethod[ch], 1, ch)
                                    ELSE Become("error", match, index, ch)

(* <<candidate, index, character, the candidate it changes to>>            *)
Switches ==
    {<<"CONNECT", 1, "H", "CHECKOUT">>, <<"CONNECT", 2, "P", "COPY">>, <<"MKCOL", 1, "O", "MOVE">>,
     <<"MKCOL", 1, "E", "MERGE">>, <<"MKCOL", 1, "-", "M-SEARCH">>, <<"MKCOL", 2, "A", "MKACTIVITY">>,
     <<"MKCOL", 3, "A", "MKCALENDAR">>, <<"SUBSCRIBE", 1, "E", "SEARCH">>, <<"POST", 1, "R", "PROPFIND">>,
     <<"POST", 1, "U", "PUT">>, <<"POST", 1, "A", "PATCH">>, <<"PUT", 2, "R", "PURGE">>,
     <<"UNLOCK", 2, "S", "UNSUBSCRIBE">>, <<"PROPFIND", 4, "P", "PROPPATCH">>}

InMethod(ch) ==
    /\ kind = "method" /\ state = "inside"
    /\ \/ /\ ch = " " /\ At(match, index) = "NUL"
          /\ state' = "accepted"
          /\ UNCHANGED <<kind, name, match, index, read>>
       \/ ch = At(match, index) /\ Become("inside", match, index + 1, ch)
       \/ /\ ch # At(match, index)
          /\ \E m \in Methods : <<match, index, ch, m>> \in Switches /\ Become("inside", m, index + 1, ch)
       \/ /\ ch # At(match, index) /\ ~(ch = " " /\ At(match, index) = "NUL")
          /\ ~\E m \in Methods : <<match, index, ch, m>> \in Switches
          /\ Become("error", match, index, ch)

----------------------------------------------------------------------------

(* The name of a header, and its value.                                    *)
Follow(m, ch) ==
    IF index + 1 > Len(Matching[m]) \/ ch # At(Matching[m], index + 1) THEN "h_general"
    ELSE IF index + 1 = Len(Matching[m]) - 1 THEN Matched[m]
    ELSE m

StartField(ch) ==
    /\ kind = "field" /\ state = "start" /\ ch # " "
    /\ Become("inside",
              CASE ch = "c" -> "h_C" [] ch = "p" -> "h_matching_proxy_connection"
                [] ch = "t" -> "h_matching_transfer_encoding" [] ch = "u" -> "h_matching_upgrade"
                [] OTHER -> "h_general", 0, ch)

FieldState(ch) ==
    CASE match = "h_C"   -> IF ch = "o" THEN "h_CO" ELSE "h_general"
      [] match = "h_CO"  -> IF ch = "n" THEN "h_CON" ELSE "h_general"
      [] match = "h_CON" -> CASE ch = "n" -> "h_matching_connection"
                              [] ch = "t" -> "h_matching_content_length" [] OTHER -> "h_general"
      [] match \in DOMAIN Matching -> Follow(match, ch)
      [] OTHER -> "h_general"

InField(ch) ==
    /\ kind = "field" /\ state = "inside" /\ ch # " "
    /\ Become("inside", FieldState(ch),
              IF match \in {"h_C", "h_CO", "h_CON"} \cup DOMAIN Matching THEN index + 1 ELSE index, ch)

StartValue(ch) ==
    /\ kind = "value" /\ state = "start" /\ ch # " "
    /\ Become("inside",
              CASE name = "h_transfer_encoding" /\ ch = "c" -> "h_matching_transfer_encoding_chunked"
                [] name = "h_connection" /\ ch = "k" -> "h_matching_connection_keep_alive"
                [] name = "h_connection" /\ ch = "c" -> "h_matching_connection_close"
                [] OTHER -> "h_general", 0, ch)

ValueState(ch) ==
    CASE match \in DOMAIN Matching -> Follow(match, ch)
      [] match # "h_general" /\ ch = " " -> match
      [] OTHER -> "h_general"

InValue(ch) ==
    /\ kind = "value" /\ state = "inside"
    /\ Become("inside", ValueState(ch), IF match \in DOMAIN Matching THEN index + 1 ELSE index, ch)

Next ==
    \E ch \in Chars :
        \/ StartMethod(ch)
        \/ InMethod(ch)
        \/ StartField(ch)
        \/ InField(ch)
        \/ StartValue(ch)
        \/ InValue(ch)

Spec == Init /\ [][Next]_vars

----------------------------------------------------------------------------
(* The parser reads the table of words with an index that stays inside the *)
(* word of the candidate: type correctness, with the index that C would    *)
(* otherwise take out of the array.                                        *)
TypeOK ==
    /\ state \in {"start", "inside", "accepted", "error"}
    /\ kind = "method" /\ state = "inside" => match \in Methods /\ index \in 1..Len(match)
    /\ match \in DOMAIN Matching => index < Len(Matching[match]) - 1

(* The method of a request (crow_all.h:4004) is the word that was read,    *)
(* though each character is compared with one candidate only and the       *)
(* candidate changes on the way: no word is taken for another one, and no  *)
(* method of the table is refused.                                         *)
MethodsAreRead ==
    /\ state = "accepted" => read = match
    /\ state = "error" => read = Other

(* A header is taken for one the parser acts upon exactly when its whole   *)
(* name is that word (crow_all.h:4334).                                    *)
NamesAreRead ==
    kind = "field" =>
        /\ match = "h_connection" <=> read \in {"connection", "proxy-connection"}
        /\ match = "h_content_length" <=> read = "content-length"
        /\ match = "h_transfer_encoding" <=> read = "transfer-encoding"
        /\ match = "h_upgrade" <=> read = "upgrade"

(* chunked, keep-alive and close are acted upon exactly when they are the  *)
(* whole value of the right header, spaces behind them aside               *)
(* (crow_all.h:4531).                                                      *)
ValuesAreRead ==
    kind = "value" =>
        /\ match = "h_transfer_encoding_chunked" <=> name = "h_transfer_encoding" /\ read = "chunked"
        /\ match = "h_connection_keep_alive" <=> name = "h_connection" /\ read = "keep-alive"
        /\ match = "h_connection_close" <=> name = "h_connection" /\ read = "close"
=============================================================================
