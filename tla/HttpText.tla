------------------------------ MODULE HttpText ------------------------------
(***************************************************************************)
(* The text http_parser.c reads, abstracted to what its states tell apart: *)
(* single characters, and words (methods, header names, tokens of header   *)
(* values) that come in two halves, so that a read can end inside one.     *)
(* The prefix matching of method_strings, CONNECTION, UPGRADE and so on,   *)
(* character by character with parser->index, is the comparison of halves. *)
(***************************************************************************)
EXTENDS Integers, SequencesExt

(* A unit: the character w (h = 0) or half h of the word w. *)
Ch(c) == [w |-> c, h |-> 0]
Half(w, i) == [w |-> w, h |-> i]
Word(w) == <<Half(w, 1), Half(w, 2)>>
Unit == [w : STRING, h : 0..2]

CR == Ch("CR")
LF == Ch("LF")
SP == Ch("SP")
HT == Ch("HT")

(* LOWER(), for the spellings that matter. *)
LowerCase == [w \in {"Connection", "Upgrade", "WebSocket", "Close"} |->
                CASE w = "Connection" -> "connection" [] w = "Upgrade" -> "upgrade"
                  [] w = "WebSocket" -> "websocket" [] w = "Close" -> "close"]
Lower(w) == IF w \in DOMAIN LowerCase THEN LowerCase[w] ELSE w
IsHalf(u, w, i) == u.h = i /\ Lower(u.w) = w

(* The characters by class: IS_NUM and unhex[], IS_ALPHA, tokens[],        *)
(* normal_url_char[], IS_USERINFO_CHAR, IS_HEADER_CHAR.                    *)
Digits == [d \in {"0", "1", "2", "9"} |->
             CASE d = "0" -> 0 [] d = "1" -> 1 [] d = "2" -> 2 [] d = "9" -> 9]
HexDigits == [d \in DOMAIN Digits \cup {"a", "f"} |->
                CASE d = "a" -> 10 [] d = "f" -> 15 [] OTHER -> Digits[d]]
IsNum(u) == u.h = 0 /\ u.w \in DOMAIN Digits
IsHex(u) == u.h = 0 /\ u.w \in DOMAIN HexDigits
IsAlpha(u) == u.h > 0 \/ u.w \in {"a", "f"}
IsBlank(u) == u \in {SP, HT}
IsToken(u) == IsAlpha(u) \/ IsNum(u) \/ u.w \in {".", "*", "#"}
IsUrlChar(u) == u.h > 0 \/ u.w \notin {"CR", "LF", "SP", "HT", "CTL", "?", "#"}
IsUserinfo(u) == IsAlpha(u) \/ IsNum(u) \/ u.w \in {".", "*", ":", ",", ";"}
IsHeaderChar(u) == u # Ch("CTL")

HTTP_METHODS == {"GET", "POST", "CONNECT", "SOURCE"}

ServerStates == {"s_req_server_start", "s_req_server", "s_req_server_with_at"}
QueryStates == {"s_req_query_string_start", "s_req_query_string"}
FragmentStates == {"s_req_fragment_start", "s_req_fragment"}

(* parse_url_char(s, u); s_dead when u cannot stand there. *)
ParseUrlChar(s, u) ==
  CASE s = "s_req_spaces_before_url" /\ u.w \in {"/", "*"}       -> "s_req_path"
    [] s = "s_req_spaces_before_url" /\ IsAlpha(u)               -> "s_req_schema"
    [] s = "s_req_schema" /\ IsAlpha(u)                          -> s
    [] s = "s_req_schema" /\ u = Ch(":")                         -> "s_req_schema_slash"
    [] s = "s_req_schema_slash" /\ u = Ch("/")                   -> "s_req_schema_slash_slash"
    [] s = "s_req_schema_slash_slash" /\ u = Ch("/")             -> "s_req_server_start"
    [] s = "s_req_server_with_at" /\ u = Ch("@")                 -> "s_dead"
    [] s \in ServerStates /\ u = Ch("/")                         -> "s_req_path"
    [] s \in ServerStates /\ u = Ch("?")                         -> "s_req_query_string_start"
    [] s \in ServerStates /\ u = Ch("@")                         -> "s_req_server_with_at"
    [] s \in ServerStates /\ (IsUserinfo(u) \/ u.w \in {"[", "]"}) -> "s_req_server"
    [] s = "s_req_path" /\ IsUrlChar(u)                          -> s
    [] s = "s_req_path" /\ u = Ch("?")                           -> "s_req_query_string_start"
    [] s \in QueryStates /\ (IsUrlChar(u) \/ u = Ch("?"))        -> "s_req_query_string"
    [] s \in {"s_req_path"} \cup QueryStates /\ u = Ch("#")      -> "s_req_fragment_start"
    [] s = "s_req_fragment_start" /\ u = Ch("#")                 -> s
    [] s \in FragmentStates /\ (IsUrlChar(u) \/ u.w \in {"?", "#"}) -> "s_req_fragment"
    [] OTHER                                                     -> "s_dead"
=============================================================================
