----------------------------- MODULE MCHandshake -----------------------------
(* Handshake for TLC: an opening handshake, and what can be wrong with it. *)
EXTENDS Handshake

H(name, value) == [name |-> name, lead |-> <<>>, value |-> value, fold |-> <<>>]
A == Ch("a")
NoBody == [kind |-> "none"]

Names == <<"Host", "Upgrade", "Connection", "Sec-WebSocket-Version", "Sec-WebSocket-Key">>
Values == <<<<A>>, Word("WebSocket"), Word("Upgrade"), Word("13"), Word("nonce")>>
Opens == [i \in 1..5 |-> H(Word(Names[i]), Values[i])]
Open == [before |-> <<>>, method |-> "GET", url |-> <<Ch("/")>>, version |-> <<Ch("1"), Ch("1")>>,
         eol |-> <<LF>>, headers |-> Opens, body |-> NoBody]
Plain == [Open EXCEPT !.headers = <<>>]
Folded == [H(Word("Host"), <<A>>) EXCEPT !.fold = <<SP, A>>]
But(i, h) == [Open EXCEPT !.headers[i] = h]

(* One header is missing, has another value, or another name.              *)
OtherHeaders ==
  {[Open EXCEPT !.headers = RemoveAt(Opens, i)] : i \in 1..5}
    \cup {But(i, H(Word(Names[i]), <<A>>)) : i \in 2..5}
    \cup {But(1, H(<<A>> \o Word("Host"), <<A>>)), But(1, H(Word("Host"), <<>>)),
          But(2, H(Word("upgrade"), Word("websocket"))),
          But(3, H(Word("Connection"), Word("keep-alive") \o <<Ch(",")>> \o Word("Upgrade"))),
          But(1, Folded),
          [Open EXCEPT !.headers = Opens \o <<H(Word("Host"), <<>>)>>]}

OtherLines ==
  {[Open EXCEPT !.method = "POST"], [Open EXCEPT !.eol = CRLF], [Open EXCEPT !.version = <<>>],
   [Open EXCEPT !.version = <<Ch("1"), Ch("0")>>]}

WithBodies ==
  {[Open EXCEPT !.headers = Append(Opens, H(Word("content-length"), <<Ch("1")>>)),
                !.body = [kind |-> "identity", data |-> <<A>>]],
   [Plain EXCEPT !.headers = <<H(Word("transfer-encoding"), Word("chunked"))>>,
                 !.body = [kind |-> "chunked", trailers |-> <<>>,
                           chunks |-> <<[size |-> <<Ch("1")>>, extension |-> <<>>, data |-> <<A>>]>>]]}

(* A name that ends like one the server asks for, with a request behind it. *)
Misnamed == {<<But(i, H(<<A>> \o Word(Names[i]), Values[i])), Plain>> : i \in {2, 3}}

MCRequests ==
  {<<m>> : m \in OtherHeaders \cup OtherLines \cup WithBodies \cup {Open}}
    \cup {<<Open, Plain>>, <<Plain, Plain>>, <<Plain, But(1, Folded)>>} \cup Misnamed

MCMalformed == {[text |-> <<A, A>>, errno |-> "INVALID_METHOD"]}
=============================================================================
