---------------------------- MODULE MCSignalling ----------------------------
\* Signalling for TLC.  A new buffer has 16 characters and a buffer has at most
\* 128, and a size_t has 1000 values.  With an opcode and a name, bodies end one
\* before, at and after the capacity of a new buffer, fit only after it has grown,
\* are longer than it, and end at the limit.
EXTENDS Signalling

MCNames == {<<>>, <<"offer">>}
MCBodies ==
  {<<>>, <<"4">>, <<"5">>, <<"a", "|", "b">>, <<"12">>, <<"20">>, <<"40">>, <<"116">>, <<"117">>}
MCTokens == {<<"padded">>, <<"bare">>}
MCNumbers == {<<"0">>, <<"18446744073709551615">>}

\* The bodies of the client's messages.
MCHeard ==
  {<<>>, <<"offer", "|", "a", "|", "b">>, <<"|", "4">>,
   <<"40", "|", "4">>, <<"117", "|">>, <<"12">>, <<"padded">>, <<"bare">>}

MCOpcodes ==
  {<<"AUTH">>, <<"DESC">>, <<"CAND">>, <<"READY">>, <<"OTHER">>,
   <<"AUTH", "|", "OK">>}

MCTexts ==
  MCNames \cup MCBodies \cup MCTokens \cup MCNumbers \cup MCHeard \cup MCOpcodes
    \cup {<<"|">>, <<"x">>, <<"a">>, <<"b">>, <<"117">>, <<"offer", "|", "a">>}

MCTokenSize ==
  [token \in UNION {{text[k] : k \in DOMAIN text} : text \in MCTexts} |->
     CASE token \in {"|", "x", "a", "b", "0"} -> 1
       [] token = "OK" -> 2
       [] token \in {"4", "AUTH", "DESC", "CAND"} -> 4
       [] token \in {"5", "offer", "READY", "OTHER"} -> 5
       [] token = "bare" -> 10
       [] token \in {"12", "padded"} -> 12
       [] token \in {"20", "18446744073709551615"} -> 20
       [] token = "40" -> 40
       [] token = "116" -> 116
       [] token = "117" -> 117]

MCSize ==
  [text \in MCTexts |-> MapThenSumSet(LAMBDA k : MCTokenSize[text[k]], DOMAIN text)]

MCTokenLengths == {10, 12}

MCLabels ==
  [prefix : {"client-channel-", "other"},
   chars : {<<>>, <<0>>, <<7>>, <<0, 0, 7>>, <<1, 49>>, <<4, 2>>, <<9, 9, 9>>,
            <<1, 0, 0, 0>>, <<1, 2, 3, 4, 5>>}]
=============================================================================
