----------------------------- MODULE Signalling -----------------------------
(***************************************************************************)
(* What a session says and hears: the messages of its WebSocket            *)
(* (src/session/session-ws.c), built and cut with a string buffer, and the *)
(* labels of the data channels.  Module Session has the states these       *)
(* messages lead through; here they have contents.  The messages of the    *)
(* system channel have none: what arrives there is dropped (module         *)
(* Session, OnSystemMessage), so nothing reads them.                       *)
(*                                                                         *)
(* The plugin thread holds one string buffer at a time and gives it back   *)
(* before a handler returns, so the pool never has more than one.  A step  *)
(* is a handler, and leaves what it sent, handed over and learned in the   *)
(* variables sent, read and learned, which are empty or hold one thing.    *)
(* The client is external, and so are the connect token's encoding and the *)
(* numbers of characters, which Size gives.                                *)
(***************************************************************************)
EXTENDS StringBuffer, ChannelLabel, FiniteSets

CONSTANTS
  Names,            \* description types and candidate mids: no separator
  Bodies,           \* descriptions and candidates
  Heard,            \* what follows the opcode in a client's message
  ConnectTokens,    \* valid connect tokens in base64
  TokenLengths,     \* their two lengths, with and without padding
  Numbers,          \* printed client ids and times
  Labels,           \* labels that the client gives its data channels
  None,             \* NULL, or no value
  Faults            \* "memory": the allocator may refuse; "binary": the client
                    \* sends binary frames

Sep == <<"|">>
Opcodes == {<<"AUTH">>, <<"DESC">>, <<"CAND">>, <<"READY">>, <<"OTHER">>}

\* A WebSocket message: an opcode, the character after it and what follows.
\* Only a text frame ends with a NUL.
Frames ==
  [text : BOOLEAN, op : Opcodes, mark : {Sep, <<"x">>}, body : Heard]
    \cup [text : BOOLEAN, op : Opcodes, mark : {<<>>}, body : {<<>>}]

\* Mutant: the last separator ends the name.
SeparatorLast(text) == SelectLastInSeq(text, LAMBDA token : token = "|")

\* strchr: where the first separator is, zero when there is none.
Separator(text) == SelectInSeq(text, LAMBDA token : token = "|")

\* What is in front of the separator and what follows it.
Name(text) == SubSeq(text, 1, Separator(text) - 1)
Rest(text) == SubSeq(text, Separator(text) + 1, Len(text))

ASSUME SignallingAssumption ==
  /\ Names \cup Bodies \cup Heard \cup ConnectTokens \cup Numbers \subseteq Texts
  /\ {Name(text) : text \in Heard} \subseteq Texts
  /\ Opcodes \cup {Sep, <<"AUTH", "|", "OK">>, <<>>, <<"x">>} \subseteq Texts
  /\ TokenLengths \subseteq Nat
  /\ \A token \in ConnectTokens : Size[token] \in TokenLengths
  /\ Size[<<"AUTH">>] = 4 /\ Size[<<"DESC">>] = 4 /\ Size[<<"CAND">>] = 4
  /\ Size[<<"AUTH", "|", "OK">>] = 7
  /\ Size[Sep] = 1 /\ Size[<<"x">>] = 1 /\ Size[<<>>] = 0
  /\ \A text \in Heard : Separator(text) # 0 => Size[Name(text)] < Size[text]
  /\ \A name \in Names \cup Numbers : Separator(name) = 0
  /\ None \notin Texts
  /\ InitialCapacity >= 7
  /\ \A label \in Labels : label.chars \in Seq(Nat)
  /\ Faults \subseteq {"memory", "binary"}

VARIABLES
  pool,             \* the pool of string buffers between two handlers
  authenticated,    \* WS_AUTHENTICATED
  sent,             \* the WebSocket message that the last step sent
  read,             \* the description or candidate it handed over
  learned           \* what it took from another message or a label

vars == <<pool, authenticated, sent, read, learned>>

\* fields is what the message is meant to say, data what was sent.  refused:
\* the allocator refused memory.
Sent == [fields : Seq(Texts), data : Seq(Tokens), refused : BOOLEAN]

\* beyond: what was handed over starts or ends behind the message.
Read == [of : Frames, name : Seq(Tokens) \cup {None}, body : Seq(Tokens),
         beyond : BOOLEAN, refused : BOOLEAN]

Authenticates == [of : Frames, valid : BOOLEAN]
Indexes == [label : Labels, index : Nat \cup {None}]

TypeOK ==
  /\ pool \subseteq Buffers
  /\ authenticated \in BOOLEAN
  /\ sent \subseteq Sent
  /\ read \subseteq Read
  /\ learned \subseteq Authenticates \cup Indexes
  /\ \A set \in {pool, sent, read, learned} : Cardinality(set) <= 1

Init ==
  /\ pool = {}
  /\ authenticated = FALSE
  /\ sent = {} /\ read = {} /\ learned = {}
-----------------------------------------------------------------------------
(* Sending.                                                                *)

\* Which of a handler's requests for memory are refused: 0 is for the buffer, if
\* there is none, the others are for the texts it appends.
Refusals(appends) ==
  IF "memory" \in Faults
    THEN {{}, 1 .. appends} \cup {{k} : k \in 0 .. appends} ELSE {{}}

\* pomelo_webrtc_context_acquire_string_buffer: the empty buffer that is got.
Acquired(refused) ==
  IF pool # {} THEN {OnInit(b) : b \in pool}
  ELSE IF 0 \in refused THEN {} ELSE {OnInit(OnAlloc)}

\* The fields of a message with the separators between them.  No append is
\* looked at.
Join(b, f, refused) ==
  LET one   == AppendStr(b, f[1], 1 \notin refused)
      two   == AppendChr(one, Sep, 2 \notin refused)
      three == AppendStr(two, f[2], 3 \notin refused)
      four  == AppendChr(three, Sep, 4 \notin refused)
  IN AppendStr(four, f[3], 5 \notin refused)

\* send_description, send_candidate and send_auth_success of session-ws.c: the
\* buffer is filled, and what it holds, whole or not, is sent.
Sends(f, refused) ==
  /\ sent' = {[fields |-> f, data |-> ToBinary(Join(b, f, refused)),
               refused |-> refused # {}] : b \in Acquired(refused)}
  /\ pool' = IF Acquired(refused) = {} THEN pool
             ELSE {Join(b, f, refused) : b \in Acquired(refused)}

\* pomelo_webrtc_session_ws_send_description
SendDescription(name, body) ==
  /\ authenticated
  /\ \E refused \in Refusals(5) : Sends(<<<<"DESC">>, name, body>>, refused)
  /\ read' = {} /\ learned' = {}
  /\ UNCHANGED authenticated

\* pomelo_webrtc_session_ws_send_candidate
SendCandidate(name, body) ==
  /\ authenticated
  /\ \E refused \in Refusals(5) : Sends(<<<<"CAND">>, name, body>>, refused)
  /\ read' = {} /\ learned' = {}
  /\ UNCHANGED authenticated

\* pomelo_webrtc_session_ws_send_auth_success
SendAuthSuccess(id, time, refused) ==
  Sends(<<<<"AUTH", "|", "OK">>, id, time>>, refused)
-----------------------------------------------------------------------------
(* Reading WebSocket messages.                                             *)

Characters(frame) == Size[frame.op] + Size[frame.mark] + Size[frame.body]

\* Mutant: the NUL of a text frame is counted.
LengthWithNul(frame) == IF frame.text THEN Characters(frame) + 1 ELSE Characters(frame)

\* RTCBuffer::size, which counts the NUL, less one, which process_message passes
\* on: of a binary frame it is one too few.
Length(frame) == IF frame.text THEN Characters(frame) ELSE Characters(frame) - 1

\* on_message_unauthenticated and recv_auth: the token has one of two lengths
\* and is then decoded, which succeeds for a whole and valid one.
TokenIsValid(frame) ==
  /\ Length(frame) > 5
  /\ Length(frame) - 5 \in TokenLengths
  /\ frame.body \in ConnectTokens
  /\ Length(frame) - 5 = Size[frame.body]

\* pomelo_webrtc_session_ws_process_message before the session is
\* authenticated, with auth_result; only an auth message is looked at.
Unauthenticated(frame) ==
  /\ ~authenticated
  /\ read' = {}
  /\ \/ /\ frame.op # <<"AUTH">> \/ Length(frame) <= 5
        /\ learned' = {} /\ sent' = {}
        /\ UNCHANGED <<pool, authenticated>>
     \/ /\ frame.op = <<"AUTH">> /\ Length(frame) > 5
        /\ learned' = {[of |-> frame, valid |-> TokenIsValid(frame)]}
        /\ authenticated' = TokenIsValid(frame)
        /\ IF TokenIsValid(frame)
             THEN \E id, time \in Numbers, refused \in Refusals(5) :
                    SendAuthSuccess(id, time, refused)
             ELSE sent' = {} /\ UNCHANGED pool

\* The name is copied into a string buffer, whose NUL ends it; the body is what
\* follows the separator.  A binary frame has no end.
Hands(frame, refused) ==
  LET named(b) == AppendStr(b, Name(frame.body), 1 \notin refused)
      granted  == 2 \notin refused
  IN /\ read' = {[of |-> frame, beyond |-> ~frame.text, refused |-> refused # {},
                  name |-> IF ToStringGives(named(b), granted) THEN named(b).data
                                                               ELSE None,
                  body |-> Rest(frame.body)] : b \in Acquired(refused)}
     /\ pool' = IF Acquired(refused) = {} THEN pool
                ELSE {Terminated(named(b), granted) : b \in Acquired(refused)}

\* A message that ends before its fields: what is read then is not known.
ReadsBeyond(frame) ==
  /\ read' = {[of |-> frame, beyond |-> TRUE, refused |-> FALSE, name |-> <<>>,
               body |-> <<>>]}
  /\ UNCHANGED pool

Drops == read' = {} /\ UNCHANGED pool

\* process_description_message and process_candidate_message
Fields(frame) ==
  IF frame.mark = <<>> THEN ReadsBeyond(frame)
  ELSE IF frame.op = <<"DESC">> /\ Length(frame) = 5 THEN Drops
  ELSE IF Separator(frame.body) = 0
    THEN IF frame.text THEN Drops ELSE ReadsBeyond(frame)
  ELSE \E refused \in Refusals(2) : Hands(frame, refused)

\* pomelo_webrtc_session_ws_process_message once the session is authenticated.
Authenticated(frame) ==
  /\ authenticated
  /\ IF frame.op \in {<<"DESC">>, <<"CAND">>} THEN Fields(frame) ELSE Drops
  /\ sent' = {} /\ learned' = {}
  /\ UNCHANGED authenticated

\* pomelo_webrtc_ws_on_message_callback
WsMessage(frame) ==
  /\ frame.text \/ "binary" \in Faults
  /\ Unauthenticated(frame) \/ Authenticated(frame)
-----------------------------------------------------------------------------
(* The data channels.                                                      *)

\* The client opens a data channel: pomelo_webrtc_pc_on_data_channel
OnDataChannel(label) ==
  /\ learned' = {[label |-> label,
                  index |-> IF IsLabel(label) THEN LabelIndex(label) ELSE None]}
  /\ sent' = {} /\ read' = {}
  /\ UNCHANGED <<pool, authenticated>>

\* Once a buffer was written past its end anything may follow.
Sound == \A b \in pool : ~b.overrun

Runs(A) == Sound /\ A

Next ==
  \/ \E name \in Names, body \in Bodies :
       Runs(SendDescription(name, body)) \/ Runs(SendCandidate(name, body))
  \/ \E frame \in Frames : Runs(WsMessage(frame))
  \/ \E label \in Labels : Runs(OnDataChannel(label))

Spec == Init /\ [][Next]_vars
-----------------------------------------------------------------------------
(* Properties.                                                             *)

\* What the last step appended to the buffer besides opcodes and separators.
Appended ==
  {m.fields[2] : m \in sent} \cup {m.fields[3] : m \in sent}
    \cup {Name(r.of.body) : r \in read}

\* The buffer is written past its capacity only by a text that is longer than
\* a new buffer: that the capacity is doubled once (string-buffer.c:30) is
\* enough for all others, however the buffer was used before.
StaysInside ==
  \A b \in pool : b.overrun => \E text \in Appended : Size[text] > InitialCapacity

\* Of a message, what the reading rule of the plugin finds after the opcode.
ReadBack(message, op) ==
  LET rest == SubSeq(message, Len(op) + 2, Len(message))
  IN <<op, Name(rest), Rest(rest)>>

CharactersOf(f) == Size[f[1]] + Size[f[2]] + Size[f[3]] + 2

\* A message is sent whole, and read back by the same rule gives its fields,
\* though no append is looked at and the buffer was used before: unless memory
\* was refused or the message has as many characters as a buffer may have
\* (session-ws.c:214-218, string-buffer.c:25).
SentIsWhole ==
  \A m \in sent :
    Sound /\ ~m.refused /\ CharactersOf(m.fields) < MaxCapacity =>
      ReadBack(m.data, m.fields[1]) = m.fields

\* Of a text frame with a character after the opcode, what is handed over lies
\* inside the message, and its two fields with a separator are the message; the
\* name is not NULL and has no separator (session-ws.c:514, 526, 530).
FieldsAreRead ==
  \A r \in read :
    r.of.text /\ r.of.mark # <<>> =>
      /\ ~r.beyond
      /\ Sound /\ ~r.refused /\ Characters(r.of) < MaxCapacity =>
           /\ r.name # None
           /\ r.of.body = r.name \o Sep \o r.body
           /\ \A k \in DOMAIN r.name : r.name[k] # "|"

\* A valid connect token in a text frame authenticates, with and without its
\* padding, and nothing else does: the length it must have counts on the NUL
\* of the frame (session-ws.c:311, 431, rtc-buffer.cpp:18).
TokenAuthenticates ==
  \A a \in learned \cap Authenticates :
    a.valid = (a.of.text /\ a.of.body \in ConnectTokens)

\* b to the power of k, written out for the sake of the proofs.
Power(b, k) == LET power[i \in Nat] == IF i = 0 THEN 1 ELSE b * power[i - 1] IN power[k]

\* The number that characters are in decimal.
Decimal(chars) ==
  MapThenSumSet(LAMBDA k : chars[k] * Power(10, Len(chars) - k), DOMAIN chars)

\* The index that a label gives is the number it ends with, as far as a size_t
\* goes, and only a number gives an index (session-pc.c:202-208).
LabelNamesIndex ==
  \A l \in learned \cap Indexes :
    LET chars == l.label.chars
        named == l.label.prefix = "client-channel-" /\ chars # <<>>
                   /\ \A k \in DOMAIN chars : chars[k] < 10
    IN l.index = IF named THEN Decimal(chars) % SizeValues ELSE None
=============================================================================
