---------------------------- MODULE ChannelLabel ----------------------------
(***************************************************************************)
(* The labels of data channels: a prefix and the characters after it, from *)
(* which the plugin takes the index of a channel (src/session/session-pc.c)*)
(***************************************************************************)
EXTENDS Naturals, Sequences, SequencesExt

CONSTANT SizeValues \* values of a size_t: 2^64

ASSUME ChannelLabelAssumption == SizeValues \in Nat \ {0}

Digits == 0 .. 9

\* Mutant: everything that is not a digit is skipped.
IsLabelOfAny(label) == label.prefix = "client-channel-"

\* Whether pomelo_webrtc_pc_parse_channel_label takes the label.
IsLabel(label) ==
  /\ label.prefix = "client-channel-"
  /\ label.chars # <<>>
  /\ \A k \in DOMAIN label.chars : label.chars[k] \in Digits

\* The index it reads, in a size_t.
LabelIndex(label) ==
  FoldLeft(LAMBDA index, digit : (index * 10 + digit) % SizeValues, 0, label.chars)
=============================================================================
