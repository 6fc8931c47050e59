------------------------ MODULE MCZlibStreamDecoder ------------------------
(***************************************************************************)
(* Instances of ZlibStreamDecoder.  The sizes keep the proportions that    *)
(* matter: a window is a whole number of drain reads, a message may fill   *)
(* what is left of a window, and a frame may be longer than bufio's buffer.*)
(***************************************************************************)
EXTENDS ZlibStreamDecoder

CONSTANTS pump, observer

Message == <<"data", "flush">>
MidMessage == <<"data", "data", "flush">>
LongMessage == <<"data", "data", "data", "data", "flush">>
Fragment == <<"data">>
Damaged == <<"data", "corrupt", "flush">>

Opening(frames) == {<<"header">> \o f : f \in frames}

FlushedFrames == {Message, MidMessage}
FlushedFirstFrames == Opening(FlushedFrames)

AllFrames == {Message, MidMessage, LongMessage, Fragment, Damaged}
AllFirstFrames == Opening(AllFrames) \cup {Damaged}

MessageFrames == {Message}
MessageFirstFrames == Opening(MessageFrames)

FragmentFrames == {Message, Fragment}
FragmentFirstFrames == Opening(FragmentFrames)
==============================================================================
