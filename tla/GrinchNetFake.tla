--------------------------- MODULE GrinchNetFake ---------------------------
(***************************************************************************)
(* The stations of GrinchNetFake.ino, which recorded a decoy: the program  *)
(* of GrinchNet with the newline handling of loop commented out, so that   *)
(* the line never turns around (TakesTurns = FALSE).                       *)
(***************************************************************************)
EXTENDS GrinchNet

FakeInitConnection(b) == \E m \in BOOLEAN : InitConnection(b, m)
FakeKey(b) == \E k \in Keys : EnterKey(b, k)
FakeWrite(b) == Lower(b) \/ NextBit(b)
FakeRead(b) == SeeHigh(b)

FakeLoop(b) == SendByte(b) \/ EndOfByte(b) \/ SeeLow(b)

FakeNext ==
  \/ \E b \in Stations : \/ FakeInitConnection(b) \/ FakeKey(b)
                         \/ FakeWrite(b) \/ FakeRead(b) \/ FakeLoop(b)
  \/ \E b \in Stations, x \in Byte : Type(b, x)
  \/ Tick

----------------------------------------------------------------------------
(* Properties *)

\* Once set up, a station keeps its direction (loop never calls
\* config_current_mode), so what the receiver prints is the whole call: the
\* ciphers of this one direction alone stay in step over newlines.
OneWay ==
  /\ Ready => \E b \in Stations : /\ ~expecting[b] /\ expecting[Other(b)]
                                  /\ output[b] /\ ~output[Other(b)]
                                  /\ heard[b] = <<>> /\ said[Other(b)] = <<>>
  /\ HeardIsSaid
=============================================================================
