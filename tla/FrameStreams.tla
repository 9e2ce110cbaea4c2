---------------------------- MODULE FrameStreams ----------------------------
(***************************************************************************)
(* Streams for WebSocket: frames as a client writes them, masked.          *)
(***************************************************************************)
EXTENDS Integers, Sequences, SequencesExt, Bitwise

Masks == <<5, 0, 3, 6>>

(* A frame as [fin, op, form, text]; form: the bytes of its length field. *)
Encoded(f) ==
    LET n == Len(f.text) IN
    <<(IF f.fin THEN 128 ELSE 0) + f.op>>
    \o (CASE f.form = 1 -> <<128 + n>>
          [] f.form = 2 -> <<254, 0, n>>
          [] f.form = 8 -> <<255, 0, 0, 0, 0, 0, 0, 0, n>>)
    \o Masks
    \o [i \in 1..n |-> f.text[i] ^^ Masks[((i - 1) % 4) + 1]]

F(fin, op, text) == [fin |-> fin, op |-> op, form |-> 1, text |-> text]

Whole(frames) == FlattenSeq([i \in DOMAIN frames |-> Encoded(frames[i])])

(* The ends of the frames, and of the payload's headers. *)
Ends(frames) == {Len(Whole(SubSeq(frames, 1, k))) : k \in 0..Len(frames)}
Cuts(frames) ==
    Ends(frames) \cup {e + 2 : e \in Ends(frames) \ {Len(Whole(frames))}}

(* A text, a binary message in two frames with a ping between them, as the *)
(* protocol allows it, a text in two frames, and a Close, after which the   *)
(* client may go.                                                           *)
TalkFrames == <<F(TRUE, 1, <<7, 8>>),
                [fin |-> FALSE, op |-> 2, form |-> 2, text |-> <<9>>],
                F(TRUE, 9, <<4>>),
                [fin |-> TRUE, op |-> 0, form |-> 8, text |-> <<6>>],
                F(FALSE, 1, <<>>), F(TRUE, 0, <<1, 2, 3, 4, 5>>),
                F(TRUE, 10, <<>>), F(TRUE, 8, <<3>>)>>
TalkStream == Whole(TalkFrames)
TalkStops == Cuts(TalkFrames)
TalkEnds == {Len(TalkStream)}

ShortFrames == <<F(TRUE, 9, <<4, 4>>), F(TRUE, 1, <<7>>), F(TRUE, 8, <<>>)>>
ShortStream == Whole(ShortFrames)
ShortStops == 0..Len(ShortStream)
ShortEnds == Ends(ShortFrames)

(* A text and a Close, for an application that closes as well. *)
LeaverFrames == <<F(TRUE, 1, <<7>>), F(TRUE, 8, <<>>)>>
LeaverStream == Whole(LeaverFrames)
LeaverStops == Cuts(LeaverFrames)

Message(text, kind) == [text |-> text, binary |-> kind = 2]

(* What a client that follows the protocol means by its frames, none of    *)
(* its messages in more than two of them: control frames set aside, a      *)
(* message is the texts of its frames up to the final one, of the kind its *)
(* first frame names.  Crow delivers the last part of a message in two     *)
(* frames once more, as a text: case 0 runs into case 1                    *)
(* (crow_all.h:6991-7011).                                                 *)
Meant(frames) ==
    FoldLeft(LAMBDA m, f :
        CASE f.op >= 8 -> m
          [] f.op # 0 /\ ~f.fin -> [m EXCEPT !.text = f.text, !.kind = f.op]
          [] f.op # 0 /\ f.fin ->
                [m EXCEPT !.heard = Append(@, Message(f.text, f.op))]
          [] OTHER ->
                [m EXCEPT !.heard = @ \o <<Message(m.text \o f.text, m.kind),
                                           Message(f.text, 1)>>],
        [heard |-> <<>>, text |-> <<>>, kind |-> 1], frames).heard

TalkMeant == Meant(TalkFrames)
=============================================================================
