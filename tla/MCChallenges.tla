---------------------------- MODULE MCChallenges ----------------------------
(***************************************************************************)
(* The programs of three challenges, each on its own small instances: the  *)
(* GrinchNet stations with their decoy and their key check, the Chip-8     *)
(* machine, and the heap playground.  The programs keep separate state;    *)
(* scene, fixed by the initial state, says which instance runs, and the    *)
(* other programs stay as they were made.  The constants of the call and of *)
(* the heap are given values by Challenges.cfg.                            *)
(***************************************************************************)
EXTENDS GrinchNet, HeapPlayground

CONSTANTS left, right

VARIABLES
    scene, letters,
    counter, op, i, sp, v, m, k, s, dt, st, gfx, redraw, debug, last, cycles,
    frames, latest, idle, callers

Boards == {left, right}

(* Two approved keys and a rejected one. *)
ApprovedKeys == {<<1, 2>>, <<3, 0>>}
TypedKeys    == ApprovedKeys \cup {<<0, 0>>}

(* Beside the call, a shorter one that comes to its end, and the decoy.    *)
ShortCall == INSTANCE GrinchNet WITH MaxTyped <- 2
Decoy == INSTANCE GrinchNetFake WITH TakesTurns <- FALSE

(* GRINCHRULES! and near misses, four digits, and a character too many.    *)
Rules == <<71, 82, 73, 78, 67, 72, 82, 85, 76, 69, 83, 33>>
Key == INSTANCE GrinchKey WITH
    key <- letters, MaxLength <- 17,
    Candidates <- [n \in 1..17 |->
        IF n \in {2, 7} THEN {82, 65}
        ELSE IF n = 8 THEN {85, 87}
        ELSE IF n <= 12 THEN {Rules[n], Rules[n] + 1}
        ELSE IF n = 16 THEN {48, 71} ELSE {102}]

(* Games for arithmetic, for pictures and memory, for calls and timers, and *)
(* for the keyboard: few characters for long, many for a few frames.        *)
Roms == INSTANCE Chip8Games
Sums == INSTANCE Chip8 WITH
    pc <- counter, Games <- Roms!SumGames, Reserved <- 2, Typed <- {},
    Rands <- Roms!SumRands, MaxFrames <- 1
Pictures == INSTANCE Chip8 WITH
    pc <- counter, Games <- Roms!Pictures, Reserved <- 64, Typed <- {},
    Rands <- Roms!SumRands, MaxFrames <- 3
Calls == INSTANCE Chip8 WITH
    pc <- counter, Games <- Roms!Programs, Reserved <- 32, Typed <- {},
    Rands <- {3}, MaxFrames <- 8
Keyboard == INSTANCE Chip8 WITH
    pc <- counter, Games <- Roms!KeyGames, Reserved <- 0,
    Typed <- {120, 97}, Rands <- {3}, MaxFrames <- 52
Typing == INSTANCE Chip8 WITH
    pc <- counter, Games <- Roms!KeyGames, Reserved <- 0,
    Typed <- {120, 97, 48, 10, 47}, Rands <- {3}, MaxFrames <- 6

(* Room for three chunks. *)
Room         == 1..3
LeastNumber  == -8
TypedNumbers == {-8, -3} \cup 0..4
TypedLines   == {<<7>>, <<7, 7>>}
TypedChars   == {7}

machine  == <<counter, op, i, sp, v, m, k, s, dt, st, gfx, redraw, debug,
              last, cycles, frames, latest, idle, callers>>
vars == <<scene, netVars, letters, machine, heapVars>>

Init ==
    /\ scene \in {"call", "short call", "decoy", "key", "sums", "pictures",
                  "calls", "keyboard", "typing", "heap"}
    /\ NetInit /\ Key!Init /\ HeapInit
    /\ CASE scene = "sums" -> Sums!Init
         [] scene = "pictures" -> Pictures!Init
         [] scene = "calls" -> Calls!Init
         [] OTHER -> Typing!Init

Conversation(sc, A) ==
    scene = sc /\ A /\ UNCHANGED <<scene, letters, machine, heapVars>>
Machine(sc, A) ==
    scene = sc /\ A /\ UNCHANGED <<scene, netVars, letters, heapVars>>

Next ==
    \/ Conversation("call", NetNext)
    \/ Conversation("short call", ShortCall!NetNext)
    \/ Conversation("decoy", Decoy!FakeNext)
    \/ scene = "key" /\ Key!Next /\ UNCHANGED <<scene, netVars, machine, heapVars>>
    \/ Machine("sums", Sums!Next)
    \/ Machine("pictures", Pictures!Next)
    \/ Machine("calls", Calls!Next)
    \/ Machine("keyboard", Keyboard!Next)
    \/ Machine("typing", Typing!Next)
    \/ scene = "heap" /\ HeapNext /\ UNCHANGED <<scene, netVars, letters, machine>>

(* Boards and machine run on; nobody has to type.                          *)
Fairness ==
    /\ WF_vars(Conversation("short call", ShortCall!Tick))
    /\ \A who \in Boards :
          /\ WF_vars(Conversation("short call", ShortCall!Send(who)))
          /\ WF_vars(Conversation("short call", ShortCall!Receive(who)))
          /\ WF_vars(Conversation("short call", ShortCall!Setup(who)))
    /\ WF_vars(Machine("calls", Calls!Next))

Spec == Init /\ [][Next]_vars /\ Fairness

-----------------------------------------------------------------------------
(* The decoy keeps its direction (GrinchNetFake.ino:140-153); isValidKey    *)
(* approves exactly the keys that follow the template, one letter being     *)
(* free, and end in four digits (GrinchNet.ino:68-89); the Chip-8 machine   *)
(* keeps its types, one key is down at most, on which LD Vx, K relies       *)
(* (gr8_escape.c:416), and the key of the last character stays down for 48  *)
(* frames without input and no longer (gr8_escape.c:123-148).               *)
ProgramsConsistent ==
    /\ scene = "decoy" => Decoy!OneWay
    /\ Key!ApprovedKeys
    /\ Typing!TypeOK /\ Typing!OneKeyAtATime
    /\ scene = "keyboard" => Keyboard!KeysFollowTyping

(* Carry, borrow and shifted bit are the ninth bit of the exact result      *)
(* (gr8_escape.c:281-323), a sprite is drawn by exclusive or and VF tells   *)
(* of erased pixels (355-378), a number written by LD B reads back digit by *)
(* digit (452), and RET goes on behind the CALL that is still open (179).   *)
InstructionsAreExact ==
    [][/\ scene = "sums" => Sums!NinthBit
       /\ scene = "pictures" => Pictures!DrawingXors /\ Pictures!DecimalDigits
       /\ scene = "calls" => Calls!ReturnMatches]_vars

(* Every byte a station takes from its operator is printed by the other     *)
(* (GrinchNet.ino:205-210), and a game that waits for its delay timer goes  *)
(* on (gr8_escape.c:524).                                                   *)
ProgramsGoOn ==
    /\ \A who \in Boards : \A n \in 1..2 :
          (scene = "short call" /\ Len(said[who]) >= n)
              ~> Len(heard[Other(who)]) >= n
    /\ (scene = "calls" /\ dt > 0) ~> dt = 0
=============================================================================
