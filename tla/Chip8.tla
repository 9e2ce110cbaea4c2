-------------------------------- MODULE Chip8 --------------------------------
(***************************************************************************)
(* The Chip-8 machine of gr8_escape.c: one action per instruction of       *)
(* cycle(), the keyboard latch key(), the timers, and the loop of main()   *)
(* that runs ten instructions a frame.                                     *)
(*                                                                         *)
(* Games are assumed to stay in the memory they load or reserve, on the    *)
(* screen and within the stack: nothing in cycle() tests that they do.     *)
(***************************************************************************)
EXTENDS Integers, Sequences, FiniteSets, Bitwise

CONSTANTS
    Games,        \* the ROMs that may be loaded, sequences of bytes
    Reserved,     \* bytes behind the ROM a game uses
    Typed,        \* characters that may wait on stdin
    Rands,        \* values of rand() % 0xff that are tried
    MaxFrames     \* bound on the frames of a behaviour

VARIABLES
    pc, op, i, sp, v, m, k, s, dt, st,   \* cpu; k: the keys that are down
    gfx, redraw,                         \* gpu; gfx: the pixels that are lit
    debug, last,
    cycles,                              \* instructions of this frame; -1: key()
    frames,
    latest, idle,    \* history: the last character typed, frames since
    callers          \* history: the return addresses a caller expects

cpu     == <<pc, op, i, sp, v, m, s, dt, st, callers>>
keypad  == <<k, last, latest, idle>>
screen  == <<gfx, redraw, debug>>
vars    == <<cpu, keypad, screen, cycles, frames>>

SCREEN_WIDTH == 64

(* keys[]: the character of each key. *)
keys == <<120, 49, 50, 51, 113, 119, 101, 97, 115, 100, 122, 99, 52, 114,
          102, 118>>
Registers == 0..15
KeyOf(c) == {n \in Registers : keys[n + 1] = c}

font == <<240, 144, 144, 144, 240, 32, 96, 32, 32, 112,
          240, 16, 240, 128, 240, 240, 16, 240, 16, 240,
          144, 144, 240, 16, 16, 240, 128, 240, 16, 240,
          240, 128, 240, 144, 240, 240, 16, 32, 64, 64,
          240, 144, 240, 144, 240, 240, 144, 240, 16, 240,
          240, 144, 240, 144, 144, 224, 144, 224, 144, 224,
          240, 128, 128, 128, 240, 224, 144, 144, 144, 224,
          240, 128, 240, 128, 240, 240, 128, 240, 128, 128>>

(* load() and init(): the game at 0x200, the font at 0. *)
Loaded(game) ==
    [a \in (0..79) \cup (512..511 + Len(game) + Reserved) |->
        IF a < 80 THEN font[a + 1]
        ELSE IF a - 511 <= Len(game) THEN game[a - 511] ELSE 0]

Init ==
    /\ \E game \in Games : m = Loaded(game)
    /\ pc = 512 /\ op = 0 /\ i = 0 /\ sp = 0 /\ dt = 0 /\ st = 0
    /\ v = [r \in Registers |-> 0] /\ s = [r \in Registers |-> 0]
    /\ k = {} /\ last = 0 /\ latest = 0 /\ idle = 0
    /\ gfx = {} /\ redraw = FALSE /\ debug = FALSE
    /\ cycles = -1 /\ frames = 0 /\ callers = <<>>

-----------------------------------------------------------------------------
(* key(): at most one character is taken; one that was not the last before  *)
(* decides the keys, and the keys are let go when last has counted to 48.   *)

Pressed(c) ==
    /\ k' = IF c # last /\ c > 47 THEN KeyOf(c) ELSE k
    /\ last' = c

NotPressed ==
    /\ k' = IF last = 47 THEN {} ELSE k
    /\ last' = IF last > 47 THEN 0 ELSE last + 1

Key ==
    /\ cycles = -1 /\ frames < MaxFrames
    /\ \/ /\ \E c \in Typed : Pressed(c) /\ latest' = c
          /\ idle' = 0
       \/ /\ NotPressed
          /\ idle' = idle + 1 /\ UNCHANGED latest
    /\ cycles' = 0
    /\ UNCHANGED <<cpu, screen, frames>>

(* timers(): both count down to 0 and stay there. *)
CountDown(t) == IF t > 0 THEN t - 1 ELSE 0

(* The end of a frame: draw() when asked, timers(), the sleep. *)
Frame ==
    /\ cycles = 10
    /\ redraw' = FALSE
    /\ dt' = CountDown(dt) /\ st' = CountDown(st)
    /\ cycles' = -1 /\ frames' = frames + 1
    /\ UNCHANGED <<pc, op, i, sp, v, m, s, callers, keypad, gfx, debug>>

-----------------------------------------------------------------------------
(* cycle(): the instruction at pc and its parts. *)

Op   == m[pc] * 256 + m[pc + 1]
X    == (Op \div 256) % 16
Y    == (Op \div 16) % 16
N    == Op % 16
KK   == Op % 256
ADDR == Op % 4096
Is(high) == cycles \in 0..9 /\ Op \div 4096 = high

(* What every instruction does, and where it goes on. *)
Goto(address) ==
    /\ pc' = address /\ op' = Op
    /\ cycles' = cycles + 1
    /\ UNCHANGED <<keypad, frames>>

GoOn == Goto(pc + 2)
SkipIf(condition) == Goto(IF condition THEN pc + 4 ELSE pc + 2)

Calm == UNCHANGED <<screen, sp, s, callers, m, dt, st>>

Sys == Is(0) /\ KK = 0 /\ GoOn /\ Calm /\ UNCHANGED <<i, v>>

Cls ==
    /\ Is(0) /\ KK = 224
    /\ gfx' = {} /\ redraw' = TRUE
    /\ GoOn
    /\ UNCHANGED <<i, v, sp, s, callers, m, dt, st, debug>>

Ret ==
    /\ Is(0) /\ KK = 238 /\ sp > 0
    /\ sp' = sp - 1
    /\ Goto(s[sp'] + 2)
    /\ callers' = SubSeq(callers, 1, Len(callers) - 1)
    /\ UNCHANGED <<i, v, s, m, dt, st, screen>>

Jp == Is(1) /\ Goto(ADDR) /\ Calm /\ UNCHANGED <<i, v>>

Call ==
    /\ Is(2) /\ sp < 16
    /\ s' = [s EXCEPT ![sp] = (@ \div 4096) * 4096 + (pc % 4096)]
    /\ sp' = sp + 1
    /\ Goto(ADDR)
    /\ callers' = Append(callers, pc + 2)
    /\ UNCHANGED <<i, v, m, dt, st, screen>>

(* SE and SNE. *)
Skip ==
    /\ \/ Is(3) /\ SkipIf(v[X] = KK)
       \/ Is(4) /\ SkipIf(v[X] # KK)
       \/ Is(5) /\ SkipIf(v[X] = v[Y])
       \/ Is(9) /\ SkipIf(v[X] # v[Y])
    /\ Calm /\ UNCHANGED <<i, v>>

LdByte == Is(6) /\ v' = [v EXCEPT ![X] = KK] /\ GoOn /\ Calm /\ UNCHANGED i

Flag(condition) == [v EXCEPT ![15] = IF condition THEN 1 ELSE 0]

AddByte ==
    /\ Is(7)
    /\ LET w == Flag(KK > 255 - v[X]) IN v' = [w EXCEPT ![X] = (@ + KK) % 256]
    /\ GoOn /\ Calm /\ UNCHANGED i

LateShiftRight ==
    LET w == [v EXCEPT ![X] = @ \div 2] IN [w EXCEPT ![15] = w[X] % 2]

(* SHR: the lowest bit first, then the shift. *)
ShiftRight ==
    LET w == Flag(v[X] % 2 = 1) IN [w EXCEPT ![X] = @ \div 2]

(* The eight-bit operations: VF is written first, and read again when it   *)
(* is an operand.                                                           *)
Alu ==
    CASE N = 0 -> [v EXCEPT ![X] = v[Y]]
      [] N = 1 -> [v EXCEPT ![X] = @ | v[Y]]
      [] N = 2 -> [v EXCEPT ![X] = @ & v[Y]]
      [] N = 3 -> [v EXCEPT ![X] = @ ^^ v[Y]]
      [] N = 4 -> LET w == Flag(v[Y] > 255 - v[X])
                  IN  [w EXCEPT ![X] = (@ + w[Y]) % 256]
      [] N = 5 -> LET w == Flag(v[X] >= v[Y])
                  IN  [w EXCEPT ![X] = (@ + 256 - w[Y]) % 256]
      [] N = 6 -> ShiftRight
      [] N = 7 -> LET w == Flag(v[Y] >= v[X])
                  IN  [w EXCEPT ![X] = (w[Y] + 256 - @) % 256]
      [] N = 14 -> LET w == Flag(v[X] >= 128)
                   IN  [w EXCEPT ![X] = (@ * 2) % 256]

Arithmetic ==
    /\ Is(8) /\ N \in (0..7) \cup {14}
    /\ v' = Alu
    /\ GoOn /\ Calm /\ UNCHANGED i

LdI == Is(10) /\ i' = ADDR /\ GoOn /\ Calm /\ UNCHANGED v

JpV0 == Is(11) /\ Goto(ADDR + v[0]) /\ Calm /\ UNCHANGED <<i, v>>

Rnd ==
    /\ Is(12)
    /\ \E r \in Rands : v' = [v EXCEPT ![X] = r & KK]
    /\ GoOn /\ Calm /\ UNCHANGED i

(* gpu.gfx[i] ^= 1, and VF when the pixel was lit. *)
Toggle(d, spot) ==
    IF spot \in d.gfx
    THEN [gfx |-> d.gfx \ {spot}, v |-> [d.v EXCEPT ![15] = 1]]
    ELSE [d EXCEPT !.gfx = @ \cup {spot}]

(* The pixels one after the other: VF is reset, then set by an erasure, and *)
(* is a coordinate when VX or VY is VF.                                      *)
Drawn ==
    LET Pixel[n \in 0..120] ==
            IF n = 0 THEN [gfx |-> gfx, v |-> Flag(FALSE)]
            ELSE LET d    == Pixel[n - 1]
                     line == (n - 1) \div 8
                     x    == (n - 1) % 8
                     spot == d.v[X] + x + (d.v[Y] + line) * SCREEN_WIDTH
                 IN  IF (m[i + line] \div 2 ^ (7 - x)) % 2 = 0 THEN d
                     ELSE Toggle(d, spot)
    IN  Pixel[N * 8]

Drw ==
    /\ Is(13)
    /\ gfx' = Drawn.gfx /\ v' = Drawn.v
    /\ redraw' = TRUE
    /\ GoOn
    /\ UNCHANGED <<i, sp, s, callers, m, dt, st, debug>>

(* SKP and SKNP *)
SkipKey ==
    /\ \/ Is(14) /\ KK = 158 /\ SkipIf(v[X] \in k)
       \/ Is(14) /\ KK = 161 /\ SkipIf(v[X] \notin k)
    /\ Calm /\ UNCHANGED <<i, v>>

LdVxDT == Is(15) /\ KK = 7 /\ v' = [v EXCEPT ![X] = dt] /\ GoOn /\ Calm /\ UNCHANGED i

(* LD Vx, K: pc moves on once for every key that is down. *)
LdVxK ==
    /\ Is(15) /\ KK = 10
    /\ Goto(pc + 2 * Cardinality(k))
    /\ Calm /\ UNCHANGED <<i, v>>

LdTimer ==
    /\ Is(15) /\ KK \in {21, 24}
    /\ dt' = IF KK = 21 THEN v[X] ELSE dt
    /\ st' = IF KK = 24 THEN v[X] ELSE st
    /\ GoOn
    /\ UNCHANGED <<i, v, screen, sp, s, callers, m>>

(* ADD I, Vx and LD F, Vx *)
Index ==
    /\ Is(15) /\ KK \in {30, 41}
    /\ i' = (IF KK = 30 THEN i + v[X] ELSE v[X] * 5) % 65536
    /\ GoOn /\ Calm /\ UNCHANGED v

Digits(n) == <<n \div 100, (n % 100) \div 10, n % 10>>

LdB ==
    /\ Is(15) /\ KK = 51
    /\ m' = [a \in DOMAIN m |-> IF a - i \in 0..2 THEN Digits(v[X])[a - i + 1]
                                ELSE m[a]]
    /\ GoOn
    /\ UNCHANGED <<i, v, screen, sp, s, callers, dt, st>>

(* VX is a macro without parentheses: "VX + 1" shifts by nine bits. *)
VXplus1 == (Op % 4096) \div 512

LdMemory ==
    /\ Is(15) /\ KK = 85
    /\ m' = [a \in DOMAIN m |-> IF a - i \in 0..X THEN v[a - i] ELSE m[a]]
    /\ i' = i + VXplus1
    /\ GoOn
    /\ UNCHANGED <<v, screen, sp, s, callers, dt, st>>

LdRegisters ==
    /\ Is(15) /\ KK = 101
    /\ v' = [r \in Registers |-> IF r <= X THEN m[i + r] ELSE v[r]]
    /\ i' = i + VXplus1
    /\ GoOn /\ Calm

Dbg ==
    /\ Is(15) /\ KK = 117
    /\ debug' = TRUE
    /\ GoOn
    /\ UNCHANGED <<i, v, sp, s, callers, m, dt, st, gfx, redraw>>

(* No case: the machine stays where it is for good. *)
Undefined ==
    /\ \/ Is(0) /\ KK \notin {0, 224, 238}
       \/ Is(8) /\ N \notin (0..7) \cup {14}
       \/ Is(14) /\ KK \notin {158, 161}
       \/ Is(15) /\ KK \notin {7, 10, 21, 24, 30, 41, 51, 85, 101, 117}
    /\ Goto(pc)
    /\ Calm /\ UNCHANGED <<i, v>>

cycle ==
    \/ Sys \/ Cls \/ Ret \/ Jp \/ Call \/ Skip \/ LdByte \/ AddByte
    \/ Arithmetic \/ LdI \/ JpV0 \/ Rnd \/ Drw \/ SkipKey \/ LdVxDT \/ LdVxK
    \/ LdTimer \/ Index \/ LdB \/ LdMemory \/ LdRegisters \/ Dbg \/ Undefined

Next == Key \/ cycle \/ Frame

Spec == Init /\ [][Next]_vars /\ WF_vars(Next)

-----------------------------------------------------------------------------
(* Properties *)

(* The type of the state: bytes, addresses and counters of the machine. *)
TypeOK ==
    /\ pc \in 0..4095 /\ i \in 0..65535 /\ sp \in 0..16
    /\ \A r \in Registers : v[r] \in 0..255 /\ s[r] \in 0..4095
    /\ \A a \in DOMAIN m : m[a] \in 0..255
    /\ k \subseteq Registers /\ last \in 0..255
    /\ dt \in 0..255 /\ st \in 0..255
    /\ gfx \subseteq 0..2047 /\ cycles \in -1..10

(* LD Vx, K adds 2 to pc for every key that is down, and works only because *)
(* key() never leaves two of them down.                                     *)
OneKeyAtATime == Cardinality(k) <= 1

(* The keyboard sends no release: the key of the last character stays down  *)
(* for 48 frames without input and no longer, and any other printable       *)
(* character lets it go.                                                    *)
KeysFollowTyping ==
    (\A c \in Typed : c > 47) =>
        k = IF idle < 49 THEN KeyOf(latest) ELSE {}

(* RET goes on behind the CALL that is still open, however calls nest and   *)
(* whatever earlier calls left on the stack.                                *)
ReturnMatches == Op = 238 /\ sp' = sp - 1 => pc' = callers[Len(callers)]

(* A sprite is drawn by exclusive or, and VF tells of erased pixels.        *)
Sprite ==
    {v[X] + x + (v[Y] + line) * SCREEN_WIDTH :
        <<line, x>> \in {p \in (0..(N - 1)) \X (0..7) :
                            (m[i + p[1]] \div 2 ^ (7 - p[2])) % 2 = 1}}
DrawingXors ==
    Is(13) /\ cycles' = cycles + 1 /\ 15 \notin {X, Y} =>
        /\ gfx' = (gfx \ Sprite) \cup (Sprite \ gfx)
        /\ v'[15] = IF gfx \cap Sprite = {} THEN 0 ELSE 1

(* Carry, borrow and shifted bit are the ninth bit of the exact result,     *)
(* when VF is not an operand.                                               *)
NinthBit ==
    /\ Is(7) /\ cycles' = cycles + 1 /\ X # 15 =>
          256 * v'[15] + v'[X] = v[X] + KK
    /\ Is(8) /\ cycles' = cycles + 1 /\ 15 \notin {X, Y} /\ X # Y =>
        LET a == v[X]
            b == v[Y]
            r == v'[X]
            f == v'[15]
        IN  /\ N = 4 => 256 * f + r = a + b
            /\ N = 5 => r - 256 * (1 - f) = a - b
            /\ N = 7 => r - 256 * (1 - f) = b - a
            /\ N = 6 => 2 * r + f = a
            /\ N = 14 => 256 * f + r = 2 * a

(* A number written by LD B can be read back digit by digit.                *)
DecimalDigits ==
    Is(15) /\ KK = 51 /\ cycles' = cycles + 1 =>
        100 * m'[i] + 10 * m'[i + 1] + m'[i + 2] = v[X]
=============================================================================
