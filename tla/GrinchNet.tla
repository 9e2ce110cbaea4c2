----------------------------- MODULE GrinchNet -----------------------------
(***************************************************************************)
(* Two GrinchNet stations (GrinchNet.ino) joined by two wires, DATA and    *)
(* SIGNAL.  One of them sends a line, bit by bit, as pulses on SIGNAL      *)
(* during which DATA holds the bit; a newline turns the line around.  Both *)
(* run the same stream cipher, and nothing but the count of the bytes keeps*)
(* the two ciphers in step.                                                *)
(*                                                                         *)
(* Time: BITDELAY is D ticks.  Computation takes no time next to a tick: a *)
(* tick passes only when no station has a step to take.  Two stations that *)
(* are due at the same tick take their steps in either order.              *)
(***************************************************************************)
EXTENDS Rc4, SequencesExt

CONSTANTS
  Stations,     \* the two boards
  Keys,         \* what may be typed as a key; isValidKey accepts Approved
  Approved,
  Newline,      \* the byte that ends a line
  D,            \* BITDELAY in ticks
  MaxTyped,     \* bound: bytes typed at one station
  Prompted,     \* the operators type at the prompt only (see Type)
  TakesTurns    \* TRUE: GrinchNet.ino; FALSE: GrinchNetFake.ino

ASSUME NetAssumption ==
  /\ \E a, b \in Stations : a # b /\ Stations = {a, b}
  /\ Approved \subseteq Seq(Nat) \ {<<>>} /\ D \in Nat \ {0}
  /\ Prompted \in BOOLEAN /\ TakesTurns \in BOOLEAN

VARIABLES
  pc,         \* "role", "key": setup; "loop"; "high", "low": writing a bit;
              \* "hold": a bit was read, the pulse has not ended
  expecting,  \* expectingData
  output,     \* the pins are OUTPUT
  data,       \* the level the station puts on DATA when output
  signal,     \* the level the station puts on SIGNAL when output
  wait,       \* ticks left of delay(BITDELAY)
  bits,       \* bits still to write, or read so far
  byte,       \* the byte being written, in clear
  cipher,     \* S, rc4_i, rc4_j
  key,        \* encKey
  serial,     \* bytes typed and not read yet
  calm,       \* some time has passed since the last prompt
  said,       \* history: the bytes taken from serial
  heard       \* history: the bytes printed as received

wires == <<output, data, signal>>
setupVars == <<key, serial>>
netVars == <<pc, expecting, wires, wait, bits, byte, cipher, setupVars, calm,
          said, heard>>

\* Both stations are set up.
Ready == \A b \in Stations : pc[b] \notin {"role", "key"}

Other(b) == CHOOSE o \in Stations : o # b
NoKey == <<>>
NoCipher == [S |-> [x \in Byte |-> x], i |-> 0, j |-> 0]

\* What a station may read from a wire: the level of the only driver, or
\* anything when nobody drives the wire or two drivers disagree.
Reads(level) ==
  LET driven == {level[b] : b \in {s \in Stations : output[s]}}
  IN  IF \E l \in {0, 1} : driven = {l} THEN driven ELSE {0, 1}

NetInit ==
  /\ pc = [b \in Stations |-> "role"]
  /\ expecting = [b \in Stations |-> FALSE]
  /\ output = [b \in Stations |-> FALSE]
  /\ data = [b \in Stations |-> 0]
  /\ signal = [b \in Stations |-> 0]
  /\ wait = [b \in Stations |-> 0]
  /\ bits = [b \in Stations |-> <<>>]
  /\ byte = [b \in Stations |-> 0]
  /\ cipher = [b \in Stations |-> NoCipher]
  /\ key = [b \in Stations |-> NoKey]
  /\ serial = [b \in Stations |-> <<>>]
  /\ calm = [b \in Stations |-> FALSE]
  /\ said = [b \in Stations |-> <<>>]
  /\ heard = [b \in Stations |-> <<>>]

\* config_current_mode(m): an input pin drives nothing and drops to LOW.
Config(b, m) ==
  /\ expecting' = [expecting EXCEPT ![b] = m]
  /\ output' = [output EXCEPT ![b] = ~m]
  /\ data' = [data EXCEPT ![b] = IF m THEN 0 ELSE @]
  /\ signal' = [signal EXCEPT ![b] = IF m THEN 0 ELSE @]
  /\ calm' = [calm EXCEPT ![b] = FALSE]

\* The operators agree on who initiates the call.
InitConnection(b, m) ==
  /\ pc[b] = "role"
  /\ pc[Other(b)] = "role" \/ expecting[Other(b)] # m
  /\ expecting' = [expecting EXCEPT ![b] = m]
  /\ pc' = [pc EXCEPT ![b] = "key"]
  /\ UNCHANGED <<wires, wait, bits, byte, cipher, setupVars, calm, said, heard>>

\* getKey, isValidKey: a key that is not approved is asked for again.
\* The operators share the key and start the sender first (util/play-scenario.py,
\* lines 8 and 66).
EnterKey(b, k) ==
  /\ pc[b] = "key"
  /\ k \in Approved /\ key[Other(b)] \in {NoKey, k}
  /\ expecting[b] => pc[Other(b)] = "loop"
  /\ key' = [key EXCEPT ![b] = k]
  /\ cipher' = [cipher EXCEPT ![b] = rc4_init(k)]
  /\ Config(b, expecting[b])
  /\ pc' = [pc EXCEPT ![b] = "loop"]
  /\ UNCHANGED <<wait, bits, byte, serial, said, heard>>

\* An operator types a byte once both stations are set up.  A prompted one waits
\* for the prompt and for each echo (util/play-scenario.py, typeline); the prompt
\* takes time to print and the answer to type, however little: one tick.
Type(b, x) ==
  /\ Len(said[b]) + Len(serial[b]) < MaxTyped
  /\ Ready
  /\ Prompted => /\ pc[b] = "loop" /\ ~expecting[b] /\ serial[b] = <<>>
                 /\ calm[b]
  /\ serial' = [serial EXCEPT ![b] = Append(@, x)]
  /\ UNCHANGED <<pc, expecting, wires, wait, bits, byte, cipher, key, calm,
                 said, heard>>

\* Mutant: the pulse has no length.
RaiseMutant(b, todo) ==
  /\ data' = [data EXCEPT ![b] = Head(todo)]
  /\ signal' = [signal EXCEPT ![b] = 1]
  /\ bits' = [bits EXCEPT ![b] = Tail(todo)]
  /\ wait' = [wait EXCEPT ![b] = 0]
  /\ pc' = [pc EXCEPT ![b] = "high"]

\* The next bit goes on DATA, then SIGNAL rises for a delay.
Raise(b, todo) ==
  /\ data' = [data EXCEPT ![b] = Head(todo)]
  /\ signal' = [signal EXCEPT ![b] = 1]
  /\ bits' = [bits EXCEPT ![b] = Tail(todo)]
  /\ wait' = [wait EXCEPT ![b] = D]
  /\ pc' = [pc EXCEPT ![b] = "high"]

\* loop, sending: a byte is taken, encrypted, and its first bit written.
SendByte(b) ==
  /\ pc[b] = "loop" /\ ~expecting[b] /\ serial[b] # <<>>
  /\ LET inb == Head(serial[b])
     IN  /\ byte' = [byte EXCEPT ![b] = inb]
         /\ said' = [said EXCEPT ![b] = Append(@, inb)]
         /\ Raise(b, Bits(rc4_crypt(cipher[b], inb)))
  /\ cipher' = [cipher EXCEPT ![b] = Advance(@)]
  /\ serial' = [serial EXCEPT ![b] = Tail(@)]
  /\ UNCHANGED <<expecting, output, key, calm, heard>>

\* The pulse ends after its delay.
Lower(b) ==
  /\ pc[b] = "high" /\ wait[b] = 0
  /\ signal' = [signal EXCEPT ![b] = 0]
  /\ wait' = [wait EXCEPT ![b] = D]
  /\ pc' = [pc EXCEPT ![b] = "low"]
  /\ UNCHANGED <<expecting, output, data, bits, byte, cipher, setupVars, calm,
                 said, heard>>

NextBit(b) ==
  /\ pc[b] = "low" /\ wait[b] = 0 /\ bits[b] # <<>>
  /\ Raise(b, bits[b])
  /\ UNCHANGED <<expecting, output, byte, cipher, setupVars, calm, said, heard>>

\* Mutant: the decoy turns around as well.
TurnsMutant(x) == x = Newline

\* Whether the line turns around after byte x.
Turns(x) == TakesTurns /\ x = Newline

\* The byte is written: its echo is printed, and a newline turns the line.
EndOfByte(b) ==
  /\ pc[b] = "low" /\ wait[b] = 0 /\ bits[b] = <<>>
  /\ pc' = [pc EXCEPT ![b] = "loop"]
  /\ IF Turns(byte[b]) THEN Config(b, TRUE)
                       ELSE UNCHANGED <<expecting, wires, calm>>
  /\ UNCHANGED <<wait, bits, byte, cipher, setupVars, said, heard>>

\* gpio_read_bit sees SIGNAL high and reads DATA at once.
SeeHigh(b) ==
  /\ pc[b] = "loop" /\ expecting[b] /\ 1 \in Reads(signal)
  /\ \E v \in Reads(data) : bits' = [bits EXCEPT ![b] = Append(@, v)]
  /\ pc' = [pc EXCEPT ![b] = "hold"]
  /\ UNCHANGED <<expecting, wires, wait, byte, cipher, setupVars, calm, said, heard>>

\* gpio_read_bit sees the end of the pulse; the last bit of a byte completes
\* gpio_read, and loop decrypts, prints, and turns around at a newline.
SeeLow(b) ==
  /\ pc[b] = "hold" /\ 0 \in Reads(signal)
  /\ pc' = [pc EXCEPT ![b] = "loop"]
  /\ IF Len(bits[b]) < W
     THEN UNCHANGED <<expecting, wires, bits, cipher, calm, heard>>
     ELSE LET outb == rc4_crypt(cipher[b], FromBits(bits[b]))
          IN  /\ bits' = [bits EXCEPT ![b] = <<>>]
              /\ cipher' = [cipher EXCEPT ![b] = Advance(@)]
              /\ heard' = [heard EXCEPT ![b] = Append(@, outb)]
              /\ IF Turns(outb) THEN Config(b, FALSE)
                                ELSE UNCHANGED <<expecting, wires, calm>>
  /\ UNCHANGED <<wait, byte, setupVars, said>>

Due(b) ==
  \/ pc[b] \in {"high", "low"} /\ wait[b] = 0
  \/ pc[b] = "loop" /\ expecting[b] /\ Reads(signal) = {1}
  \/ pc[b] = "loop" /\ ~expecting[b] /\ serial[b] # <<>>
  \/ pc[b] = "hold" /\ Reads(signal) = {0}

Tick ==
  /\ \A b \in Stations : ~Due(b)
  /\ wait' = [b \in Stations |-> IF wait[b] > 0 THEN wait[b] - 1 ELSE 0]
  /\ calm' = [b \in Stations |-> TRUE]
  /\ <<wait, calm>>' # <<wait, calm>>
  /\ UNCHANGED <<pc, expecting, wires, bits, byte, cipher, setupVars, said, heard>>

Setup(b) ==
  \/ \E m \in BOOLEAN : InitConnection(b, m)
  \/ \E k \in Keys : EnterKey(b, k)

Send(b) == SendByte(b) \/ Lower(b) \/ NextBit(b) \/ EndOfByte(b)
Receive(b) == SeeHigh(b) \/ SeeLow(b)

NetNext ==
  \/ \E b \in Stations : Setup(b) \/ Send(b) \/ Receive(b)
  \/ \E b \in Stations, x \in Byte : Type(b, x)
  \/ Tick

\* The boards run, and time passes; nobody has to type.
NetFairness ==
  /\ WF_netVars(Tick)
  /\ \A b \in Stations : WF_netVars(Send(b)) /\ WF_netVars(Receive(b)) /\ WF_netVars(Setup(b))

NetSpec == NetInit /\ [][NetNext]_netVars

----------------------------------------------------------------------------
(* Properties *)

\* Every variable has its type; the array of a cipher stays a permutation
\* (the swaps of rc4_init and rc4_crypt).
NetTypeOK ==
  /\ pc \in [Stations -> {"role", "key", "loop", "high", "low", "hold"}]
  /\ expecting \in [Stations -> BOOLEAN] /\ output \in [Stations -> BOOLEAN]
  /\ data \in [Stations -> {0, 1}] /\ signal \in [Stations -> {0, 1}]
  /\ wait \in [Stations -> 0 .. D] /\ calm \in [Stations -> BOOLEAN]
  /\ byte \in [Stations -> Byte] /\ cipher \in [Stations -> Cipher]
  /\ key \in [Stations -> Approved \cup {NoKey}] /\ bits \in [Stations -> Seq({0, 1})]
  /\ {said, heard, serial} \subseteq [Stations -> Seq(Byte)]
  /\ \A b \in Stations : Len(bits[b]) <= W /\ IsPermutation(cipher[b].S)

InTransit(b) == pc[b] \in {"high", "low", "hold"} \/ bits[b] # <<>>

\* What a station printed is what the other
\* one typed, in order, and at most one byte behind (loop: gpio_write there,
\* gpio_read here).  A lost or invented bit shifts every later byte.
HeardIsSaid ==
  \A b \in Stations : /\ IsPrefix(heard[Other(b)], said[b])
                      /\ Len(said[b]) <= Len(heard[Other(b)]) + 1

\* Between bytes the two ciphers are in the same state, although each station
\* advances its own: rc4_crypt ran equally often on both, in both directions.
CiphersInStep ==
  Ready /\ (\A b \in Stations : ~InTransit(b))
    => \A a, b \in Stations : cipher[a] = cipher[b]

\* The stations are never both waiting for a pulse: nobody would send again.
SomebodySends ==
  Ready => \E b \in Stations : ~expecting[b] \/ InTransit(b)

\* When the operator answers at once, the pulse of the new sender begins while
\* the old one still drives SIGNAL low, in the delay behind its newline: such a
\* pulse outlasts that delay, so that it can still be read (gpio_write,
\* config_current_mode).
PulseOutlastsTurn ==
  \A a, b \in Stations :
    output[a] /\ output[b] /\ signal[a] = 1 /\ signal[b] = 0
      => pc[b] = "low" /\ bits[b] = <<>> /\ Turns(byte[b]) /\ wait[b] < wait[a]

\* "During the on phase, the value of the datapin should be read" (NOTES): a
\* pulse never ends before the other station has read its bit.
PulseIsRead ==
  \A b \in Stations : signal[b] = 1 /\ signal'[b] = 0 => pc[Other(b)] = "hold"

\* A call between operators who wait for their prompts and for each echo, however
\* soon they type then: through every turn of the line one station sends and the
\* other one hears what was said, both ciphers in the same state, no pulse missed,
\* not even one that begins before the line is turned (GrinchNet.ino:105-153,
\* 187-217; NOTES:2).
ConversationInStep ==
  /\ [](NetTypeOK /\ CiphersInStep /\ SomebodySends /\ PulseOutlastsTurn /\ HeardIsSaid)
  /\ [][PulseIsRead]_netVars
=============================================================================
