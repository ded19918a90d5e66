----------------------------- MODULE SerialLink -----------------------------
(***************************************************************************)
(* The serial packets between the plugin and the earlier firmware (the     *)
(* HEAD side of the merge in diffbot_system.cpp, and                       *)
(* src/src/lab_navigation/arduino/micro_ros_client.ino).  The plugin sends *)
(* its commands every cycle; the firmware answers each command it takes    *)
(* with the positions and velocities of its wheels.  Both ends look for    *)
(* two header bytes, gather a packet and test its checksum, byte by byte   *)
(* as they arrive, and keep what is incomplete for the next call.          *)
(*                                                                         *)
(* A byte is the set of its bits, so that XOR is the symmetric difference. *)
(* A command has one byte for each wheel, a status one byte of position;   *)
(* the velocity in a status is the number of counts it was computed from,  *)
(* which is what may be wrong about it.  Noise takes a byte off a line or  *)
(* changes it.  A byte on a line also has the payload it was sent with and *)
(* its place in that packet, which no action looks at but for the history  *)
(* of wrong packets.                                                       *)
(***************************************************************************)
EXTENDS Integers, SequencesExt

CONSTANTS
  Bits,          \* the bits of a byte
  HEADER1, HEADER2,
  Position(_),   \* the byte the firmware sends for a count
  CommandBytes,  \* bytes the line to the board holds
  StatusBytes,   \* bytes the line to the PC holds
  PayloadBytes,  \* the bytes a command is made of
  MaxNoise,      \* bound on the bytes lost or changed
  MaxChanges,    \* bound on the changes of the command and of the count
  None           \* no packet

Byte == SUBSET Bits

ASSUME SerialAssumption ==
  /\ CommandBytes \in Nat /\ StatusBytes \in Nat
  /\ MaxNoise \in Nat /\ MaxChanges \in Nat
  /\ HEADER1 \in Byte /\ HEADER2 \in Byte /\ HEADER1 # HEADER2
  /\ PayloadBytes \subseteq Byte
  /\ \A n \in 0..MaxChanges : Position(n) \in Byte

VARIABLES
  toBoard, toPC,             \* bytes under way, each with the payload it is part of
  receive_state, rx_buffer_, \* the plugin's parser
  hw_commands_, hw_positions_,
  state, buffer,             \* the firmware's parser
  rx_data,                   \* the last command it took
  pass,                      \* how far loop() has come
  left_count, prev_left,
  last,                      \* left_count at last_time
  diff,                      \* this pass: left_count less prev_left
  wrong,                     \* history: an accepted packet was not the one sent
  plain,                     \* history: every packet sent was plain
  noise, changes             \* counters of the bounds

pluginVars == <<receive_state, rx_buffer_, hw_positions_>>
boardVars == <<state, buffer, rx_data>>
loopVars == <<pass, prev_left, last, diff>>
history == <<wrong, plain>>
counters == <<noise, changes>>
vars == <<toBoard, toPC, pluginVars, hw_commands_, boardVars, loopVars,
          left_count, history, counters>>
-----------------------------------------------------------------------------
Command == [1..2 -> PayloadBytes]

Xor(a, b) == (a \cup b) \ (a \cap b)
calculate_checksum(bytes) ==
  LET checksum[i \in 0..Len(bytes)] ==
        IF i = 0 THEN {} ELSE Xor(checksum[i - 1], bytes[i])
  IN checksum[Len(bytes)]

\* The packet of a payload: two header bytes, the payload, the checksum.
Packet(payload) ==
  LET head == <<HEADER1, HEADER2>> \o payload
  IN Append(head, calculate_checksum(head))

CommandLength == 5
StatusLength == 4
Payload(packet) == SubSeq(packet, 3, Len(packet) - 1)
Valid(packet) == Last(packet) = calculate_checksum(Front(packet))

\* No byte after the headers, the checksum included, can be taken for a header.
Plain(payload) ==
  \A i \in 3..Len(Packet(payload)) : Packet(payload)[i] \notin {HEADER1, HEADER2}

\* The bytes of a packet as they go on a line.
Sent(payload) ==
  LET p == Packet(payload)
  IN [i \in DOMAIN p |-> [byte |-> p[i], of |-> payload, at |-> i]]

\* A packet accepted with this byte of the line is the one that ended there.
WasSent(packet, at) == Payload(packet) = at.of /\ at.at = Len(packet)

Look(st, buf) == [st |-> st, buf |-> buf, packet |-> None]

\* Mutant: a packet that fails its checksum is kept.
ParseUnchecked(st, buf, byte, length) ==
  CASE st = "WAIT_FOR_HEADER1" ->
         Look(IF byte = HEADER1 THEN "WAIT_FOR_HEADER2" ELSE st, <<>>)
    [] st = "WAIT_FOR_HEADER2" ->
         IF byte = HEADER2 THEN Look("RECEIVE_DATA", <<HEADER1, HEADER2>>)
         ELSE Look("WAIT_FOR_HEADER1", <<>>)
    [] st = "RECEIVE_DATA" /\ Len(buf) + 1 < length -> Look(st, Append(buf, byte))
    [] OTHER -> [st |-> "WAIT_FOR_HEADER1", buf |-> <<>>, packet |-> Append(buf, byte)]

\* receive_packet and receivePacket: one byte, and the packet it completes.
Parse(st, buf, byte, length) ==
  CASE st = "WAIT_FOR_HEADER1" ->
         Look(IF byte = HEADER1 THEN "WAIT_FOR_HEADER2" ELSE st, <<>>)
    [] st = "WAIT_FOR_HEADER2" ->
         IF byte = HEADER2 THEN Look("RECEIVE_DATA", <<HEADER1, HEADER2>>)
         ELSE Look("WAIT_FOR_HEADER1", <<>>)
    [] st = "RECEIVE_DATA" /\ Len(buf) + 1 < length -> Look(st, Append(buf, byte))
    [] OTHER -> IF Valid(Append(buf, byte))
                THEN [st |-> "WAIT_FOR_HEADER1", buf |-> <<>>,
                      packet |-> Append(buf, byte)]
                ELSE Look("WAIT_FOR_HEADER1", <<>>)

Init ==
  /\ toBoard = <<>> /\ toPC = <<>>
  /\ receive_state = "WAIT_FOR_HEADER1" /\ rx_buffer_ = <<>>
  /\ hw_commands_ \in Command /\ hw_positions_ = <<Position(0)>>
  /\ state = "WAIT_FOR_HEADER1" /\ buffer = <<>> /\ rx_data = <<{}, {}>>
  /\ pass = "wait" /\ left_count = 0 /\ prev_left = 0 /\ last = 0 /\ diff = 0
  /\ wrong = FALSE /\ plain = TRUE /\ noise = 0 /\ changes = 0
-----------------------------------------------------------------------------
(***************************************************************************)
(* The plugin.                                                             *)
(***************************************************************************)
\* The controller writes other commands into the command interfaces.
Steer(command) ==
  /\ changes < MaxChanges
  /\ hw_commands_' = command
  /\ changes' = changes + 1
  /\ UNCHANGED <<toBoard, toPC, pluginVars, boardVars, loopVars, left_count,
                 history, noise>>

\* write(): one packet of the commands.
write ==
  /\ Len(toBoard) + CommandLength <= CommandBytes
  /\ toBoard' = toBoard \o Sent(hw_commands_)
  /\ plain' = (plain /\ Plain(hw_commands_))
  /\ UNCHANGED <<toPC, pluginVars, hw_commands_, boardVars, loopVars, left_count,
                 wrong, counters>>

\* read(): the next byte; a packet it completes becomes the state.
read ==
  /\ toPC # <<>>
  /\ LET at == Head(toPC)
         r == Parse(receive_state, rx_buffer_, at.byte, StatusLength)
     IN /\ receive_state' = r.st /\ rx_buffer_' = r.buf
        /\ IF r.packet = None THEN UNCHANGED <<hw_positions_, wrong>>
           ELSE /\ hw_positions_' = Payload(r.packet)
                /\ wrong' = (wrong \/ ~WasSent(r.packet, at))
  /\ toPC' = Tail(toPC)
  /\ UNCHANGED <<toBoard, hw_commands_, boardVars, loopVars, left_count, plain,
                 counters>>
-----------------------------------------------------------------------------
(***************************************************************************)
(* The firmware.                                                           *)
(***************************************************************************)
\* An encoder interrupt.
leftEncoder ==
  /\ changes < MaxChanges
  /\ left_count' = left_count + 1
  /\ changes' = changes + 1
  /\ UNCHANGED <<toBoard, toPC, pluginVars, hw_commands_, boardVars, loopVars,
                 history, noise>>

\* loop(), 50 ms after last_time: the counts are sampled and prev_left moves on
\* before a command is looked for.
loop ==
  /\ pass = "wait"
  /\ diff' = left_count - prev_left
  /\ prev_left' = left_count
  /\ pass' = "receive"
  /\ UNCHANGED <<toBoard, toPC, pluginVars, hw_commands_, boardVars, last,
                 left_count, history, counters>>

\* receivePacket: the next byte; a packet it completes ends the loop.
receivePacket ==
  /\ pass = "receive" /\ toBoard # <<>>
  /\ LET at == Head(toBoard)
         r == Parse(state, buffer, at.byte, CommandLength)
     IN /\ state' = r.st /\ buffer' = r.buf
        /\ IF r.packet = None THEN UNCHANGED <<rx_data, pass, wrong>>
           ELSE /\ rx_data' = Payload(r.packet)
                /\ wrong' = (wrong \/ ~WasSent(r.packet, at))
                /\ pass' = "answer"
  /\ toBoard' = Tail(toBoard)
  /\ UNCHANGED <<toPC, pluginVars, hw_commands_, prev_left, last, diff,
                 left_count, plain, counters>>

\* No byte is left and no packet complete: the pass returns, last_time stays.
NoCommand ==
  /\ pass = "receive" /\ toBoard = <<>>
  /\ pass' = "wait" /\ diff' = 0
  /\ UNCHANGED <<toBoard, toPC, pluginVars, hw_commands_, boardVars, prev_left,
                 last, left_count, history, counters>>

\* Mutant: the status has the counts of this pass, not those since the start.
AnswerDiff ==
  /\ pass = "answer" /\ Len(toPC) + StatusLength <= StatusBytes
  /\ toPC' = toPC \o Sent(<<Position(diff)>>)
  /\ last' = prev_left
  /\ pass' = "wait" /\ diff' = 0
  /\ plain' = (plain /\ Plain(<<Position(diff)>>))
  /\ UNCHANGED <<toBoard, pluginVars, hw_commands_, boardVars, prev_left,
                 left_count, wrong, counters>>

\* The motors are set, the status is sent and last_time moves on.
Answer ==
  /\ pass = "answer" /\ Len(toPC) + StatusLength <= StatusBytes
  /\ toPC' = toPC \o Sent(<<Position(prev_left)>>)
  /\ last' = prev_left
  /\ pass' = "wait" /\ diff' = 0
  /\ plain' = (plain /\ Plain(<<Position(prev_left)>>))
  /\ UNCHANGED <<toBoard, pluginVars, hw_commands_, boardVars, prev_left,
                 left_count, wrong, counters>>
-----------------------------------------------------------------------------
Damaged(line) ==
  {RemoveAt(line, i) : i \in DOMAIN line}
    \cup {[line EXCEPT ![i].byte = b] : i \in DOMAIN line, b \in Byte}

\* The line loses a byte or changes it.
Noise ==
  /\ noise < MaxNoise
  /\ noise' = noise + 1
  /\ \/ toBoard' \in Damaged(toBoard) /\ UNCHANGED toPC
     \/ toPC' \in Damaged(toPC) /\ UNCHANGED toBoard
  /\ UNCHANGED <<pluginVars, hw_commands_, boardVars, loopVars, left_count,
                 history, changes>>

Next ==
  \/ \E command \in Command : Steer(command)
  \/ write \/ read
  \/ leftEncoder \/ loop \/ receivePacket \/ NoCommand \/ Answer
  \/ Noise

Spec == Init /\ [][Next]_vars

\* The controller manager calls read and write in every cycle and loop() runs for
\* ever; commands, counts and noise come or not.
FairSpec ==
  Spec /\ WF_vars(write) /\ WF_vars(read)
       /\ WF_vars(loop \/ receivePacket \/ NoCommand \/ Answer)
-----------------------------------------------------------------------------
\* The checksum protects a line that has not been damaged, or whose packets have
\* their headers to themselves.  A payload without a header byte may still have one
\* as its checksum, and then a parser that has lost a byte may take it for the
\* beginning of a packet, again and again as long as the same command stands.
Trusted == plain \/ noise = 0

\* Every packet that either end accepts is one the other end sent, taken at its
\* last byte and so whole and once, also after a byte has been lost or changed in
\* the middle of a stream of packets (receive_packet, receivePacket: the
\* resynchronisation on the headers and the checksum).
AcceptedWasSent == Trusted => ~wrong

\* Whatever was lost, the board comes to follow the commands that stand in the
\* plugin, and the plugin comes to show the board's position: where the checksum is
\* trusted neither parser locks itself out, whatever it holds of a damaged packet
\* and whatever commands still stand on the line.
Settled == rx_data = hw_commands_ /\ hw_positions_ = <<Position(left_count)>>
LinkSettles == <>[](Trusted => Settled)

\* micro_ros_client.ino:234 calls the velocity of a status an angular velocity in
\* rad/s: the counts it is computed from are those of the time it is divided by.
\* They are not, when a pass found no command: prev_left has moved, last_time has
\* not.
VelocityIsRate == pass = "answer" => diff = prev_left - last
=============================================================================
