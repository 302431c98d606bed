---------------------------- MODULE RemoteBitbang ----------------------------
(***************************************************************************)
(* The remote bit-bang server of the testbench (tb_lib/remote_bitbang) and *)
(* the SimJTAG module that calls it.  Every TickDelay + 1 clocks SimJTAG   *)
(* calls jtag_tick; a call accepts a client or executes one command, and   *)
(* polls without end as long as there is neither: the simulator stands     *)
(* still meanwhile.  Between the clocks the TAP follows the pins, after at *)
(* most TapClocks of them.  Clients connect, send, and leave at any time,  *)
(* also without a quit; the kernel keeps what they have sent.              *)
(***************************************************************************)
EXTENDS Tap, Sequences, SequencesExt

CONSTANTS Levels, MaxSent, MaxClients,   \* as in JtagCable
          TickDelay, TapClocks

ASSUME LevelsAssumption == Levels \subseteq {0, 1} \X {0, 1} \X {0, 1}
ASSUME DelayAssumption == TickDelay \in Nat /\ TapClocks \in 0..TickDelay

VARIABLES
  conns, clients,  \* the connections, as in JtagCable
  fd,              \* client_fd > 0
  pins,            \* tck, tms, tdi
  quit,
  pc,              \* "clock", a poll of jtag_tick, "accept" or "read", or "aborted"
  tdo,             \* what jtag_tick was called with
  ticks,           \* tickCounterReg
  wires,           \* __jtag_TCK, __jtag_TMS, __jtag_TDI
  seen, tap, age   \* the TAP: pins it has followed, its state, clocks it lags

client == <<conns, clients>>
server == <<fd, pins, quit, tdo>>
jtag   == <<seen, tap, age>>
vars   == <<client, server, pc, ticks, wires, jtag>>

\* In the cable's eyes the TAP has followed the pins.
Cable == INSTANCE JtagCable WITH tap <- TapAfter(tap, seen, pins)

Init ==
  /\ conns = <<>> /\ clients = 0
  /\ fd = FALSE /\ pins = <<1, 1, 1>> /\ quit = FALSE /\ tdo = 0
  /\ pc = "clock" /\ ticks = TickDelay
  /\ wires = <<0, 0, 0>> /\ seen = wires /\ tap \in Taps /\ age = 0

-----------------------------------------------------------------------------
(* SimJTAG *)

\* Faults: the counter calls in every clock, or never counts.
TickCounterNxtNoDelay == 0
TickCounterNxtStays   == IF ticks = 0 THEN TickDelay ELSE ticks

TickCounterNxt == IF ticks = 0 THEN TickDelay ELSE ticks - 1

Lags == seen # wires

Clock ==
  /\ pc = "clock"
  /\ Lags => age < TapClocks
  /\ ticks' = TickCounterNxt
  /\ age' = IF Lags THEN age + 1 ELSE 0
  /\ IF ticks = 0
     THEN /\ tdo' = IF fd THEN tap.tdo ELSE tdo
          /\ pc' = IF fd THEN "read" ELSE "accept"
     ELSE UNCHANGED <<tdo, pc>>
  /\ UNCHANGED <<client, fd, pins, quit, wires, seen, tap>>

Follow ==
  /\ pc = "clock" /\ Lags
  /\ seen' = wires /\ age' = 0
  /\ tap' = TapAfter(tap, seen, wires)
  /\ UNCHANGED <<client, server, pc, ticks, wires>>

\* rbs_tick hands the pins over on its way out.
Return == pc' = "clock" /\ wires' = pins'

-----------------------------------------------------------------------------
(* remote_bitbang.c *)

\* rbs_accept: accept() until there is a client.
Accept ==
  /\ pc = "accept" /\ conns # <<>>
  /\ fd' = TRUE
  /\ UNCHANGED <<client, pins, quit, tdo, ticks, jtag>>
  /\ Return

\* read() returned 0: the client has left, but client_fd stays.
ReadNothing ==
  /\ pc = "read" /\ conns[1].gone /\ conns[1].line = <<>>
  /\ UNCHANGED <<client, server, ticks, jtag>>
  /\ Return

Executed(c) ==
  [c EXCEPT !.line = Tail(@),
            !.replies = IF Head(c.line) = Cable!Read THEN Append(@, tdo) ELSE @]

\* Fault: a quit keeps client_fd, and with it the client.
ExecuteCommandKeepsClient ==
  /\ pc = "read" /\ conns[1].line # <<>>
  /\ LET c == Head(conns[1].line) IN
       /\ pins' = IF c \in Levels THEN c ELSE pins
       /\ quit' = (quit \/ c = Cable!Quit)
  /\ conns' = [conns EXCEPT ![1] = Executed(@)]
  /\ Return
  /\ UNCHANGED <<clients, fd, tdo, ticks, jtag>>

\* Once there was a quit, every later connection ends with its first command.
\* The resets 'r', 's', 't' and 'u' and what is not supported do nothing.
ExecuteCommand ==
  /\ pc = "read" /\ conns[1].line # <<>>
  /\ LET c == Head(conns[1].line) IN
       /\ pins' = IF c \in Levels THEN c ELSE pins
       /\ quit' = (quit \/ c = Cable!Quit)
  /\ conns' = IF quit' THEN Tail(conns) ELSE [conns EXCEPT ![1] = Executed(@)]
  /\ fd' = ~quit'
  /\ Return
  /\ UNCHANGED <<clients, tdo, ticks, jtag>>

\* read() or write() fails because the client left with answers under way.
Abort ==
  /\ pc = "read" /\ conns[1].gone
  /\ conns[1].replies # <<>> \/ (conns[1].line # <<>> /\ Head(conns[1].line) = Cable!Read)
  /\ pc' = "aborted"
  /\ UNCHANGED <<client, server, ticks, wires, jtag>>

Behave == UNCHANGED <<fd, quit, pc, tdo, ticks, wires, jtag>> /\ Cable!Behave

RbsTick == Accept \/ ReadNothing \/ ExecuteCommand

Next == Clock \/ Follow \/ RbsTick \/ Abort \/ Behave

Spec == Init /\ [][Next]_vars

\* The simulator runs, and so does a poll; a client may be silent for ever.
FairSpec == Spec /\ WF_vars(Clock \/ Follow) /\ WF_vars(RbsTick)

-----------------------------------------------------------------------------
(* Properties *)

\* One command in a call leaves the simulation the time the TAP needs: what
\* clients see is a cable on which every command acts at once and in order,
\* although the TDO of an answer is sampled before its command is read.
CableIsTransparent == Cable!Spec

Unread == conns # <<>> /\ conns[1].line # <<>>

\* Until the first quit every command sent is executed, also those of a client
\* that did not wait to be accepted or has left, unless the server aborted.
Drained == Unread /\ ~quit ~> conns = <<>> \/ ~Unread \/ quit \/ pc = "aborted"

Leaving == conns # <<>> /\ Cable!Quit \in ToSet(conns[1].line)

\* A client that said quit makes room for the next one, also when it left
\* before the server read it.
MakesRoom == Leaving /\ Len(conns) = 2 ~> Len(conns) < 2 \/ pc = "aborted"

=============================================================================
