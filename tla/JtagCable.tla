------------------------------ MODULE JtagCable ------------------------------
(***************************************************************************)
(* What a remote bit-bang server promises its clients, who come one after  *)
(* the other: the commands of a connection act on the TAP in the order in  *)
(* which they were sent, each once and at once, and a read is answered with*)
(* the TDO that the commands before it leave.  A connection may end after  *)
(* any command, and what a client that left has sent may be lost with it.  *)
(***************************************************************************)
EXTENDS Tap, Sequences, SequencesExt

CONSTANTS
  Levels,      \* <<tck, tms, tdi>> a client writes
  MaxSent,     \* bound: commands of a connection
  MaxClients   \* bound: connections

VARIABLES
  conns,     \* connections: [line, replies, gone, sent], the one served first
  clients,   \* connections there have been
  pins,      \* TCK, TMS, TDI
  tap        \* the TAP

vars == <<conns, clients, pins, tap>>

\* 'R', 'Q', and what has no effect; a write is its levels.
Read  == <<"read">>
Quit  == <<"quit">>
Other == <<"other">>

Commands == Levels \cup {Read, Quit, Other}

Init == conns = <<>> /\ clients = 0 /\ pins = <<1, 1, 1>> /\ tap \in Taps

-----------------------------------------------------------------------------
(* The client: one at a time, it may send before it is accepted.            *)

Client == Len(conns)   \* the connection of the client that is there

Connect ==
  /\ clients < MaxClients
  /\ conns = <<>> \/ (Client = 1 /\ conns[1].gone)
  /\ clients' = clients + 1
  /\ conns' = Append(conns, [line |-> <<>>, replies |-> <<>>, gone |-> FALSE, sent |-> 0])
  /\ UNCHANGED <<pins, tap>>

\* A client sends nothing behind its quit.
Send ==
  /\ conns # <<>> /\ ~conns[Client].gone /\ conns[Client].sent < MaxSent
  /\ Quit \notin ToSet(conns[Client].line)
  /\ \E c \in Commands :
       conns' = [conns EXCEPT ![Client].line = Append(@, c), ![Client].sent = @ + 1]
  /\ UNCHANGED <<clients, pins, tap>>

Receive ==
  /\ conns # <<>> /\ ~conns[Client].gone /\ conns[Client].replies # <<>>
  /\ conns' = [conns EXCEPT ![Client].replies = Tail(@)]
  /\ UNCHANGED <<clients, pins, tap>>

Leave ==
  /\ conns # <<>> /\ ~conns[Client].gone
  /\ conns' = [conns EXCEPT ![Client].gone = TRUE]
  /\ UNCHANGED <<clients, pins, tap>>

Behave == Connect \/ Send \/ Receive \/ Leave

-----------------------------------------------------------------------------
(* The cable *)

Answered(c) ==
  [c EXCEPT !.line = Tail(@),
            !.replies = IF Head(c.line) = Read THEN Append(@, tap.tdo) ELSE @]

Served == [conns EXCEPT ![1] = Answered(@)]

Serve ==
  /\ conns # <<>> /\ conns[1].line # <<>>
  /\ conns' \in {Served, Tail(conns)}
  /\ LET c == Head(conns[1].line) IN
       /\ pins' = IF c \in Levels THEN c ELSE pins
       /\ tap' = TapAfter(tap, pins, pins')
  /\ UNCHANGED clients

Next == Behave \/ Serve

Spec == Init /\ [][Next]_vars
=============================================================================
