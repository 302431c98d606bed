------------------------- MODULE RemoteBitbangProofs -------------------------
(* Proofs about RemoteBitbang for every set of levels, every number of      *)
(* clients and every delay that leaves the TAP its clocks.                  *)
EXTENDS RemoteBitbang, SequenceTheorems, TLAPS

USE DelayAssumption, LevelsAssumption

Triples == {0, 1} \X {0, 1} \X {0, 1}
Conn == [line: Seq(Cable!Commands), replies: Seq({0, 1}), gone: BOOLEAN, sent: Nat]

TypeOK ==
  /\ conns \in Seq(Conn) /\ clients \in Nat
  /\ fd \in BOOLEAN /\ quit \in BOOLEAN
  /\ pins \in Triples /\ wires \in Triples /\ seen \in Triples
  /\ pc \in {"clock", "accept", "read", "aborted"}
  /\ tdo \in {0, 1} /\ tap \in Taps
  /\ ticks \in 0..TickDelay /\ age \in Nat

\* What the TAP sees is what the server last handed over; before the first
\* client that is the wires' reset value.
Handed == wires = pins \/ (wires = seen /\ ~fd)

\* The TAP follows the wires within its clocks, counted from the call that
\* changed them; so a call never comes while it lags.
InTime ==
  /\ ~Lags => age = 0
  /\ Lags => pc = "clock" /\ age <= TapClocks /\ age + ticks = TickDelay
  /\ pc # "clock" => ticks = TickDelay

\* A call polls for what there is: a command of the client, or a client.
Polls ==
  /\ fd => conns # <<>>
  /\ pc = "read" => fd /\ tdo = tap.tdo

LinkIInv == TypeOK /\ Handed /\ InTime /\ Polls

LEMMA NoEdge ==
  ASSUME NEW t, NEW p
  PROVE  TapAfter(t, p, p) = t
BY DEF TapAfter

\* While no clock is due the cable's TAP is the TAP, and it does not move.
LEMMA CableTap ==
  ASSUME LinkIInv, pc # "clock", fd
  PROVE  seen = pins /\ TapAfter(tap, seen, pins) = tap
BY NoEdge DEF LinkIInv, Handed, InTime, Lags

LEMMA InitLinkIInv == Init => LinkIInv
<1> SUFFICES ASSUME Init PROVE LinkIInv
  OBVIOUS
<1>1. conns \in Seq(Conn)
  BY EmptySeq DEF Init
<1>2. <<1, 1, 1>> \in Triples /\ <<0, 0, 0>> \in Triples
  BY DEF Triples
<1>3. TypeOK
  <2>1. fd \in BOOLEAN /\ quit \in BOOLEAN
    BY DEF Init
  <2>2. pins \in Triples /\ wires \in Triples /\ seen \in Triples
    BY <1>2 DEF Init
  <2>3. ticks \in 0..TickDelay
    BY DEF Init
  <2>4. QED
    BY <1>1, <2>1, <2>2, <2>3 DEF Init, TypeOK
<1>4. seen = wires /\ age = 0 /\ fd = FALSE /\ pc = "clock"
  BY DEF Init
<1>5. QED
  BY <1>3, <1>4 DEF LinkIInv, Handed, InTime, Polls, Lags

LEMMA TapType ==
  ASSUME NEW t \in Taps, NEW p \in Triples, NEW q \in Triples
  PROVE  TapAfter(t, p, q) \in Taps
BY DEF Taps, Triples, TapAfter

(***************************************************************************)
(* One lemma for each side: the clocks of the simulation,                  *)
(***************************************************************************)
LEMMA ClockLinkIInv ==
  ASSUME LinkIInv, Clock
  PROVE  LinkIInv'
<1> USE DEF LinkIInv
<1>1. /\ pc = "clock" /\ UNCHANGED <<conns, clients, quit, fd, pins, wires, seen, tap>>
      /\ ticks' = TickCounterNxt /\ age' = IF Lags THEN age + 1 ELSE 0
      /\ Lags => age < TapClocks
  BY DEF Clock, client
<1>2. Lags' = Lags /\ ticks \in 0..TickDelay /\ age \in Nat
  BY <1>1 DEF Lags, TypeOK
<1>3. CASE ticks = 0
  <2>1. ~Lags
    BY <1>1, <1>2, <1>3 DEF InTime
  <2>2. ticks' = TickDelay /\ age' = 0
    BY <1>1, <1>3, <2>1 DEF TickCounterNxt
  <2>3. pc' = (IF fd THEN "read" ELSE "accept") /\ tdo' = IF fd THEN tap.tdo ELSE tdo
    BY <1>3 DEF Clock
  <2>4. TypeOK'
    BY <1>1, <2>2, <2>3 DEF TypeOK, Taps
  <2>5. Handed' /\ InTime' /\ Polls'
    BY <1>1, <1>2, <2>1, <2>2, <2>3 DEF Handed, InTime, Polls
  <2>6. QED
    BY <2>4, <2>5
<1>4. CASE ticks # 0
  <2>1. pc' = pc /\ tdo' = tdo /\ ticks' = ticks - 1
    BY <1>1, <1>4 DEF Clock, TickCounterNxt
  <2>2. TypeOK'
    BY <1>1, <1>2, <1>4, <2>1 DEF TypeOK
  <2>3. Handed' /\ InTime' /\ Polls'
    BY <1>1, <1>2, <1>4, <2>1 DEF Handed, InTime, Polls
  <2>4. QED
    BY <2>2, <2>3
<1>5. QED
  BY <1>3, <1>4

LEMMA FollowLinkIInv ==
  ASSUME LinkIInv, Follow
  PROVE  LinkIInv'
<1>1. /\ UNCHANGED <<conns, clients, fd, pins, quit, tdo, pc, ticks, wires>>
      /\ pc = "clock" /\ Lags /\ seen' = wires /\ age' = 0
      /\ tap' = TapAfter(tap, seen, wires)
  BY DEF Follow, client, server
<1>2. tap' \in Taps
  BY <1>1, TapType DEF LinkIInv, TypeOK
<1>3. QED
  BY <1>1, <1>2 DEF LinkIInv, TypeOK, Handed, InTime, Polls, Lags

(***************************************************************************)
(* the calls of the server,                                                *)
(***************************************************************************)
LEMMA ExecutedType ==
  ASSUME TypeOK, NEW c \in Conn, c.line # <<>>
  PROVE  Executed(c) \in Conn
<1>1. Tail(c.line) \in Seq(Cable!Commands)
  BY HeadTailProperties DEF Conn
<1>2. (IF Head(c.line) = Cable!Read THEN Append(c.replies, tdo) ELSE c.replies) \in Seq({0, 1})
  BY AppendProperties DEF Conn, TypeOK
<1>3. QED
  BY <1>1, <1>2 DEF Executed, Conn

LEMMA RbsTickLinkIInv ==
  ASSUME LinkIInv, RbsTick
  PROVE  LinkIInv'
<1> USE DEF LinkIInv
<1>1. /\ pc \in {"accept", "read"} /\ pc' = "clock" /\ wires' = pins'
      /\ UNCHANGED <<clients, tdo, ticks, seen, tap, age>>
  BY DEF RbsTick, Accept, ReadNothing, ExecuteCommand, Return, jtag, client, server
<1>2. ~Lags /\ age = 0 /\ ticks = TickDelay
  BY <1>1 DEF InTime
<1>3. Handed' /\ InTime'
  BY <1>1, <1>2 DEF Handed, InTime, Lags, TypeOK
<1>4. CASE Accept \/ ReadNothing
  <2>1. conns' = conns /\ pins' = pins /\ quit' = quit /\ fd' \in {fd, TRUE}
    BY <1>4 DEF Accept, ReadNothing, client, server
  <2>2. fd' \in BOOLEAN /\ (fd' => conns' # <<>>)
    BY <1>4 DEF Accept, ReadNothing, client, server, Polls, TypeOK
  <2>3. QED
    BY <1>1, <1>3, <2>1, <2>2 DEF TypeOK, Polls
<1>5. CASE ExecuteCommand
  <2> DEFINE c == conns[1]
  <2>1. /\ conns # <<>> /\ c.line # <<>> /\ fd' = ~quit'
        /\ pins' = IF Head(c.line) \in Levels THEN Head(c.line) ELSE pins
        /\ quit' = (quit \/ Head(c.line) = Cable!Quit)
        /\ conns' = IF quit' THEN Tail(conns) ELSE [conns EXCEPT ![1] = Executed(c)]
    BY <1>5 DEF ExecuteCommand, Polls
  <2>2. c \in Conn /\ 1 \in 1..Len(conns) /\ Executed(c) \in Conn
    <3>1. 1 \in 1..Len(conns) /\ c \in Conn
      BY <2>1 DEF TypeOK
    <3>2. QED
      BY <2>1, <3>1, ExecutedType
  <2>3. conns' \in Seq(Conn) /\ (~quit' => Len(conns') = Len(conns))
    BY <2>1, <2>2, HeadTailProperties, ExceptSeq DEF TypeOK
  <2>4. ASSUME fd' PROVE conns' # <<>>
    <3>1. ~quit'
      BY <2>1, <2>4
    <3>2. Len(conns') \in Nat \ {0}
      BY <2>2, <2>3, <3>1
    <3>3. QED
      BY <3>2
  <2>5. pins' \in Triples
    BY <2>1 DEF TypeOK, Triples
  <2>6. quit' \in BOOLEAN /\ fd' \in BOOLEAN
    BY <2>1
  <2>7. QED
    BY <1>1, <1>3, <2>3, <2>4, <2>5, <2>6 DEF TypeOK, Polls
<1>6. QED
  BY <1>4, <1>5 DEF RbsTick

(***************************************************************************)
(* the client,                                                             *)
(***************************************************************************)
LEMMA BehaveLinkIInv ==
  ASSUME LinkIInv, Behave
  PROVE  LinkIInv'
<1> USE DEF LinkIInv
<1>1. UNCHANGED <<fd, pins, quit, pc, tdo, ticks, wires, seen, tap, age>>
  BY DEF Behave, jtag, Cable!Behave, Cable!Connect, Cable!Send, Cable!Receive, Cable!Leave
<1>2. clients' \in Nat /\ conns' \in Seq(Conn) /\ conns' # <<>>
  <2> USE DEF TypeOK
  <2>1. CASE Cable!Connect
    <3>1. [line |-> <<>>, replies |-> <<>>, gone |-> FALSE, sent |-> 0] \in Conn
      BY EmptySeq DEF Conn
    <3>2. QED
      BY <2>1, <3>1, AppendProperties DEF Cable!Connect
  <2>2. ASSUME clients' = clients, conns # <<>>,
               NEW x \in Conn, conns' = [conns EXCEPT ![Len(conns)] = x]
        PROVE  clients' \in Nat /\ conns' \in Seq(Conn) /\ conns' # <<>>
    <3>1. Len(conns) \in 1..Len(conns)
      BY <2>2
    <3>2. conns' \in Seq(Conn) /\ Len(conns') = Len(conns)
      BY <2>2, <3>1, ExceptSeq
    <3>3. QED
      BY <2>2, <3>1, <3>2
  <2>3. CASE Cable!Send
    <3>1. conns # <<>> /\ conns[Len(conns)] \in Conn
      BY <2>3 DEF Cable!Send
    <3> DEFINE k == conns[Len(conns)]
    <3>2. PICK c \in Cable!Commands :
            conns' = [conns EXCEPT ![Len(conns)] = [k EXCEPT !.line = Append(k.line, c),
                                                             !.sent = k.sent + 1]]
      BY <2>3 DEF Cable!Send, Cable!Client
    <3>3. [k EXCEPT !.line = Append(k.line, c), !.sent = k.sent + 1] \in Conn
      <4>1. Append(k.line, c) \in Seq(Cable!Commands)
        BY <3>1, AppendProperties DEF Conn
      <4> HIDE DEF k
      <4>2. k \in Conn /\ k.sent + 1 \in Nat
        BY <3>1 DEF k, Conn
      <4>3. QED
        BY <4>1, <4>2 DEF Conn
    <3>4. QED
      BY <2>2, <2>3, <3>1, <3>2, <3>3 DEF Cable!Send
  <2>4. CASE Cable!Receive
    <3>1. conns # <<>> /\ conns[Len(conns)] \in Conn
      BY <2>4 DEF Cable!Receive
    <3> DEFINE k == conns[Len(conns)]
    <3>2. /\ k.replies # <<>>
          /\ conns' = [conns EXCEPT ![Len(conns)] = [k EXCEPT !.replies = Tail(k.replies)]]
      BY <2>4 DEF Cable!Receive, Cable!Client
    <3>3. [k EXCEPT !.replies = Tail(k.replies)] \in Conn
      BY <3>1, <3>2, HeadTailProperties DEF Conn
    <3>4. QED
      BY <2>2, <2>4, <3>1, <3>2, <3>3 DEF Cable!Receive
  <2>5. CASE Cable!Leave
    <3>1. conns # <<>> /\ conns[Len(conns)] \in Conn
      BY <2>5 DEF Cable!Leave
    <3> DEFINE k == conns[Len(conns)]
    <3>2. conns' = [conns EXCEPT ![Len(conns)] = [k EXCEPT !.gone = TRUE]]
      BY <2>5 DEF Cable!Leave, Cable!Client
    <3>3. [k EXCEPT !.gone = TRUE] \in Conn
      BY <3>1 DEF Conn
    <3>4. QED
      BY <2>2, <2>5, <3>1, <3>2, <3>3 DEF Cable!Leave
  <2>6. QED
    BY <2>1, <2>3, <2>4, <2>5 DEF Behave, Cable!Behave
<1>3. QED
  BY <1>1, <1>2 DEF TypeOK, Handed, InTime, Polls, Lags

(***************************************************************************)
(* and an abort, which leaves the link alone.                              *)
(***************************************************************************)
LEMMA AbortLinkIInv ==
  ASSUME LinkIInv, Abort \/ UNCHANGED vars
  PROVE  LinkIInv'
<1>1. UNCHANGED <<conns, clients, fd, pins, quit, tdo, ticks, wires, seen, tap, age>>
  BY DEF Abort, vars, client, server, jtag
<1>2. pc' = pc \/ (pc = "read" /\ pc' = "aborted")
  BY DEF Abort, vars
<1>3. QED
  BY <1>1, <1>2 DEF LinkIInv, TypeOK, Handed, InTime, Polls, Lags

LEMMA LinkIInvHolds == Spec => []LinkIInv
<1>1. LinkIInv /\ [Next]_vars => LinkIInv'
  BY ClockLinkIInv, FollowLinkIInv, RbsTickLinkIInv, BehaveLinkIInv, AbortLinkIInv DEF Next
<1>2. QED
  BY <1>1, InitLinkIInv, PTL DEF Spec

-----------------------------------------------------------------------------
(***************************************************************************)
(* A command the server executes is a command the cable serves: the TDO it *)
(* answers with was sampled before, but the TAP has not moved since.       *)
(***************************************************************************)
LEMMA ExecuteIsServe ==
  ASSUME LinkIInv, ExecuteCommand
  PROVE  Cable!Serve
<1>1. pc = "read" /\ fd /\ conns[1].line # <<>> /\ conns # <<>> /\ tdo = tap.tdo
  BY DEF ExecuteCommand, LinkIInv, Polls
<1>2. seen = pins /\ TapAfter(tap, seen, pins) = tap /\ UNCHANGED <<seen, tap, clients>>
  BY <1>1, CableTap DEF ExecuteCommand, jtag
<1>3. TapAfter(tap', seen', pins') = Cable!TapAfter(TapAfter(tap, seen, pins), pins, pins')
  BY <1>2 DEF TapAfter, Cable!TapAfter
<1>4. Executed(conns[1]) = Cable!Answered(conns[1])
  BY <1>1, <1>2 DEF Executed, Cable!Answered
<1>5. conns' \in {Cable!Served, Tail(conns)}
  BY <1>4 DEF ExecuteCommand, Cable!Served
<1>6. pins' = IF Head(conns[1].line) \in Levels THEN Head(conns[1].line) ELSE pins
  BY DEF ExecuteCommand
<1>7. QED
  BY <1>1, <1>2, <1>3, <1>5, <1>6 DEF Cable!Serve

(***************************************************************************)
(* Clients see a cable on which every command acts at once and in order.   *)
(***************************************************************************)
THEOREM ServerIsCable == Spec => CableIsTransparent
<1>1. Init => Cable!Init
  <2> SUFFICES ASSUME Init PROVE Cable!Init
    OBVIOUS
  <2>1. TapAfter(tap, seen, pins) \in Cable!Taps
    BY DEF Init, TapAfter, Taps, Cable!Taps
  <2>2. QED
    BY <2>1 DEF Init, Cable!Init
<1>2. LinkIInv /\ [Next]_vars => [Cable!Next]_(Cable!vars)
  <2> SUFFICES ASSUME LinkIInv, [Next]_vars PROVE [Cable!Next]_(Cable!vars)
    OBVIOUS
  <2>1. CASE Behave
    BY <2>1 DEF Behave, Cable!Next
  <2>2. CASE ExecuteCommand
    BY <2>2, ExecuteIsServe DEF Cable!Next
  <2>3. CASE Clock \/ Accept \/ ReadNothing \/ Abort \/ UNCHANGED vars
    <3>1. UNCHANGED <<conns, clients, pins, seen, tap>>
      BY <2>3 DEF Clock, Accept, ReadNothing, Abort, vars, client, server, jtag
    <3>2. QED
      BY <3>1 DEF Cable!vars
  <2>4. CASE Follow
    <3>1. /\ UNCHANGED <<conns, clients, pins>> /\ seen' = wires /\ seen # wires
          /\ tap' = TapAfter(tap, seen, wires)
      BY <2>4 DEF Follow, client, server, Lags
    <3>2. wires = pins
      BY <3>1 DEF LinkIInv, Handed
    <3>3. TapAfter(tap', seen', pins') = TapAfter(tap, seen, pins)
      BY <3>1, <3>2, NoEdge
    <3>4. QED
      BY <3>1, <3>3 DEF Cable!vars
  <2>5. QED
    BY <2>1, <2>2, <2>3, <2>4 DEF Next, RbsTick
<1>3. QED
  BY <1>1, <1>2, LinkIInvHolds, PTL DEF Spec, CableIsTransparent, Cable!Spec

=============================================================================
