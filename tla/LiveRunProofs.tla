--------------------------- MODULE LiveRunProofs ----------------------------
(***************************************************************************)
(* Proofs about LiveRun: its types, that the list of active gaps follows   *)
(* the streams for any capacity of the channels and any number of attempts *)
(* and slots, and what the trades of a run never do.                       *)
(***************************************************************************)
EXTENDS LiveRun, TLAPS

-----------------------------------------------------------------------------
(* Types. *)

(* The events sent are events. *)
LEMMA EventsType ==
  /\ GapEvent("Outage") \in Events /\ GapEvent("MissingSlots") \in Events
  /\ Recovery \in Events
  /\ \A m \in Mints : Trade(m) \in Events
  /\ \A e \in Events : e.kind = "Trade" => e.mint \in Mints
  /\ \A e \in Events : e.kind \in {"Outage", "MissingSlots", "Recovery", "Trade"}
BY DEF Events, GapEvent, Recovery, Trade, Causes

(* An event sent leaves the channels within their capacity. *)
LEMMA SendType ==
  ASSUME StreamsTypeOK, NEW s \in Sources, NEW e \in Events, Send(s, e)
  PROVE  /\ channel' \in [Sources -> Seq(Events)]
         /\ \A t \in Sources : Len(channel'[t]) <= ChannelCapacity
<1>1. /\ channel[s] \in Seq(Events)
      /\ Append(channel[s], e) \in Seq(Events)
      /\ Len(Append(channel[s], e)) = Len(channel[s]) + 1
  BY DEF StreamsTypeOK
<1>2. channel' = [channel EXCEPT ![s] = Append(channel[s], e)]
  BY DEF Send
<1>3. Len(channel[s]) + 1 <= ChannelCapacity
  BY <1>1, LiveRunAssumption DEF Send
<1> QED
  BY <1>1, <1>2, <1>3 DEF StreamsTypeOK

(* The trading part keeps its types, and its lifecycles are lifecycles. *)
LEMMA TradeType ==
  ASSUME TradingTypeOK, NEW m \in Mints, NEW tentative, NEW blocked,
         NEW discard \in Discards, NEW signal \in Signals,
         HandleTrade(m, tentative, blocked, discard, signal)
  PROVE  TradingTypeOK'
<1> DEFINE seen  == Recomputed(lifecycle[m])
           token == RiskTerminal(seen, tentative, discard)
<1>1. seen \in Lifecycles
  BY DEF TradingTypeOK, Recomputed, Lifecycles
<1>2. token \in Lifecycles
  BY <1>1 DEF RiskTerminal, Discards, Lifecycles
<1>3. lifecycle' \in [Mints -> Lifecycles]
  BY <1>2 DEF HandleTrade, TradingTypeOK
<1>4. positions' \in SUBSET Mints
  BY DEF HandleTrade, HandleDecision, TradingTypeOK
<1>5. spiked' \in Mints \cup {NoMint}
  BY DEF HandleTrade, TradingTypeOK
<1> QED
  BY <1>3, <1>4, <1>5 DEF TradingTypeOK

-----------------------------------------------------------------------------
(* The backlog of a source: what its queued events make of an active outage g. *)

AnnouncedBy(q, g) ==
  \/ \E i \in 1 .. Len(q) :
       /\ q[i].kind = "Outage"
       /\ \A j \in i + 1 .. Len(q) : q[j].kind # "Recovery"
  \/ g /\ \A j \in 1 .. Len(q) : q[j].kind # "Recovery"

(* Appending to a channel keeps what was queued, and adds the event at its end. *)
LEMMA Appended ==
  ASSUME NEW q \in Seq(Events), NEW e \in Events
  PROVE  /\ Append(q, e) \in Seq(Events)
         /\ Len(q) \in Nat
         /\ Len(Append(q, e)) = Len(q) + 1
         /\ \A i \in 1 .. Len(q) : Append(q, e)[i] = q[i]
         /\ Append(q, e)[Len(q) + 1] = e
OBVIOUS

(* An outage sent is announced, whatever was queued before it. *)
LEMMA AppendOutage ==
  ASSUME NEW q \in Seq(Events), NEW e \in Events, NEW g, e.kind = "Outage"
  PROVE  AnnouncedBy(Append(q, e), g)
<1>1. /\ Len(q) + 1 \in 1 .. Len(Append(q, e))
      /\ Append(q, e)[Len(q) + 1].kind = "Outage"
      /\ \A j \in Len(q) + 2 .. Len(Append(q, e)) : FALSE
  BY Appended
<1> QED
  BY <1>1, Appended DEF AnnouncedBy

(* A recovery sent takes every outage back that was queued or active before it. *)
LEMMA AppendRecovery ==
  ASSUME NEW q \in Seq(Events), NEW e \in Events, NEW g, e.kind = "Recovery"
  PROVE  ~AnnouncedBy(Append(q, e), g)
<1> DEFINE r == Append(q, e)
<1>1. /\ Len(r) \in Nat \ {0}
      /\ r[Len(r)].kind = "Recovery"
  BY Appended
<1>2. \A i \in 1 .. Len(r) : r[i].kind = "Outage" => Len(r) \in i + 1 .. Len(r)
  BY <1>1
<1> QED
  BY <1>1, <1>2 DEF AnnouncedBy

(* Any other event sent changes nothing of it. *)
LEMMA AppendOther ==
  ASSUME NEW q \in Seq(Events), NEW e \in Events, NEW g,
         e.kind # "Outage", e.kind # "Recovery"
  PROVE  AnnouncedBy(Append(q, e), g) <=> AnnouncedBy(q, g)
<1> DEFINE r == Append(q, e)
           n == Len(q)
<1>1. /\ n \in Nat /\ Len(r) = n + 1
      /\ \A i \in 1 .. n : r[i] = q[i]
      /\ r[n + 1].kind # "Outage" /\ r[n + 1].kind # "Recovery"
  BY Appended
<1>2. \A i \in 1 .. n :
        (\A j \in i + 1 .. n + 1 : r[j].kind # "Recovery")
          <=> (\A j \in i + 1 .. n : q[j].kind # "Recovery")
  BY <1>1
<1>3. (\A j \in 1 .. n + 1 : r[j].kind # "Recovery")
        <=> (\A j \in 1 .. n : q[j].kind # "Recovery")
  BY <1>1
<1>4. (\E i \in 1 .. n + 1 : /\ r[i].kind = "Outage"
                            /\ \A j \in i + 1 .. n + 1 : r[j].kind # "Recovery")
        <=> (\E i \in 1 .. n : /\ q[i].kind = "Outage"
                              /\ \A j \in i + 1 .. n : q[j].kind # "Recovery")
  <2>1. \A i \in 1 .. n + 1 : i \in 1 .. n \/ i = n + 1
    BY <1>1
  <2>2. \A i \in 1 .. n : i \in 1 .. n + 1
    BY <1>1
  <2> QED
    BY <1>1, <1>2, <2>1, <2>2, SMTT(30)
<1> QED
  BY <1>1, <1>3, <1>4 DEF AnnouncedBy

(* The events behind the one received. *)
LEMMA Received ==
  ASSUME NEW q \in Seq(Events), q # <<>>
  PROVE  /\ Head(q) \in Events /\ Head(q) = q[1]
         /\ Tail(q) \in Seq(Events)
         /\ Len(q) \in Nat \ {0}
         /\ Len(Tail(q)) = Len(q) - 1
         /\ \A i \in 1 .. Len(q) - 1 : Tail(q)[i] = q[i + 1]
OBVIOUS

(* Receiving an event and handling it decides as the event did in the queue. *)
LEMMA ReceiveOne ==
  ASSUME NEW q \in Seq(Events), q # <<>>, NEW g \in BOOLEAN, NEW h \in BOOLEAN,
         Head(q).kind = "Outage" => h,
         Head(q).kind = "Recovery" => ~h,
         Head(q).kind \notin {"Outage", "Recovery"} => (h <=> g)
  PROVE  AnnouncedBy(q, g) <=> AnnouncedBy(Tail(q), h)
<1> DEFINE r == Tail(q)
           n == Len(q)
           Quiet(i)  == \A j \in i + 1 .. n : q[j].kind # "Recovery"
           QuietT(i) == \A j \in i + 1 .. n - 1 : r[j].kind # "Recovery"
<1>1. /\ n \in Nat \ {0} /\ Len(r) = n - 1
      /\ \A i \in 1 .. n - 1 : r[i] = q[i + 1]
      /\ Head(q) = q[1]
  BY Received
<1>2. \A i \in 0 .. n - 1 : QuietT(i) <=> Quiet(i + 1)
  <2>1. SUFFICES ASSUME NEW i \in 0 .. n - 1 PROVE QuietT(i) <=> Quiet(i + 1)
    OBVIOUS
  <2>2. ASSUME Quiet(i + 1), NEW j \in i + 1 .. n - 1 PROVE r[j].kind # "Recovery"
    <3>1. j + 1 \in i + 1 + 1 .. n /\ r[j] = q[j + 1]
      BY <1>1, <2>1
    <3> QED
      BY <3>1, <2>2
  <2>3. ASSUME QuietT(i), NEW j \in i + 1 + 1 .. n PROVE q[j].kind # "Recovery"
    <3>1. j - 1 \in i + 1 .. n - 1 /\ r[j - 1] = q[j - 1 + 1] /\ j - 1 + 1 = j
      BY <1>1, <2>1
    <3> QED
      BY <3>1, <2>3
  <2> QED
    BY <2>2, <2>3
<1>3. Quiet(0) <=> q[1].kind # "Recovery" /\ Quiet(1)
  BY <1>1
<1>4. (\E i \in 1 .. n - 1 : r[i].kind = "Outage" /\ QuietT(i))
        <=> (\E i \in 2 .. n : q[i].kind = "Outage" /\ Quiet(i))
  <2>1. ASSUME NEW i \in 1 .. n - 1, r[i].kind = "Outage", QuietT(i)
        PROVE  \E k \in 2 .. n : q[k].kind = "Outage" /\ Quiet(k)
    <3>1. i + 1 \in 2 .. n /\ q[i + 1].kind = "Outage" /\ Quiet(i + 1)
      BY <1>1, <1>2, <2>1
    <3> QED
      BY <3>1
  <2>2. ASSUME NEW i \in 2 .. n, q[i].kind = "Outage", Quiet(i)
        PROVE  \E k \in 1 .. n - 1 : r[k].kind = "Outage" /\ QuietT(k)
    <3>1. i - 1 \in 1 .. n - 1 /\ i - 1 + 1 = i /\ r[i - 1] = q[i - 1 + 1]
      BY <1>1, <2>2
    <3>2. QuietT(i - 1)
      BY <1>1, <1>2, <2>2, <3>1
    <3> QED
      BY <2>2, <3>1, <3>2
  <2> QED
    BY <2>1, <2>2
<1>5. (\E i \in 1 .. n : q[i].kind = "Outage" /\ Quiet(i))
        <=> \/ q[1].kind = "Outage" /\ Quiet(1)
            \/ \E i \in 2 .. n : q[i].kind = "Outage" /\ Quiet(i)
  BY <1>1
<1>6. QuietT(0) <=> Quiet(1)
  BY <1>1, <1>2
<1>7. AnnouncedBy(q, g)
        <=> (\E i \in 1 .. n : q[i].kind = "Outage" /\ Quiet(i)) \/ (g /\ Quiet(0))
  BY <1>1 DEF AnnouncedBy
<1>8. AnnouncedBy(r, h)
        <=> (\E i \in 1 .. n - 1 : r[i].kind = "Outage" /\ QuietT(i)) \/ (h /\ QuietT(0))
  BY <1>1 DEF AnnouncedBy
<1> HIDE DEF Quiet, QuietT
<1> QED
  BY <1>1, <1>3, <1>4, <1>5, <1>6, <1>7, <1>8
-----------------------------------------------------------------------------
(* The inductive invariant. *)

(* A task that goes on trying has attempts left. *)
AttemptsLeft ==
  \A s \in Sources : phase[s] \notin {"Ended", "Failed"} => attempts[s] < MaxReconnectAttempts

(* emitted_disconnect_gap is set from the broken stream to the next connection. *)
GapFlags ==
  \A s \in Sources :
    /\ phase[s] = "Reconnecting" => gapSent[s]
    /\ phase[s] \in {"Starting", "Streaming"} => ~gapSent[s]

(* What a task remembers having announced is what the supervisor will see. *)
GapsSynced ==
  \A s \in Sources : gapSent[s] <=> AnnouncedBy(channel[s], <<s, "Outage">> \in gaps)

IInv == TypeOK /\ AttemptsLeft /\ GapFlags /\ GapsSynced

(* The initial state satisfies it. *)
LEMMA IInvInit == Init => IInv
<1> SUFFICES ASSUME Init PROVE IInv
  OBVIOUS
<1>1. TypeOK
  BY LiveRunAssumption DEF Init, TypeOK, StreamsTypeOK, TradingInit, TradingTypeOK, Phases,
     Statuses, Lifecycles
<1>2. AttemptsLeft /\ GapFlags
  BY LiveRunAssumption DEF Init, AttemptsLeft, GapFlags
<1>3. GapsSynced
  BY DEF Init, GapsSynced, AnnouncedBy
<1> QED
  BY <1>1, <1>2, <1>3 DEF IInv

(* A step that leaves the streams and what is queued and active alone. *)
LEMMA IInvUnchanged ==
  ASSUME IInv, UNCHANGED <<streamVars, channel, gaps>>, status' \in Statuses, TradingTypeOK'
  PROVE  IInv'
BY DEF IInv, TypeOK, StreamsTypeOK, AttemptsLeft, GapFlags, GapsSynced, streamVars

(* A source that announces an outage or a recovery, and says so in its flag. *)
LEMMA IInvSend ==
  ASSUME IInv, NEW s \in Sources, NEW e \in Events, Send(s, e),
         e.kind \in {"Outage", "Recovery"}, gapSent' = [gapSent EXCEPT ![s] = e.kind = "Outage"],
         UNCHANGED gaps
  PROVE  GapsSynced'
<1>1. /\ channel[s] \in Seq(Events)
      /\ channel' = [channel EXCEPT ![s] = Append(channel[s], e)]
  BY DEF Send, IInv, TypeOK, StreamsTypeOK
<1>2. ASSUME NEW t \in Sources
      PROVE  gapSent'[t] <=> AnnouncedBy(channel'[t], <<t, "Outage">> \in gaps)
  <2>1. CASE t # s
    BY <1>1, <2>1 DEF IInv, TypeOK, StreamsTypeOK, GapsSynced
  <2>2. CASE t = s
    <3>1. channel'[t] = Append(channel[s], e)
      BY <1>1, <2>2 DEF IInv, TypeOK, StreamsTypeOK
    <3>2. gapSent'[t] = (e.kind = "Outage")
      BY <2>2 DEF IInv, TypeOK, StreamsTypeOK
    <3>3. CASE e.kind = "Outage"
      BY <1>1, <3>1, <3>2, <3>3, AppendOutage
    <3>4. CASE e.kind = "Recovery"
      BY <1>1, <3>1, <3>2, <3>4, AppendRecovery
    <3> QED
      BY <3>3, <3>4
  <2> QED
    BY <2>1, <2>2
<1> QED
  BY <1>2 DEF GapsSynced

(* A source that sends anything else keeps its flag. *)
LEMMA IInvSendOther ==
  ASSUME IInv, NEW s \in Sources, NEW e \in Events, Send(s, e),
         e.kind \notin {"Outage", "Recovery"}, UNCHANGED <<gapSent, gaps>>
  PROVE  GapsSynced'
<1>1. /\ channel[s] \in Seq(Events)
      /\ channel' = [channel EXCEPT ![s] = Append(channel[s], e)]
  BY DEF Send, IInv, TypeOK, StreamsTypeOK
<1>2. ASSUME NEW t \in Sources
      PROVE  gapSent'[t] <=> AnnouncedBy(channel'[t], <<t, "Outage">> \in gaps)
  <2>1. CASE t # s
    BY <1>1, <2>1 DEF IInv, TypeOK, StreamsTypeOK, GapsSynced
  <2>2. CASE t = s
    <3>1. channel'[t] = Append(channel[s], e)
      BY <1>1, <2>2 DEF IInv, TypeOK, StreamsTypeOK
    <3>2. AnnouncedBy(channel'[t], <<t, "Outage">> \in gaps)
            <=> AnnouncedBy(channel[s], <<t, "Outage">> \in gaps)
      <4> DEFINE g == <<t, "Outage">> \in gaps
      <4>1. e.kind # "Outage" /\ e.kind # "Recovery"
        OBVIOUS
      <4>2. AnnouncedBy(Append(channel[s], e), g) <=> AnnouncedBy(channel[s], g)
        <5> HIDE DEF g
        <5> QED
          BY <1>1, <4>1, AppendOther
      <4> QED
        BY <3>1, <4>2
    <3> QED
      BY <2>2, <3>2 DEF IInv, GapsSynced
  <2> QED
    BY <2>1, <2>2
<1> QED
  BY <1>2 DEF GapsSynced

(* The event handled is at the head of its channel and leaves it. *)
LEMMA IInvReceive ==
  ASSUME IInv, NEW s \in Sources, Receive(s)
  PROVE  IInv'
<1> DEFINE e == Head(channel[s])
<1>1. /\ channel[s] \in Seq(Events) /\ channel[s] # <<>>
      /\ e \in Events /\ Tail(channel[s]) \in Seq(Events)
      /\ Len(Tail(channel[s])) = Len(channel[s]) - 1
      /\ Len(channel[s]) \in Nat
      /\ Len(channel[s]) <= ChannelCapacity
      /\ channel' = [channel EXCEPT ![s] = Tail(channel[s])]
  BY Received DEF Receive, IInv, TypeOK, StreamsTypeOK
<1>2. UNCHANGED <<streamVars, status>>
  BY DEF Receive
<1>3. ASSUME e.kind = "Trade" PROVE UNCHANGED gaps /\ TradingTypeOK'
  <2>1. e.mint \in Mints
    BY <1>1, <1>3, EventsType
  <2>2. CASE \E discard \in Discards, signal \in Signals :
               HandleTrade(e.mint, s = Deshred, Blocked, discard, signal)
    BY <1>3, <2>1, <2>2, TradeType DEF IInv, TypeOK, Receive
  <2>3. CASE IgnoreTrade(e.mint, s = Deshred)
    BY <1>3, <2>3 DEF IgnoreTrade, tradingVars, IInv, TypeOK, TradingTypeOK, Receive
  <2> QED
    BY <1>3, <2>2, <2>3 DEF Receive
<1>4. ASSUME e.kind # "Trade" PROVE UpdateGaps(s, e) /\ TradingTypeOK'
  BY <1>4 DEF Receive, tradingVars, IInv, TypeOK, TradingTypeOK
<1>5. /\ gaps' \in SUBSET (Sources \X Causes)
      /\ \A t \in Sources \ {s} : <<t, "Outage">> \in gaps' <=> <<t, "Outage">> \in gaps
      /\ e.kind = "Outage" => <<s, "Outage">> \in gaps'
      /\ e.kind = "Recovery" => <<s, "Outage">> \notin gaps'
      /\ e.kind \notin {"Outage", "Recovery"}
           => (<<s, "Outage">> \in gaps' <=> <<s, "Outage">> \in gaps)
  <2>1. gaps \in SUBSET (Sources \X Causes)
    BY DEF IInv, TypeOK, StreamsTypeOK
  <2>2. CASE e.kind = "Trade"
    BY <1>3, <2>1, <2>2
  <2>3. CASE e.kind = "Recovery"
    BY <1>4, <2>1, <2>3 DEF UpdateGaps
  <2>4. CASE e.kind \in Causes
    BY <1>4, <2>1, <2>4 DEF UpdateGaps, Causes
  <2> QED
    BY <1>1, <2>2, <2>3, <2>4, EventsType DEF Causes
<1>6. StreamsTypeOK'
  <2>1. channel' \in [Sources -> Seq(Events)]
    BY <1>1 DEF IInv, TypeOK, StreamsTypeOK
  <2>2. \A t \in Sources : Len(channel'[t]) <= ChannelCapacity
    BY <1>1, LiveRunAssumption DEF IInv, TypeOK, StreamsTypeOK
  <2> QED
    BY <1>2, <1>5, <2>1, <2>2 DEF IInv, TypeOK, StreamsTypeOK, streamVars
<1>7. GapsSynced'
  <2>1. SUFFICES ASSUME NEW t \in Sources
                 PROVE  gapSent[t] <=> AnnouncedBy(channel'[t], <<t, "Outage">> \in gaps')
    BY <1>2 DEF GapsSynced, streamVars
  <2>2. gapSent[t] <=> AnnouncedBy(channel[t], <<t, "Outage">> \in gaps)
    BY DEF IInv, GapsSynced
  <2>3. CASE t # s
    <3>1. channel'[t] = channel[t]
      BY <1>1, <2>3 DEF IInv, TypeOK, StreamsTypeOK
    <3>2. <<t, "Outage">> \in gaps' <=> <<t, "Outage">> \in gaps
      BY <1>5, <2>3
    <3> QED
      BY <2>2, <3>1, <3>2 DEF AnnouncedBy
  <2>4. CASE t = s
    <3>1. channel'[t] = Tail(channel[s])
      BY <1>1, <2>4 DEF IInv, TypeOK, StreamsTypeOK
    <3>2. AnnouncedBy(channel[s], <<s, "Outage">> \in gaps)
            <=> AnnouncedBy(Tail(channel[s]), <<s, "Outage">> \in gaps')
      <4> DEFINE g == <<s, "Outage">> \in gaps
                 h == <<s, "Outage">> \in gaps'
      <4>1. /\ g \in BOOLEAN /\ h \in BOOLEAN
            /\ Head(channel[s]).kind = "Outage" => h
            /\ Head(channel[s]).kind = "Recovery" => ~h
            /\ Head(channel[s]).kind \notin {"Outage", "Recovery"} => (h <=> g)
        BY <1>5
      <4> HIDE DEF g, h
      <4>2. AnnouncedBy(channel[s], g) <=> AnnouncedBy(Tail(channel[s]), h)
        BY <1>1, <4>1, ReceiveOne
      <4> QED
        BY <4>2 DEF g, h
    <3> QED
      BY <2>2, <2>4, <3>1, <3>2
  <2> QED
    BY <2>3, <2>4
<1>8. TradingTypeOK'
  BY <1>3, <1>4
<1>9. AttemptsLeft' /\ GapFlags'
  BY <1>2 DEF IInv, AttemptsLeft, GapFlags, streamVars
<1> QED
  BY <1>6, <1>7, <1>8, <1>9 DEF IInv, TypeOK

(* Every step keeps the invariant: one step of the proof per action. *)
LEMMA IInvNext == IInv /\ [Next]_vars => IInv'
<1> SUFFICES ASSUME IInv, [Next]_vars PROVE IInv'
  OBVIOUS
<1> USE LiveRunAssumption
<1>0. TypeOK /\ AttemptsLeft /\ GapFlags /\ GapsSynced
  BY DEF IInv
<1>1. ASSUME NEW s \in Sources, Connect(s) PROVE IInv'
  <2>1. CASE gapSent[s]
    <3>1. Recovery \in Events /\ Send(s, Recovery) /\ Recovery.kind = "Recovery"
      BY <1>1, <2>1, EventsType DEF Connect, Recovery
    <3>2. /\ channel' \in [Sources -> Seq(Events)]
          /\ \A t \in Sources : Len(channel'[t]) <= ChannelCapacity
      BY <1>0, <3>1, SendType DEF TypeOK
    <3>3. GapsSynced'
      BY <1>1, <3>1, IInvSend DEF Connect, runVars
    <3>4. StreamsTypeOK' /\ TradingTypeOK'
      <4>1. /\ phase' \in [Sources -> Phases]
            /\ attempts' \in [Sources -> 0 .. MaxReconnectAttempts]
            /\ gapSent' \in [Sources -> BOOLEAN]
        BY <1>0, <1>1 DEF Connect, TypeOK, StreamsTypeOK, Phases
      <4>2. UNCHANGED <<lastSlot, gaps, status, lifecycle, positions, spiked>>
        BY <1>1 DEF Connect, runVars, tradingVars
      <4> QED
        BY <1>0, <3>2, <4>1, <4>2 DEF TypeOK, StreamsTypeOK, TradingTypeOK
    <3>5. AttemptsLeft' /\ GapFlags'
      <4>1. /\ phase' = [phase EXCEPT ![s] = "Streaming"]
            /\ attempts' = [attempts EXCEPT ![s] = 0]
            /\ gapSent' = [gapSent EXCEPT ![s] = FALSE]
        BY <1>1 DEF Connect
      <4> QED
        BY <1>0, <4>1 DEF TypeOK, StreamsTypeOK, AttemptsLeft, GapFlags
    <3> QED
      BY <3>3, <3>4, <3>5 DEF IInv, TypeOK
  <2>2. CASE ~gapSent[s]
    <3>1. channel' = channel /\ gapSent' = gapSent /\ gaps' = gaps
      BY <1>0, <1>1, <2>2 DEF Connect, runVars, TypeOK, StreamsTypeOK
    <3>2. GapsSynced'
      BY <1>0, <3>1 DEF GapsSynced
    <3> QED
      BY <1>0, <1>1, <3>1, <3>2 DEF Connect, IInv, TypeOK, StreamsTypeOK, TradingTypeOK,
         AttemptsLeft, GapFlags, Phases, runVars, tradingVars
  <2> QED
    BY <2>1, <2>2
<1>2. ASSUME NEW s \in Sources, ConnectFails(s) PROVE IInv'
  <2>1. attempts[s] < MaxReconnectAttempts
    BY <1>0, <1>2 DEF ConnectFails, Connecting, AttemptsLeft
  <2>2. GapsSynced'
    BY <1>0, <1>2 DEF ConnectFails, GapsSynced, runVars
  <2>3. TypeOK'
    BY <1>0, <1>2, <2>1 DEF ConnectFails, TypeOK, StreamsTypeOK, TradingTypeOK, Phases,
       runVars, tradingVars
  <2>4. AttemptsLeft' /\ GapFlags'
    BY <1>0, <1>2, <2>1 DEF ConnectFails, TypeOK, StreamsTypeOK, Phases, AttemptsLeft, GapFlags
  <2> QED
    BY <2>2, <2>3, <2>4 DEF IInv
<1>3. ASSUME NEW s \in Sources, StreamFails(s) PROVE IInv'
  <2>1. /\ GapEvent("Outage") \in Events /\ Send(s, GapEvent("Outage"))
        /\ GapEvent("Outage").kind = "Outage"
    BY <1>3, EventsType DEF StreamFails, GapEvent
  <2>2. /\ channel' \in [Sources -> Seq(Events)]
        /\ \A t \in Sources : Len(channel'[t]) <= ChannelCapacity
    BY <1>0, <2>1, SendType DEF TypeOK
  <2>3. GapsSynced'
    BY <1>3, <2>1, IInvSend DEF StreamFails, runVars
  <2>4. attempts[s] < MaxReconnectAttempts
    BY <1>0, <1>3 DEF StreamFails, AttemptsLeft
  <2>5. TypeOK'
    <3>1. attempts' \in [Sources -> 0 .. MaxReconnectAttempts]
      <4>1. attempts[s] + 1 \in 0 .. MaxReconnectAttempts
        BY <1>0, <2>4 DEF TypeOK, StreamsTypeOK
      <4>2. attempts' = [attempts EXCEPT ![s] = attempts[s] + 1]
        BY <1>3 DEF StreamFails
      <4> QED
        BY <1>0, <4>1, <4>2 DEF TypeOK, StreamsTypeOK
    <3>2. phase' \in [Sources -> Phases] /\ gapSent' \in [Sources -> BOOLEAN]
      BY <1>0, <1>3 DEF StreamFails, TypeOK, StreamsTypeOK, Phases
    <3>3. UNCHANGED <<lastSlot, gaps, status, lifecycle, positions, spiked>>
      BY <1>3 DEF StreamFails, runVars, tradingVars
    <3> QED
      BY <1>0, <2>2, <3>1, <3>2, <3>3 DEF TypeOK, StreamsTypeOK, TradingTypeOK
  <2>6. AttemptsLeft' /\ GapFlags'
    BY <1>0, <1>3, <2>4 DEF StreamFails, TypeOK, StreamsTypeOK, Phases, AttemptsLeft, GapFlags
  <2> QED
    BY <2>3, <2>5, <2>6 DEF IInv
<1>4. ASSUME NEW s \in Sources, StreamEnds(s) PROVE IInv'
  BY <1>0, <1>4 DEF StreamEnds, IInv, TypeOK, StreamsTypeOK, TradingTypeOK, Phases,
     AttemptsLeft, GapFlags, GapsSynced, runVars, tradingVars
<1>5. ASSUME NEW s \in Sources, NEW m \in Mints, StreamTrade(s, m) PROVE IInv'
  <2>1. Trade(m) \in Events /\ Send(s, Trade(m)) /\ Trade(m).kind = "Trade"
    BY <1>5, EventsType DEF StreamTrade, Trade
  <2>2. /\ channel' \in [Sources -> Seq(Events)]
        /\ \A t \in Sources : Len(channel'[t]) <= ChannelCapacity
    BY <1>0, <2>1, SendType DEF TypeOK
  <2>3. GapsSynced'
    BY <1>5, <2>1, IInvSendOther DEF StreamTrade, streamVars, runVars
  <2> QED
    BY <1>0, <1>5, <2>2, <2>3 DEF StreamTrade, IInv, TypeOK, StreamsTypeOK, TradingTypeOK,
       AttemptsLeft, GapFlags, streamVars, runVars, tradingVars
<1>6. ASSUME NEW s \in Sources, Receive(s) PROVE IInv'
  BY <1>6, IInvReceive
<1>7. ASSUME NEW slot \in 1 .. MaxSlot, NEW parent \in 0 .. slot - 1, StreamSlot(slot, parent)
      PROVE  IInv'
  <2>1. /\ channel' \in [Sources -> Seq(Events)]
        /\ \A t \in Sources : Len(channel'[t]) <= ChannelCapacity
        /\ GapsSynced'
    <3>1. CASE SlotsMissing(lastSlot, slot, parent)
      <4>1. /\ GapEvent("MissingSlots") \in Events /\ Send(Geyser, GapEvent("MissingSlots"))
            /\ GapEvent("MissingSlots").kind = "MissingSlots"
        BY <1>7, <3>1, EventsType DEF StreamSlot, GapEvent
      <4>2. /\ channel' \in [Sources -> Seq(Events)]
            /\ \A t \in Sources : Len(channel'[t]) <= ChannelCapacity
        BY <1>0, <4>1, SendType DEF TypeOK
      <4>3. GapsSynced'
        BY <1>7, <4>1, IInvSendOther DEF StreamSlot, runVars
      <4> QED
        BY <4>2, <4>3
    <3>2. CASE ~SlotsMissing(lastSlot, slot, parent)
      BY <1>0, <1>7, <3>2 DEF StreamSlot, TypeOK, StreamsTypeOK, GapsSynced, runVars
    <3> QED
      BY <3>1, <3>2
  <2>2. lastSlot' \in 0 .. MaxSlot
    BY <1>7 DEF StreamSlot
  <2> QED
    BY <1>0, <1>7, <2>1, <2>2 DEF StreamSlot, IInv, TypeOK, StreamsTypeOK, TradingTypeOK,
       AttemptsLeft, GapFlags, runVars, tradingVars
<1>8. CASE DeshredUnimplemented
  BY <1>0, <1>8 DEF DeshredUnimplemented, IInv, TypeOK, StreamsTypeOK, TradingTypeOK, Phases,
     AttemptsLeft, GapFlags, GapsSynced, runVars, tradingVars
<1>9. CASE AllClosed \/ StopEarly
  BY <1>0, <1>9, IInvUnchanged DEF AllClosed, StopEarly, TypeOK, TradingTypeOK, Statuses,
     tradingVars
<1>10. CASE FinishRun
  <2>1. status' \in Statuses /\ TradingTypeOK'
    BY <1>0, <1>10 DEF FinishRun, LiquidateAll, TypeOK, TradingTypeOK, Statuses, tradingVars
  <2> QED
    BY <1>10, <2>1, IInvUnchanged DEF FinishRun
<1>11. CASE UNCHANGED vars
  BY <1>0, <1>11, IInvUnchanged DEF vars, runVars, tradingVars, TypeOK, StreamsTypeOK,
     TradingTypeOK
<1> QED
  BY <1>1, <1>2, <1>3, <1>4, <1>5, <1>6, <1>7, <1>8, <1>9, <1>10, <1>11 DEF Next, Reconnect

(* The invariant holds in every state of every run. *)
THEOREM LiveRunInvariant == Spec => []IInv
BY IInvInit, IInvNext, PTL DEF Spec

-----------------------------------------------------------------------------
(* What it implies. *)

(* Channels stay within their capacity and attempts within their maximum. *)
THEOREM LiveRunTypeOK == Spec => []TypeOK
<1>1. IInv => TypeOK
  BY DEF IInv
<1> QED
  BY <1>1, LiveRunInvariant, PTL

(***************************************************************************)
(* With any number of attempts, capacity of the channels, tokens and       *)
(* slots: once the supervisor has caught up, a source blocks trading       *)
(* exactly while its connection is lost.                                   *)
(***************************************************************************)
THEOREM OutagesAreAnnounced == Spec => []OutagesFollowStreams
<1>1. IInv => OutagesFollowStreams
  <2>1. SUFFICES ASSUME IInv, NEW s \in Sources
                 PROVE  /\ phase[s] = "Reconnecting" => Announced(s)
                        /\ phase[s] = "Failed" /\ gapSent[s] => Announced(s)
                        /\ phase[s] \in {"Starting", "Streaming"} => ~Announced(s)
    BY DEF OutagesFollowStreams
  <2>2. Announced(s) <=> AnnouncedBy(channel[s], <<s, "Outage">> \in gaps)
    BY DEF Announced, AnnouncedBy
  <2> QED
    BY <2>1, <2>2 DEF IInv, GapsSynced, GapFlags
<1> QED
  BY <1>1, LiveRunInvariant, PTL

-----------------------------------------------------------------------------
(* What one trade may do to the positions. *)

(* No event ever finds a token in the lifecycle InPosition. *)
LEMMA TokenSeen ==
  ASSUME NEW l, NEW tentative \in BOOLEAN, NEW discard \in Discards
  PROVE  RiskTerminal(Recomputed(l), tentative, discard) \in {"Active", "Discarded", "DataGap"}
BY DEF RiskTerminal, Recomputed, Discards

(* A blocked trade enters no token, whatever the lifecycle of its own. *)
LEMMA BlockedTrade ==
  ASSUME NEW m \in Mints, NEW tentative \in BOOLEAN, NEW discard \in Discards,
         NEW signal \in Signals, HandleTrade(m, tentative, TRUE, discard, signal)
  PROVE  positions' \subseteq positions
<1> DEFINE token == RiskTerminal(Recomputed(lifecycle[m]), tentative, discard)
           decision == Evaluate(token, m \in positions, discard, signal)
<1>1. HandleDecision(m, Gated(token, tentative, TRUE, decision))
  BY DEF HandleTrade
<1> HIDE DEF token, decision
<1>2. Gated(token, tentative, TRUE, decision) \in {"EmergencyExit", "StopTracking"}
  BY DEF Gated, TerminalOrEmergency
<1> QED
  BY <1>1, <1>2 DEF HandleDecision

(* A trade enters a token only if its terminal event left it active. *)
LEMMA EnteringTrade ==
  ASSUME TradingTypeOK, NEW m \in Mints, NEW tentative \in BOOLEAN, NEW blocked \in BOOLEAN,
         NEW discard \in Discards, NEW signal \in Signals,
         HandleTrade(m, tentative, blocked, discard, signal),
         NEW n \in positions' \ positions
  PROVE  lifecycle'[n] = "Active"
<1> DEFINE token == RiskTerminal(Recomputed(lifecycle[m]), tentative, discard)
           decision == Evaluate(token, m \in positions, discard, signal)
           gated == Gated(token, tentative, blocked, decision)
<1>1. /\ HandleDecision(m, gated)
      /\ lifecycle' = [lifecycle EXCEPT ![m] = token]
  BY DEF HandleTrade
<1>2. token \in {"Active", "Discarded", "DataGap"}
  BY TokenSeen
<1>3. lifecycle'[m] = token
  BY <1>1 DEF TradingTypeOK
<1>4. gated = "EnterPaper" => decision = "EnterPaper"
  <2> HIDE DEF token, decision
  <2> QED
    BY DEF Gated, TerminalOrEmergency
<1>5. decision = "EnterPaper" => token = "Active"
  <2> HIDE DEF token
  <2> QED
    BY <1>2 DEF Evaluate, TerminalOrEmergency, Signals
<1>6. n = m /\ gated = "EnterPaper"
  <2> HIDE DEF gated
  <2> QED
    BY <1>1 DEF HandleDecision
<1> QED
  BY <1>3, <1>4, <1>5, <1>6

(* Only an event received, or the end of the run, touches the trading state. *)
LEMMA TradingSteps ==
  ASSUME TypeOK, [Next]_vars
  PROVE  \/ UNCHANGED tradingVars
         \/ /\ FinishRun
            /\ status' = "Completed" /\ positions' = {}
         \/ \E s \in Sources, m \in Mints, tentative \in BOOLEAN, discard \in Discards,
               signal \in Signals :
                 HandleTrade(m, tentative, Blocked, discard, signal)
<1>1. ASSUME NEW s \in Sources, Receive(s)
      PROVE  \/ UNCHANGED tradingVars
             \/ \E m \in Mints, tentative \in BOOLEAN, discard \in Discards, signal \in Signals :
                     HandleTrade(m, tentative, Blocked, discard, signal)
  <2>1. Head(channel[s]) \in Events
    BY <1>1, Received DEF Receive, TypeOK, StreamsTypeOK
  <2>2. CASE Head(channel[s]).kind = "Trade"
    <3>1. Head(channel[s]).mint \in Mints
      BY <2>1, <2>2, EventsType
    <3> QED
      BY <1>1, <2>2, <3>1 DEF Receive, IgnoreTrade
  <2>3. CASE Head(channel[s]).kind # "Trade"
    BY <1>1, <2>3 DEF Receive
  <2> QED
    BY <2>2, <2>3
<1>2. CASE FinishRun
  BY <1>2 DEF FinishRun, LiquidateAll
<1>3. CASE UNCHANGED vars
  BY <1>3 DEF vars
<1>4. ASSUME NEW s \in Sources,
             Reconnect(s) \/ StreamFails(s) \/ StreamEnds(s) \/ \E m \in Mints : StreamTrade(s, m)
      PROVE  UNCHANGED tradingVars
  BY <1>4 DEF Reconnect, Connect, ConnectFails, StreamFails, StreamEnds, StreamTrade
<1>5. ASSUME DeshredUnimplemented \/ AllClosed \/ StopEarly
             \/ \E slot \in 1 .. MaxSlot : \E parent \in 0 .. slot - 1 : StreamSlot(slot, parent)
      PROVE  UNCHANGED tradingVars
  BY <1>5 DEF DeshredUnimplemented, AllClosed, StopEarly, StreamSlot
<1> QED
  BY <1>1, <1>2, <1>3, <1>4, <1>5 DEF Next

(***************************************************************************)
(* At any entry no gap is active, and what has put a source out of reach   *)
(* is still on its way in that source's channel.                           *)
(***************************************************************************)
THEOREM NoEntryWhileASourceIsLost == Spec => NoEntryUnderGap
<1> DEFINE Timely == /\ gaps = {}
                     /\ \A s \in Sources : Lost(s) =>
                          \E i \in 1 .. Len(channel[s]) : channel[s][i].kind = "Outage"
<1>1. TypeOK /\ OutagesFollowStreams /\ [Next]_vars
        => [positions' \ positions # {} => Timely]_vars
  <2> SUFFICES ASSUME TypeOK, OutagesFollowStreams, [Next]_vars, positions' \ positions # {}
               PROVE  Timely
    OBVIOUS
  <2>1. gaps = {}
    <3> SUFFICES ASSUME gaps # {} PROVE FALSE
      OBVIOUS
    <3>1. Blocked = TRUE
      BY DEF Blocked
    <3>2. ~ \E s \in Sources, m \in Mints, tentative \in BOOLEAN, discard \in Discards,
              signal \in Signals : HandleTrade(m, tentative, Blocked, discard, signal)
      BY <3>1, BlockedTrade
    <3>3. positions' # {} /\ positions' # positions
      OBVIOUS
    <3> QED
      BY <3>2, <3>3, TradingSteps DEF tradingVars
  <2>2. ASSUME NEW s \in Sources, Lost(s)
        PROVE  \E i \in 1 .. Len(channel[s]) : channel[s][i].kind = "Outage"
    <3>1. Announced(s)
      BY <2>2 DEF OutagesFollowStreams, Lost
    <3> QED
      BY <2>1, <3>1 DEF Announced
  <2> QED
    BY <2>1, <2>2
<1> QED
  BY <1>1, LiveRunTypeOK, OutagesAreAnnounced, PTL DEF Spec, NoEntryUnderGap

(* No event enters a token that it, or an earlier event, discarded. *)
THEOREM EntriesAreOnActiveTokens == Spec => NoEntryOnRejectedToken
<1>1. TypeOK /\ [Next]_vars => [\A m \in positions' \ positions : lifecycle'[m] = "Active"]_vars
  <2> SUFFICES ASSUME TypeOK, [Next]_vars, NEW n \in positions' \ positions
               PROVE  lifecycle'[n] = "Active"
    OBVIOUS
  <2>1. ASSUME NEW m \in Mints, NEW tentative \in BOOLEAN, NEW discard \in Discards,
               NEW signal \in Signals, HandleTrade(m, tentative, Blocked, discard, signal)
        PROVE  lifecycle'[n] = "Active"
    BY <2>1, EnteringTrade DEF TypeOK, Blocked
  <2>2. ~ UNCHANGED tradingVars /\ positions' # {}
    BY DEF tradingVars
  <2> QED
    BY <2>1, <2>2, TradingSteps
<1> QED
  BY <1>1, LiveRunTypeOK, PTL DEF Spec, NoEntryOnRejectedToken
-----------------------------------------------------------------------------
(* How a run ends. *)

Gone == \A s \in Sources : phase[s] \in {"Ended", "Failed"}

(* What is left to do when the sources are gone: empty the channels, stop. *)
WindsDown ==
  \/ \E s \in Sources : /\ status = "Running" /\ status' = "Running"
                        /\ channel[s] # <<>>
                        /\ channel' = [channel EXCEPT ![s] = Tail(@)]
  \/ status = "Running" /\ status' = "Draining" /\ channel' = channel
  \/ status = "Draining" /\ status' \in {"Completed", "Failed"} /\ channel' = channel

(* A task that has returned sends nothing more. *)
LEMMA GoneStep ==
  ASSUME Gone, Next
  PROVE  phase' = phase /\ WindsDown
<1>1. \A s \in Sources : ~TaskRuns(s) /\ phase[s] # "Streaming"
  BY DEF Gone, TaskRuns
<1>2. ASSUME NEW s \in Sources, Receive(s)
      PROVE  phase' = phase /\ WindsDown
  BY <1>2 DEF Receive, streamVars, WindsDown
<1>3. ASSUME AllClosed \/ StopEarly
      PROVE  phase' = phase /\ WindsDown
  BY <1>3 DEF AllClosed, StopEarly, streamVars, WindsDown
<1>4. ASSUME FinishRun
      PROVE  phase' = phase /\ WindsDown
  BY <1>4 DEF FinishRun, streamVars, WindsDown
<1>5. \/ \E s \in Sources : Receive(s)
      \/ AllClosed \/ StopEarly \/ FinishRun
  BY <1>1, LiveRunAssumption
     DEF Next, Reconnect, Connect, ConnectFails, Connecting, StreamFails, StreamEnds,
         StreamTrade, StreamSlot, DeshredUnimplemented
<1> QED
  BY <1>2, <1>3, <1>4, <1>5

(***************************************************************************)
(* Once every source task has returned, the run only winds down: the next  *)
(* step handles a queued event, stops the loop or finishes the run, and    *)
(* never refills a channel or goes back (run_live_data_paper).  The run    *)
(* takes as many steps more as there are events queued, and two.           *)
(***************************************************************************)
THEOREM RunsWindDown == Spec => [][Gone => phase' = phase /\ WindsDown]_vars
<1>1. Next => (Gone => phase' = phase /\ WindsDown)
  BY GoneStep
<1>2. [Next]_vars => [Gone => phase' = phase /\ WindsDown]_vars
  BY <1>1
<1> QED
  BY <1>2, PTL DEF Spec

(* What the result of a run says of its sources. *)
ResultTells ==
  /\ status = "Completed" => \A s \in Sources : phase[s] # "Failed"
  /\ status = "Failed" => \E s \in Sources : phase[s] = "Failed"

(* The tasks stand still once the run has its result. *)
LEMMA ResultNext ==
  ASSUME ResultTells, [Next]_vars
  PROVE  ResultTells'
<1>1. CASE FinishRun
  BY <1>1 DEF FinishRun, ResultTells, streamVars
<1>2. CASE AllClosed \/ StopEarly
  BY <1>2 DEF AllClosed, StopEarly, ResultTells
<1>3. CASE \E s \in Sources : Receive(s)
  BY <1>3 DEF Receive, ResultTells, streamVars
<1>4. CASE UNCHANGED vars
  BY <1>4 DEF ResultTells, vars, streamVars, runVars
<1>5. CASE \/ \E s \in Sources :
                \/ Reconnect(s) \/ StreamFails(s) \/ StreamEnds(s)
                \/ \E m \in Mints : StreamTrade(s, m)
           \/ \E slot \in 1 .. MaxSlot : \E parent \in 0 .. slot - 1 : StreamSlot(slot, parent)
           \/ DeshredUnimplemented
  <2>1. status \in {"Running", "Draining"} /\ status' = status
    BY <1>5 DEF Reconnect, Connect, ConnectFails, Connecting, StreamFails, StreamEnds,
         StreamTrade, StreamSlot, DeshredUnimplemented, TaskRuns, runVars
  <2> QED
    BY <2>1 DEF ResultTells
<1> QED
  BY <1>1, <1>2, <1>3, <1>4, <1>5 DEF Next

(***************************************************************************)
(* A run that completes had no source that failed, and one that fails had  *)
(* one: a source that gives up while the supervisor stops for its own      *)
(* reasons, or during the drain, is not missed when the tasks are joined.  *)
(***************************************************************************)
THEOREM ResultsTellOfFailures == Spec => []ResultTells
<1>1. Init => ResultTells
  BY DEF Init, ResultTells
<1>2. ResultTells /\ [Next]_vars => ResultTells'
  BY ResultNext
<1> QED
  BY <1>1, <1>2, PTL DEF Spec
=============================================================================
