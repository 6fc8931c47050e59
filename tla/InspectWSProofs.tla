--------------------------- MODULE InspectWSProofs ---------------------------
(***************************************************************************)
(* Proofs about InspectWS, for sessions and connections of any length, and *)
(* any kinds of frame, tamperer and decoder.                               *)
(***************************************************************************)
EXTENDS InspectWS, SequenceTheorems, TLAPS

(* How many of a direction's frames its pump has read.                     *)
Taken(d) == Len(sent[d]) - Len(inbound[d])

Carried(d) == Len(received[d]) + Len(outbound[d])

(* Frame f is the nth that was sent.                                       *)
IsNth(d, f, n) == n \in 1 .. Len(sent[d]) /\ f.id = n /\ f.op = sent[d][n].op

(* What has not been read is the end of what was sent, and a frame that a  *)
(* pump holds is the last it has read.                                     *)
Unread(d) ==
    /\ Taken(d) \in Nat
    /\ \A i \in 1 .. Len(sent[d]) : sent[d][i].id = i
    /\ \A i \in 1 .. Len(inbound[d]) : inbound[d][i] = sent[d][Taken(d) + i]
    /\ pump[d] \in {"decode", "write"} => IsNth(d, held[d], Taken(d))

(* What has been carried is the beginning of what was sent: all that was   *)
(* read, but for the frame held.  Of a pump that has ended, some may be    *)
(* lost.                                                                   *)
InOrder(d) ==
    /\ \A i \in 1 .. Len(received[d]) : IsNth(d, received[d][i], i)
    /\ \A i \in 1 .. Len(outbound[d]) : IsNth(d, outbound[d][i], Len(received[d]) + i)
    /\ pump[d] = "read" => Carried(d) = Taken(d)
    /\ pump[d] \in {"decode", "write"} => Carried(d) + 1 = Taken(d)

(* A close frame is the last that is carried, and only a pump that has     *)
(* ended closes the connection it writes.                                  *)
CloseLast(d) ==
    /\ pump[d] \in {"read", "decode", "write"} =>
          /\ \A i \in 1 .. Len(received[d]) : received[d][i].op # "close"
          /\ \A i \in 1 .. Len(outbound[d]) : outbound[d][i].op # "close"
    /\ Dst(d) \in closed => pump[d] = "done"

(* A binary frame of a compressed session is forwarded as it was read.     *)
Kept(f) == f.op = "binary" => ~f.rewritten

Untouched == compressed =>
    /\ pump["down"] \in {"decode", "write"} => Kept(held["down"])
    /\ \A i \in 1 .. Len(outbound["down"]) : Kept(outbound["down"][i])
    /\ \A i \in 1 .. Len(received["down"]) : Kept(received["down"][i])

DirInv(d) == Unread(d) /\ InOrder(d) /\ CloseLast(d)

IndInv == TypeOK /\ Untouched /\ \A d \in Dirs : DirInv(d)

------------------------------------------------------------------------------
(* The frame a pump forwards is the one it read, but for its FIN and its   *)
(* payload.                                                                *)
LEMMA OutboundFrame ==
    ASSUME NEW d \in Dirs, NEW f \in Frame, NEW verdict
    PROVE  /\ Outbound(d, f, verdict) \in Frame
           /\ Outbound(d, f, verdict).id = f.id
           /\ Outbound(d, f, verdict).op = f.op
           /\ d = "down" /\ compressed /\ f.op = "binary" =>
                  ~Outbound(d, f, verdict).rewritten
BY DEF Outbound, Inspects, Rewrites, Frame

(* Every variable keeps its type.                                          *)
LEMMA TypeStep == TypeOK /\ [Next]_vars => TypeOK'
<1> SUFFICES ASSUME TypeOK, [Next]_vars PROVE TypeOK'
    OBVIOUS
<1> USE BoundAssumption DEF TypeOK, ends
<1>1. CASE Return
    BY <1>1 DEF Return
<1>2. CASE Decoded
    BY <1>2 DEF Decoded
<1>3. ASSUME NEW d \in Dirs, Read(d) PROVE TypeOK'
  <2>1. /\ inbound[d] \in Seq(Frame) /\ inbound[d] # <<>>
        /\ Head(inbound[d]) \in Frame /\ Tail(inbound[d]) \in Seq(Frame)
      BY <1>3 DEF Read
  <2>2. PICK verdict : held' = [held EXCEPT ![d] = Outbound(d, Head(inbound[d]), verdict)]
      BY <1>3 DEF Read
  <2>3. Outbound(d, Head(inbound[d]), verdict) \in Frame
      BY <2>1, OutboundFrame
  <2>4. pump' = [pump EXCEPT ![d] = "decode"] \/ pump' = [pump EXCEPT ![d] = "write"]
      BY <1>3 DEF Read
  <2>5. held' \in [Dirs -> Frame \cup {<<>>}] /\ held'[d] \in Frame
      BY <2>2, <2>3
  <2>6. \A e \in Dirs : pump'[e] \in {"decode", "write"} => held'[e] \in Frame
      BY <2>2, <2>4, <2>5
  <2>7. inbound' \in [Dirs -> Seq(Frame)]
      BY <1>3, <2>1 DEF Read
  <2>8. pump' \in [Dirs -> {"read", "decode", "write", "exit", "done"}]
      BY <2>4
  <2>9. UNCHANGED <<compressed, sent, outbound, received, ends>>
      BY <1>3 DEF Read
  <2> QED BY <2>5, <2>6, <2>7, <2>8, <2>9
<1>4. ASSUME NEW d \in Dirs, ReadFails(d) PROVE TypeOK'
    BY <1>4 DEF ReadFails
<1>5. ASSUME NEW d \in Dirs, Write(d) PROVE TypeOK'
  <2>1. held[d] \in Frame /\ outbound[d] \in Seq(Frame) /\ Len(outbound[d]) < SockBuf
      BY <1>5 DEF Write
  <2>2. /\ Append(outbound[d], held[d]) \in Seq(Frame)
        /\ Len(Append(outbound[d], held[d])) <= SockBuf
      BY <2>1
  <2> QED BY <1>5, <2>2 DEF Write
<1>6. ASSUME NEW d \in Dirs, WriteFails(d) PROVE TypeOK'
    BY <1>6 DEF WriteFails
<1>7. ASSUME NEW d \in Dirs, Exit(d) PROVE TypeOK'
    BY <1>7 DEF Exit, Dst, Peers
<1>8. ASSUME NEW d \in Dirs, Send(d) PROVE TypeOK'
  <2>1. PICK op \in Ops, fin \in BOOLEAN :
            LET frame == [id |-> Len(sent[d]) + 1, op |-> op, fin |-> fin, rewritten |-> FALSE]
            IN  /\ sent' = [sent EXCEPT ![d] = Append(sent[d], frame)]
                /\ inbound' = [inbound EXCEPT ![d] = Append(inbound[d], frame)]
      BY <1>8 DEF Send
  <2> DEFINE frame == [id |-> Len(sent[d]) + 1, op |-> op, fin |-> fin, rewritten |-> FALSE]
  <2>2. sent[d] \in Seq(Frame) /\ inbound[d] \in Seq(Frame)
      OBVIOUS
  <2>3. frame \in Frame
      BY <2>2 DEF Frame
  <2>4. Append(sent[d], frame) \in Seq(Frame) /\ Append(inbound[d], frame) \in Seq(Frame)
      BY <2>2, <2>3
  <2> QED BY <1>8, <2>1, <2>4 DEF Send
<1>9. ASSUME NEW d \in Dirs, Receive(d) PROVE TypeOK'
  <2>1. /\ outbound[d] \in Seq(Frame) /\ outbound[d] # <<>> /\ received[d] \in Seq(Frame)
      BY <1>9 DEF Receive
  <2>2. /\ Append(received[d], Head(outbound[d])) \in Seq(Frame)
        /\ Tail(outbound[d]) \in Seq(Frame) /\ Len(Tail(outbound[d])) = Len(outbound[d]) - 1
      BY <2>1
  <2> QED BY <1>9, <2>2 DEF Receive
<1>10. ASSUME NEW d \in Dirs, NEW back \in Dirs, Reset(d, back) PROVE TypeOK'
    BY <1>10 DEF Reset
<1>11. ASSUME NEW p \in Peers, Disconnect(p) PROVE TypeOK'
    BY <1>11 DEF Disconnect
<1>12. CASE UNCHANGED vars
    BY <1>12 DEF vars
<1> QED BY <1>1, <1>2, <1>3, <1>4, <1>5, <1>6, <1>7, <1>8, <1>9, <1>10, <1>11, <1>12
        DEF Next, Pump

(* A step that leaves a direction's frames and pump alone, and does not    *)
(* close the connection it writes, keeps what holds of it.                 *)
LEMMA OtherDirection ==
    ASSUME NEW e \in Dirs, DirInv(e),
           sent'[e] = sent[e], inbound'[e] = inbound[e], pump'[e] = pump[e],
           held'[e] = held[e], outbound'[e] = outbound[e], received'[e] = received[e],
           Dst(e) \in closed' => Dst(e) \in closed
    PROVE  DirInv(e)'
<1>1. Taken(e)' = Taken(e) /\ Carried(e)' = Carried(e)
    BY DEF Taken, Carried
<1>2. Unread(e)'
    BY <1>1 DEF DirInv, Unread, IsNth
<1>3. InOrder(e)'
    BY <1>1 DEF DirInv, InOrder, IsNth
<1>4. CloseLast(e)'
    BY DEF DirInv, CloseLast
<1> QED BY <1>2, <1>3, <1>4 DEF DirInv

(* So does a pump that only moves on, from decode to write or to its end.  *)
LEMMA PumpMovesOn ==
    ASSUME NEW e \in Dirs, DirInv(e),
           sent'[e] = sent[e], inbound'[e] = inbound[e], held'[e] = held[e],
           outbound'[e] = outbound[e], received'[e] = received[e],
           \/ pump[e] = "decode" /\ pump'[e] = "write"
           \/ pump'[e] \in {"exit", "done"},
           Dst(e) \in closed' => pump'[e] = "done"
    PROVE  DirInv(e)'
<1>1. Taken(e)' = Taken(e) /\ Carried(e)' = Carried(e)
    BY DEF Taken, Carried
<1>2. Unread(e)'
    BY <1>1 DEF DirInv, Unread, IsNth
<1>3. InOrder(e)'
    BY <1>1 DEF DirInv, InOrder, IsNth
<1>4. CloseLast(e)'
    BY DEF DirInv, CloseLast
<1> QED BY <1>2, <1>3, <1>4 DEF DirInv

(* The two directions write to different peers.                            *)
LEMMA DstDiffers == \A d, e \in Dirs : Dst(d) = Dst(e) => d = e
BY DEF Dirs, Dst

(* What holds of each direction is kept.                                   *)
LEMMA DirStep == IndInv /\ [Next]_vars => \A d \in Dirs : DirInv(d)'
<1> SUFFICES ASSUME IndInv, [Next]_vars PROVE \A d \in Dirs : DirInv(d)'
    OBVIOUS
<1> USE DEF ends
<1>0. /\ TypeOK /\ TypeOK'
      /\ \A d \in Dirs : DirInv(d)
    BY TypeStep DEF IndInv
<1>a. /\ sent \in [Dirs -> Seq(Frame)] /\ inbound \in [Dirs -> Seq(Frame)]
      /\ outbound \in [Dirs -> Seq(Frame)] /\ received \in [Dirs -> Seq(Frame)]
      /\ pump \in [Dirs -> {"read", "decode", "write", "exit", "done"}]
      /\ held \in [Dirs -> Frame \cup {<<>>}]
    BY <1>0 DEF TypeOK
<1>c. /\ sent' \in [Dirs -> Seq(Frame)] /\ inbound' \in [Dirs -> Seq(Frame)]
      /\ outbound' \in [Dirs -> Seq(Frame)] /\ received' \in [Dirs -> Seq(Frame)]
      /\ pump' \in [Dirs -> {"read", "decode", "write", "exit", "done"}]
      /\ held' \in [Dirs -> Frame \cup {<<>>}]
    BY <1>0 DEF TypeOK
<1>b. \A d \in Dirs : /\ sent[d] \in Seq(Frame) /\ inbound[d] \in Seq(Frame)
                      /\ outbound[d] \in Seq(Frame) /\ received[d] \in Seq(Frame)
    BY <1>a
<1>1. CASE Return
    BY <1>0, <1>1, OtherDirection DEF Return
<1>2. CASE Decoded
  <2>1. DirInv("down")'
      BY <1>0, <1>2, <1>a, PumpMovesOn DEF Decoded, Dirs, DirInv, CloseLast
  <2>2. DirInv("up")'
      BY <1>0, <1>2, <1>a, OtherDirection DEF Decoded, Dirs
  <2> QED BY <2>1, <2>2 DEF Dirs
<1>3. ASSUME NEW d \in Dirs, Read(d) PROVE \A e \in Dirs : DirInv(e)'
  <2>1. /\ pump[d] = "read" /\ inbound[d] # <<>> /\ inbound'[d] = Tail(inbound[d])
        /\ pump'[d] \in {"decode", "write"}
        /\ sent'[d] = sent[d] /\ outbound'[d] = outbound[d] /\ received'[d] = received[d]
        /\ closed' = closed
      BY <1>3, <1>a DEF Read
  <2>2. PICK verdict : held' = [held EXCEPT ![d] = Outbound(d, Head(inbound[d]), verdict)]
      BY <1>3 DEF Read
  <2>3. /\ Head(inbound[d]) = inbound[d][1] /\ Head(inbound[d]) \in Frame
        /\ Len(Tail(inbound[d])) = Len(inbound[d]) - 1 /\ Len(inbound[d]) > 0
        /\ \A i \in 1 .. Len(inbound[d]) - 1 : Tail(inbound[d])[i] = inbound[d][i + 1]
      BY <1>b, <2>1
  <2>4. held'[d].id = inbound[d][1].id /\ held'[d].op = inbound[d][1].op
    <3>1. held'[d] = Outbound(d, Head(inbound[d]), verdict)
        BY <1>a, <2>2
    <3> QED BY <2>3, <3>1, OutboundFrame
  <2>5. Len(sent[d]) \in Nat /\ Len(inbound[d]) \in Nat
      BY <1>b
  <2>6. /\ Taken(d) \in Nat /\ Taken(d)' = Taken(d) + 1 /\ Taken(d) + 1 \in 1 .. Len(sent[d])
        /\ Carried(d)' = Carried(d) /\ Carried(d) = Taken(d)
      BY <1>0, <1>a, <1>c, <2>1, <2>3, <2>5 DEF Taken, Carried, DirInv, Unread, InOrder
  <2>7. IsNth(d, held[d], Taken(d))'
      BY <1>0, <2>1, <2>3, <2>4, <2>5, <2>6 DEF IsNth, DirInv, Unread
  <2>8. Unread(d)'
    <3>1. \A i \in 1 .. Len(inbound'[d]) : inbound'[d][i] = sent[d][Taken(d) + 1 + i]
        BY <1>0, <1>a, <1>c, <2>1, <2>3, <2>5, <2>6 DEF DirInv, Unread
    <3> QED BY <1>0, <2>1, <2>6, <2>7, <3>1 DEF DirInv, Unread
  <2>9. InOrder(d)'
      BY <1>0, <2>1, <2>6 DEF DirInv, InOrder, IsNth
  <2>10. CloseLast(d)'
      BY <1>0, <2>1 DEF DirInv, CloseLast
  <2>11. ASSUME NEW e \in Dirs, e # d PROVE DirInv(e)'
      BY <1>0, <1>3, <1>a, <2>11, OtherDirection DEF Read
  <2> QED BY <2>8, <2>9, <2>10, <2>11 DEF DirInv
<1>4. ASSUME NEW d \in Dirs, ReadFails(d) \/ WriteFails(d) PROVE \A e \in Dirs : DirInv(e)'
  <2>1. DirInv(d)'
      BY <1>0, <1>4, <1>a, PumpMovesOn DEF ReadFails, WriteFails, DirInv, CloseLast
  <2>2. ASSUME NEW e \in Dirs, e # d PROVE DirInv(e)'
      BY <1>0, <1>4, <1>a, <2>2, OtherDirection DEF ReadFails, WriteFails
  <2> QED BY <2>1, <2>2
<1>5. ASSUME NEW d \in Dirs, Write(d) PROVE \A e \in Dirs : DirInv(e)'
  <2>1. /\ pump[d] = "write" /\ Dst(d) \notin closed
        /\ outbound'[d] = Append(outbound[d], held[d])
        /\ pump'[d] = IF held[d].op = "close" THEN "exit" ELSE "read"
        /\ sent'[d] = sent[d] /\ inbound'[d] = inbound[d] /\ received'[d] = received[d]
        /\ closed' = closed
      BY <1>5, <1>a DEF Write
  <2>2. held[d] \in Frame
      BY <1>0, <2>1 DEF TypeOK
  <2>3. /\ Len(Append(outbound[d], held[d])) = Len(outbound[d]) + 1
        /\ \A i \in 1 .. Len(outbound[d]) : Append(outbound[d], held[d])[i] = outbound[d][i]
        /\ Append(outbound[d], held[d])[Len(outbound[d]) + 1] = held[d]
        /\ Len(outbound[d]) \in Nat /\ Len(received[d]) \in Nat
      BY <1>b, <2>2
  <2>4. /\ Taken(d)' = Taken(d) /\ Carried(d)' = Carried(d) + 1 /\ Carried(d) + 1 = Taken(d)
        /\ IsNth(d, held[d], Carried(d) + 1)
    <3>1. /\ Taken(d) \in Nat /\ Carried(d) + 1 = Taken(d)
          /\ IsNth(d, held[d], Taken(d))
        BY <1>0, <2>1 DEF DirInv, Unread, InOrder
    <3>2. Taken(d)' = Taken(d)
        BY <2>1 DEF Taken
    <3>3. Carried(d)' = Carried(d) + 1
        BY <1>a, <1>c, <2>1, <2>3 DEF Carried
    <3> QED BY <3>1, <3>2, <3>3
  <2>5. Unread(d)'
      BY <1>0, <2>1, <2>4 DEF DirInv, Unread
  <2>6. InOrder(d)'
    <3>1. \A i \in 1 .. Len(outbound'[d]) : IsNth(d, outbound'[d][i], Len(received[d]) + i)
      <4>1. ASSUME NEW i \in 1 .. Len(outbound[d])
            PROVE  IsNth(d, outbound'[d][i], Len(received[d]) + i)
          BY <1>0, <2>1, <2>3, <4>1 DEF DirInv, InOrder
      <4>2. IsNth(d, outbound'[d][Len(outbound[d]) + 1], Len(received[d]) + (Len(outbound[d]) + 1))
          BY <2>1, <2>3, <2>4 DEF Carried
      <4>3. \A i \in 1 .. Len(outbound'[d]) :
                i \in 1 .. Len(outbound[d]) \/ i = Len(outbound[d]) + 1
          BY <1>a, <1>c, <2>1, <2>3
      <4> QED BY <4>1, <4>2, <4>3
    <3> QED BY <1>0, <2>1, <2>4, <3>1 DEF DirInv, InOrder, IsNth
  <2>7. CloseLast(d)'
      BY <1>0, <2>1, <2>3 DEF DirInv, CloseLast
  <2>8. ASSUME NEW e \in Dirs, e # d PROVE DirInv(e)'
      BY <1>0, <1>5, <1>a, <2>8, OtherDirection DEF Write
  <2> QED BY <2>5, <2>6, <2>7, <2>8 DEF DirInv
<1>6. ASSUME NEW d \in Dirs, Exit(d) PROVE \A e \in Dirs : DirInv(e)'
  <2>1. DirInv(d)'
      BY <1>0, <1>6, <1>a, PumpMovesOn DEF Exit
  <2>2. ASSUME NEW e \in Dirs, e # d PROVE DirInv(e)'
      BY <1>0, <1>6, <1>a, <2>2, OtherDirection, DstDiffers DEF Exit
  <2> QED BY <2>1, <2>2
<1>7. ASSUME NEW d \in Dirs, Send(d) PROVE \A e \in Dirs : DirInv(e)'
  <2>1. PICK frame \in Frame :
            /\ frame.id = Len(sent[d]) + 1
            /\ sent'[d] = Append(sent[d], frame) /\ inbound'[d] = Append(inbound[d], frame)
    <3>1. PICK op \in Ops, fin \in BOOLEAN :
              LET frame == [id |-> Len(sent[d]) + 1, op |-> op, fin |-> fin,
                            rewritten |-> FALSE]
              IN  /\ sent' = [sent EXCEPT ![d] = Append(sent[d], frame)]
                  /\ inbound' = [inbound EXCEPT ![d] = Append(inbound[d], frame)]
        BY <1>7 DEF Send
    <3> DEFINE frame == [id |-> Len(sent[d]) + 1, op |-> op, fin |-> fin,
                         rewritten |-> FALSE]
    <3>2. frame \in Frame /\ frame.id = Len(sent[d]) + 1
        BY <1>b DEF Frame
    <3> QED BY <1>a, <3>1, <3>2
  <2>2. /\ Len(sent'[d]) = Len(sent[d]) + 1 /\ Len(inbound'[d]) = Len(inbound[d]) + 1
        /\ \A i \in 1 .. Len(sent[d]) : sent'[d][i] = sent[d][i]
        /\ \A i \in 1 .. Len(inbound[d]) : inbound'[d][i] = inbound[d][i]
        /\ sent'[d][Len(sent[d]) + 1] = frame /\ inbound'[d][Len(inbound[d]) + 1] = frame
        /\ Len(sent[d]) \in Nat /\ Len(inbound[d]) \in Nat
      BY <1>b, <2>1
  <2>3. /\ pump'[d] = pump[d] /\ held'[d] = held[d] /\ closed' = closed
        /\ outbound'[d] = outbound[d] /\ received'[d] = received[d]
      BY <1>7 DEF Send
  <2>4. Taken(d) \in Nat /\ Taken(d)' = Taken(d) /\ Carried(d)' = Carried(d)
      BY <1>0, <1>a, <1>c, <2>2, <2>3 DEF Taken, Carried, DirInv, Unread
  <2>5. \A f, n : IsNth(d, f, n) => IsNth(d, f, n)'
      BY <2>2 DEF IsNth
  <2>6. Unread(d)'
    <3>1. \A i \in 1 .. Len(sent'[d]) : sent'[d][i].id = i
        BY <1>0, <2>1, <2>2 DEF DirInv, Unread
    <3>2. \A i \in 1 .. Len(inbound'[d]) : inbound'[d][i] = sent'[d][Taken(d) + i]
      <4>1. ASSUME NEW i \in 1 .. Len(inbound[d])
            PROVE  inbound'[d][i] = sent'[d][Taken(d) + i]
        <5>1. inbound[d][i] = sent[d][Taken(d) + i]
            BY <1>0 DEF DirInv, Unread
        <5>2. Taken(d) + i \in 1 .. Len(sent[d])
            BY <1>a, <2>2, <2>4 DEF Taken
        <5> QED BY <2>2, <5>1, <5>2
      <4>2. inbound'[d][Len(inbound[d]) + 1] = sent'[d][Taken(d) + (Len(inbound[d]) + 1)]
        <5>1. Taken(d) + (Len(inbound[d]) + 1) = Len(sent[d]) + 1
            BY <1>a, <2>2 DEF Taken
        <5> QED BY <2>2, <5>1
      <4>3. \A i \in 1 .. Len(inbound'[d]) :
                i \in 1 .. Len(inbound[d]) \/ i = Len(inbound[d]) + 1
          BY <1>a, <1>c, <2>2
      <4> QED BY <4>1, <4>2, <4>3
    <3> QED BY <1>0, <2>3, <2>4, <2>5, <3>1, <3>2 DEF DirInv, Unread
  <2>7. InOrder(d)'
      BY <1>0, <2>3, <2>4, <2>5 DEF DirInv, InOrder
  <2>8. CloseLast(d)'
      BY <1>0, <2>3 DEF DirInv, CloseLast
  <2>9. ASSUME NEW e \in Dirs, e # d PROVE DirInv(e)'
      BY <1>0, <1>7, <1>a, <2>9, OtherDirection DEF Send
  <2> QED BY <2>6, <2>7, <2>8, <2>9 DEF DirInv
<1>8. ASSUME NEW d \in Dirs, Receive(d) PROVE \A e \in Dirs : DirInv(e)'
  <2>1. /\ outbound[d] # <<>>
        /\ received'[d] = Append(received[d], outbound[d][1])
        /\ outbound'[d] = Tail(outbound[d])
        /\ sent'[d] = sent[d] /\ inbound'[d] = inbound[d] /\ pump'[d] = pump[d]
        /\ held'[d] = held[d] /\ closed' = closed
      BY <1>8, <1>a, <1>b DEF Receive
  <2>2. /\ Len(outbound[d]) \in Nat /\ Len(received[d]) \in Nat /\ Len(outbound[d]) > 0
        /\ outbound[d][1] \in Frame
        /\ Len(received'[d]) = Len(received[d]) + 1
        /\ Len(outbound'[d]) = Len(outbound[d]) - 1
        /\ \A i \in 1 .. Len(received[d]) : received'[d][i] = received[d][i]
        /\ received'[d][Len(received[d]) + 1] = outbound[d][1]
        /\ \A i \in 1 .. Len(outbound[d]) - 1 : outbound'[d][i] = outbound[d][i + 1]
      BY <1>b, <2>1
  <2>3. Taken(d)' = Taken(d) /\ Carried(d)' = Carried(d)
      BY <1>a, <1>c, <2>1, <2>2 DEF Taken, Carried
  <2>4. Unread(d)'
      BY <1>0, <2>1, <2>3 DEF DirInv, Unread, IsNth
  <2>5. InOrder(d)'
    <3>1. \A i \in 1 .. Len(received'[d]) : IsNth(d, received'[d][i], i)
        BY <1>0, <2>2, SMTT(30) DEF DirInv, InOrder
    <3>2. \A i \in 1 .. Len(outbound'[d]) : IsNth(d, outbound'[d][i], Len(received'[d]) + i)
      <4>1. ASSUME NEW i \in 1 .. Len(outbound'[d])
            PROVE  IsNth(d, outbound'[d][i], Len(received'[d]) + i)
        <5>1. i + 1 \in 1 .. Len(outbound[d]) /\ outbound'[d][i] = outbound[d][i + 1]
            BY <2>2
        <5>2. IsNth(d, outbound[d][i + 1], Len(received[d]) + (i + 1))
            BY <1>0, <5>1 DEF DirInv, InOrder
        <5>3. Len(received[d]) + (i + 1) = Len(received'[d]) + i
            BY <1>a, <1>c, <2>2
        <5> QED BY <5>1, <5>2, <5>3
      <4> QED BY <4>1
    <3> QED BY <1>0, <2>1, <2>3, <3>1, <3>2 DEF DirInv, InOrder, IsNth
  <2>6. CloseLast(d)'
      BY <1>0, <2>1, <2>2 DEF DirInv, CloseLast
  <2>7. ASSUME NEW e \in Dirs, e # d PROVE DirInv(e)'
      BY <1>0, <1>8, <1>a, <2>7, OtherDirection DEF Receive
  <2> QED BY <2>4, <2>5, <2>6, <2>7 DEF DirInv
<1>9. ASSUME NEW d \in Dirs, NEW back \in Dirs, Reset(d, back)
      PROVE  \A e \in Dirs : DirInv(e)'
  <2>1. /\ pump[d] = "done" /\ pump'[d] = "done" /\ outbound'[d] = <<>>
        /\ sent'[d] = sent[d] /\ inbound'[d] = inbound[d] /\ received'[d] = received[d]
        /\ closed' = closed
      BY <1>0, <1>9, <1>a DEF Reset, DirInv, CloseLast
  <2>2. DirInv(d)'
    <3>1. Unread(d)'
        BY <1>0, <2>1 DEF DirInv, Unread, Taken
    <3>2. InOrder(d)'
        BY <1>0, <2>1 DEF DirInv, InOrder, IsNth
    <3>3. CloseLast(d)'
        BY <2>1 DEF CloseLast
    <3> QED BY <3>1, <3>2, <3>3 DEF DirInv
  <2>3. ASSUME NEW e \in Dirs, e # d PROVE DirInv(e)'
      BY <1>0, <1>9, <1>a, <2>3, OtherDirection DEF Reset
  <2> QED BY <2>2, <2>3
<1>10. ASSUME NEW p \in Peers, Disconnect(p) PROVE \A e \in Dirs : DirInv(e)'
    BY <1>0, <1>10, OtherDirection DEF Disconnect
<1>11. CASE UNCHANGED vars
    BY <1>0, <1>11, OtherDirection DEF vars
<1> QED BY <1>1, <1>2, <1>3, <1>4, <1>5, <1>6, <1>7, <1>8, <1>9, <1>10, <1>11
        DEF Next, Pump

(* Only Read chooses a payload, and it leaves a binary frame's alone.      *)
LEMMA UntouchedStep == TypeOK /\ Untouched /\ [Next]_vars => Untouched'
<1> SUFFICES ASSUME TypeOK, Untouched, [Next]_vars PROVE Untouched'
    OBVIOUS
<1> USE DEF ends, Untouched
<1>a. /\ inbound \in [Dirs -> Seq(Frame)] /\ outbound \in [Dirs -> Seq(Frame)]
      /\ received \in [Dirs -> Seq(Frame)] /\ held \in [Dirs -> Frame \cup {<<>>}]
      /\ pump \in [Dirs -> {"read", "decode", "write", "exit", "done"}]
      /\ \A d \in Dirs : pump[d] \in {"decode", "write"} => held[d] \in Frame
      /\ "down" \in Dirs
    BY DEF TypeOK, Dirs
<1>b. outbound' \in [Dirs -> Seq(Frame)] /\ received' \in [Dirs -> Seq(Frame)]
    BY TypeStep DEF TypeOK
<1>1. ASSUME UNCHANGED <<compressed, held, outbound, received>>,
             pump'["down"] \in {"decode", "write"} => pump["down"] \in {"decode", "write"}
      PROVE  Untouched'
    BY <1>1
<1>2. ASSUME NEW d \in Dirs, Read(d) PROVE Untouched'
  <2>1. PICK verdict : held' = [held EXCEPT ![d] = Outbound(d, Head(inbound[d]), verdict)]
      BY <1>2 DEF Read
  <2>2. Head(inbound[d]) \in Frame
      BY <1>2, <1>a DEF Read
  <2>3. CASE d = "down"
    <3>1. held'["down"] = Outbound(d, Head(inbound[d]), verdict)
        BY <1>a, <2>1, <2>3
    <3>2. compressed => Kept(held'["down"])
        BY <2>2, <2>3, <3>1, OutboundFrame DEF Kept
    <3> QED BY <1>2, <3>2 DEF Read
  <2>4. CASE d # "down"
    <3>1. held'["down"] = held["down"] /\ pump'["down"] = pump["down"]
        BY <1>2, <1>a, <2>1, <2>4 DEF Read
    <3> QED BY <1>2, <3>1 DEF Read
  <2> QED BY <2>3, <2>4
<1>3. ASSUME NEW d \in Dirs, Write(d) PROVE Untouched'
  <2>1. CASE d = "down"
    <3>1. outbound'["down"] = Append(outbound["down"], held["down"]) /\ held["down"] \in Frame
          /\ pump["down"] = "write" /\ pump'["down"] \in {"exit", "read"}
        BY <1>3, <1>a, <2>1 DEF Write
    <3>2. compressed => \A i \in 1 .. Len(outbound'["down"]) : Kept(outbound'["down"][i])
      <4>1. \A i \in 1 .. Len(outbound'["down"]) :
               \/ i \in 1 .. Len(outbound["down"]) /\ outbound'["down"][i] = outbound["down"][i]
               \/ outbound'["down"][i] = held["down"]
          BY <1>a, <1>b, <3>1
      <4> QED BY <3>1, <4>1
    <3> QED BY <1>3, <3>1, <3>2 DEF Write
  <2>2. CASE d # "down"
    <3>1. outbound'["down"] = outbound["down"] /\ pump'["down"] = pump["down"]
        BY <1>3, <1>a, <2>2 DEF Write
    <3> QED BY <1>3, <3>1 DEF Write
  <2> QED BY <2>1, <2>2
<1>4. ASSUME NEW d \in Dirs, Receive(d) PROVE Untouched'
  <2>1. CASE d = "down"
    <3>1. /\ outbound["down"] # <<>>
          /\ received'["down"] = Append(received["down"], Head(outbound["down"]))
          /\ outbound'["down"] = Tail(outbound["down"])
        BY <1>4, <1>a, <2>1 DEF Receive
    <3>2. \A i \in 1 .. Len(received'["down"]) :
             \/ i \in 1 .. Len(received["down"]) /\ received'["down"][i] = received["down"][i]
             \/ 1 \in 1 .. Len(outbound["down"]) /\ received'["down"][i] = outbound["down"][1]
        BY <1>a, <1>b, <3>1
    <3>3. \A i \in 1 .. Len(outbound'["down"]) :
             i + 1 \in 1 .. Len(outbound["down"]) /\ outbound'["down"][i] = outbound["down"][i + 1]
        BY <1>a, <1>b, <3>1
    <3> QED BY <1>4, <3>2, <3>3 DEF Receive
  <2>2. CASE d # "down"
    <3>1. outbound'["down"] = outbound["down"] /\ received'["down"] = received["down"]
        BY <1>4, <1>a, <2>2 DEF Receive
    <3> QED BY <1>4, <3>1 DEF Receive
  <2> QED BY <2>1, <2>2
<1>5. ASSUME NEW d \in Dirs, NEW back \in Dirs, Reset(d, back) PROVE Untouched'
  <2>1. outbound'["down"] = outbound["down"] \/ outbound'["down"] = <<>>
      BY <1>5, <1>a DEF Reset
  <2> QED BY <1>5, <2>1 DEF Reset
<1>6. ASSUME NEW d \in Dirs, ReadFails(d) \/ WriteFails(d) \/ Exit(d) \/ Send(d)
      PROVE  Untouched'
    BY <1>1, <1>6, <1>a DEF ReadFails, WriteFails, Exit, Send
<1>7. CASE Return \/ Decoded \/ UNCHANGED vars
    BY <1>1, <1>7, <1>a DEF Return, Decoded, vars
<1>8. ASSUME NEW p \in Peers, Disconnect(p) PROVE Untouched'
    BY <1>1, <1>8 DEF Disconnect
<1> HIDE DEF Untouched
<1> QED BY <1>2, <1>3, <1>4, <1>5, <1>6, <1>7, <1>8 DEF Next, Pump

(* The invariant holds in every state of a session.                        *)
THEOREM Invariance == Spec => []IndInv
<1>1. Init => IndInv
  <2> SUFFICES ASSUME Init PROVE IndInv
      OBVIOUS
  <2> USE BoundAssumption DEF Init
  <2>1. \A d \in Dirs : /\ sent[d] = <<>> /\ inbound[d] = <<>> /\ outbound[d] = <<>>
                        /\ received[d] = <<>> /\ pump[d] = "read"
      OBVIOUS
  <2>2. TypeOK
    <3>1. <<>> \in Seq(Frame) /\ Len(<<>>) <= SockBuf
        OBVIOUS
    <3>2. /\ sent \in [Dirs -> Seq(Frame)] /\ inbound \in [Dirs -> Seq(Frame)]
          /\ outbound \in [Dirs -> Seq(Frame)] /\ received \in [Dirs -> Seq(Frame)]
        BY <3>1
    <3> QED BY <2>1, <3>1, <3>2 DEF TypeOK
  <2>3. Untouched
      BY <2>1 DEF Untouched, Dirs
  <2>4. \A d \in Dirs : DirInv(d)
      BY <2>1 DEF DirInv, Unread, InOrder, CloseLast, Taken, Carried
  <2> QED BY <2>2, <2>3, <2>4 DEF IndInv
<1>2. IndInv /\ [Next]_vars => IndInv'
    BY TypeStep, DirStep, UntouchedStep DEF IndInv
<1> QED BY <1>1, <1>2, PTL DEF Spec

(* Every variable of a session has its type.                               *)
THEOREM TypeCorrect == Spec => []TypeOK
<1>1. IndInv => TypeOK
    BY DEF IndInv
<1> QED BY <1>1, Invariance, PTL

(* What a peer is given is a prefix of what the other sent: no frame is    *)
(* dropped, doubled or put out of order, or has another opcode.            *)
THEOREM FramesInOrder == Spec => []RelayedInOrder
<1>1. ASSUME IndInv, NEW d \in Dirs
      PROVE  /\ Len(Delivered(d)) <= Len(sent[d])
             /\ \A i \in DOMAIN Delivered(d) : /\ Delivered(d)[i].id = i
                                               /\ Delivered(d)[i].op = sent[d][i].op
  <2>1. sent[d] \in Seq(Frame) /\ received[d] \in Seq(Frame) /\ outbound[d] \in Seq(Frame)
      BY <1>1 DEF IndInv, TypeOK
  <2> DEFINE r == received[d]
             o == outbound[d]
             n == Len(sent[d])
  <2>2. r \in Seq(Frame) /\ o \in Seq(Frame) /\ n \in Nat
      BY <2>1
  <2>3. /\ \A i \in 1 .. Len(r) : IsNth(d, r[i], i)
        /\ \A i \in 1 .. Len(o) : IsNth(d, o[i], Len(r) + i)
      BY <1>1 DEF IndInv, DirInv, InOrder
  <2> HIDE DEF r, o, n
  <2>4. DOMAIN (r \o o) = 1 .. Len(r) + Len(o) /\ Len(r \o o) = Len(r) + Len(o)
      BY <2>2
  <2>5. ASSUME NEW i \in 1 .. Len(r) + Len(o) PROVE IsNth(d, (r \o o)[i], i)
    <3>1. CASE i <= Len(r)
        BY <2>2, <2>3, <3>1
    <3>2. CASE i > Len(r)
      <4>1. i - Len(r) \in 1 .. Len(o) /\ (r \o o)[i] = o[i - Len(r)]
            /\ Len(r) + (i - Len(r)) = i
          BY <2>2, <3>2
      <4> QED BY <2>3, <4>1
    <3> QED BY <2>2, <3>1, <3>2
  <2>6. Len(r) + Len(o) <= n
    <3>1. CASE Len(r) + Len(o) = 0
        BY <2>2, <3>1
    <3>2. CASE Len(r) + Len(o) # 0
      <4>1. Len(r) + Len(o) \in 1 .. Len(r) + Len(o)
          BY <2>2, <3>2
      <4> QED BY <2>5, <4>1 DEF IsNth, n
    <3> QED BY <3>1, <3>2
  <2> QED BY <2>4, <2>5, <2>6 DEF Delivered, IsNth, r, o, n
<1>2. IndInv => RelayedInOrder
    BY <1>1 DEF RelayedInOrder
<1> QED BY <1>2, Invariance, PTL

(* A binary frame of a compressed session reaches the bot as it was read.  *)
THEOREM BinaryForwardedAsRead == Spec => []BinaryUntouched
<1>1. IndInv => BinaryUntouched
  <2> SUFFICES ASSUME IndInv PROVE BinaryUntouched
      OBVIOUS
  <2>1. received["down"] \in Seq(Frame)
      BY DEF IndInv, TypeOK, Dirs
  <2>2. DOMAIN received["down"] = 1 .. Len(received["down"])
      BY <2>1
  <2> QED BY <2>2 DEF IndInv, Untouched, Kept, BinaryUntouched
<1> QED BY <1>1, Invariance, PTL

------------------------------------------------------------------------------
(* Each direction is a FrameRelay.                                         *)

Relay(d) == INSTANCE FrameRelay
            WITH sent <- [i \in DOMAIN sent[d] |-> sent[d][i].op],
                 wire <- Tags(outbound[d]), received <- Tags(received[d]),
                 ended <- Dst(d) \in closed

OpsOf(frames) == [i \in DOMAIN frames |-> frames[i].op]

TagOf(f) == [id |-> f.id, op |-> f.op]

LEMMA OpsOfAppend ==
    ASSUME NEW s \in Seq(Frame), NEW f \in Frame
    PROVE  OpsOf(Append(s, f)) = Append(OpsOf(s), f.op)
BY DEF OpsOf, Frame

LEMMA TagsAppend ==
    ASSUME NEW s \in Seq(Frame), NEW f \in Frame
    PROVE  Tags(Append(s, f)) = Append(Tags(s), TagOf(f))
BY DEF Tags, TagOf, Frame

LEMMA TagsAre ==
    ASSUME NEW s \in Seq(Frame)
    PROVE  /\ Tags(s) \in Seq([id : Nat, op : Ops]) /\ Len(Tags(s)) = Len(s)
           /\ \A i \in 1 .. Len(s) : Tags(s)[i] = TagOf(s[i])
<1> DEFINE Tag == [id : Nat, op : Ops]
<1>1. /\ Len(s) \in Nat /\ DOMAIN s = 1 .. Len(s)
      /\ \A i \in 1 .. Len(s) : s[i] \in Frame
    OBVIOUS
<1>2. \A i \in 1 .. Len(s) : TagOf(s[i]) \in Tag
    BY <1>1 DEF TagOf, Frame
<1>3. Tags(s) = [i \in 1 .. Len(s) |-> TagOf(s[i])]
    BY <1>1 DEF Tags, TagOf
<1>4. Tags(s) \in [1 .. Len(s) -> Tag]
    BY <1>2, <1>3
<1> HIDE DEF Tag
<1>5. Tags(s) \in Seq(Tag) /\ Len(Tags(s)) = Len(s)
    BY <1>1, <1>4
<1> QED BY <1>3, <1>5 DEF Tag

LEMMA TagsHeadTail ==
    ASSUME NEW s \in Seq(Frame), s # <<>>
    PROVE  /\ Head(s) \in Frame /\ Tail(s) \in Seq(Frame)
           /\ Tags(s) # <<>> /\ Head(Tags(s)) = TagOf(Head(s))
           /\ Tags(Tail(s)) = Tail(Tags(s))
<1>1. /\ Head(s) = s[1] /\ Head(s) \in Frame
      /\ Tail(s) \in Seq(Frame) /\ Len(Tail(s)) = Len(s) - 1
      /\ \A i \in 1 .. Len(s) - 1 : Tail(s)[i] = s[i + 1]
      /\ Len(s) \in Nat \ {0} /\ DOMAIN s = 1 .. Len(s)
    OBVIOUS
<1> DEFINE Tag == [id : Nat, op : Ops]
<1>2. \A t \in Seq(Frame) :
          /\ Tags(t) \in Seq(Tag) /\ Len(Tags(t)) = Len(t)
          /\ \A i \in 1 .. Len(t) : Tags(t)[i] = TagOf(t[i])
    BY TagsAre
<1> HIDE DEF Tag
<1>3. Tags(s) # <<>> /\ Head(Tags(s)) = TagOf(Head(s))
    BY <1>1, <1>2
<1>4. /\ Tail(Tags(s)) \in Seq(Tag) /\ Len(Tail(Tags(s))) = Len(s) - 1
      /\ \A i \in 1 .. Len(s) - 1 : Tail(Tags(s))[i] = Tags(s)[i + 1]
    BY <1>1, <1>2, <1>3
<1>5. ASSUME NEW i \in 1 .. Len(s) - 1 PROVE Tags(Tail(s))[i] = Tail(Tags(s))[i]
  <2>1. i + 1 \in 1 .. Len(s) /\ i \in 1 .. Len(Tail(s))
      BY <1>1
  <2>2. Tags(Tail(s))[i] = TagOf(Tail(s)[i]) /\ Tags(s)[i + 1] = TagOf(s[i + 1])
      BY <1>1, <1>2, <2>1
  <2> QED BY <1>1, <1>4, <2>2
<1>6. Tags(Tail(s)) = Tail(Tags(s))
  <2> DEFINE l == Tags(Tail(s))
             r == Tail(Tags(s))
  <2>1. /\ l \in Seq(Tag) /\ r \in Seq(Tag) /\ Len(l) = Len(s) - 1 /\ Len(r) = Len(s) - 1
        /\ \A i \in 1 .. Len(s) - 1 : l[i] = r[i]
      BY <1>1, <1>2, <1>4, <1>5
  <2> HIDE DEF l, r
  <2>2. l = r
      BY <2>1, SeqEqual
  <2> QED BY <2>2 DEF l, r
<1> QED BY <1>1, <1>3, <1>6

(* A pump's Write carries the next frame, unless the direction has ended   *)
(* or a close frame has been carried; a peer's read makes one arrive; the  *)
(* pump's end ends the direction, and a reset loses what was on the way.   *)
LEMMA RelayStep ==
    ASSUME NEW d \in Dirs, IndInv, [Next]_vars
    PROVE  [Relay(d)!Next]_(Relay(d)!vars)
<1> USE DEF ends
<1>0. /\ sent[d] \in Seq(Frame) /\ received[d] \in Seq(Frame) /\ outbound[d] \in Seq(Frame)
      /\ sent \in [Dirs -> Seq(Frame)] /\ received \in [Dirs -> Seq(Frame)]
      /\ outbound \in [Dirs -> Seq(Frame)]
    BY DEF IndInv, TypeOK
<1>1. ASSUME sent'[d] = sent[d], received'[d] = received[d], outbound'[d] = outbound[d],
             (Dst(d) \in closed)' = (Dst(d) \in closed)
      PROVE  UNCHANGED Relay(d)!vars
    BY <1>1 DEF Relay!vars, Tags
<1>2. ASSUME NEW e \in Dirs, Send(e) PROVE Relay(d)!Send \/ UNCHANGED Relay(d)!vars
  <2>1. CASE e = d
    <3>1. PICK op \in Ops, fin \in BOOLEAN :
              sent' = [sent EXCEPT ![d] = Append(sent[d],
                  [id |-> Len(sent[d]) + 1, op |-> op, fin |-> fin, rewritten |-> FALSE])]
        BY <1>2, <2>1 DEF Send
    <3> DEFINE frame == [id |-> Len(sent[d]) + 1, op |-> op, fin |-> fin, rewritten |-> FALSE]
    <3>2. frame \in Frame /\ frame.op = op
        BY <1>0 DEF Frame
    <3>3. sent'[d] = Append(sent[d], frame)
        BY <1>0, <3>1
    <3> HIDE DEF frame
    <3>4. OpsOf(sent'[d]) = Append(OpsOf(sent[d]), op)
        BY <1>0, <3>2, <3>3, OpsOfAppend
    <3> QED BY <1>2, <3>4 DEF Send, Relay!Send, OpsOf, Tags
  <2>2. CASE e # d
      BY <1>0, <1>1, <1>2, <2>2 DEF Send
  <2> QED BY <2>1, <2>2
<1>3. ASSUME NEW e \in Dirs, Receive(e) PROVE Relay(d)!Arrive \/ UNCHANGED Relay(d)!vars
  <2>1. CASE e = d
    <3>1. /\ outbound[d] # <<>>
          /\ received'[d] = Append(received[d], Head(outbound[d]))
          /\ outbound'[d] = Tail(outbound[d])
        BY <1>0, <1>3, <2>1 DEF Receive
    <3>2. /\ Tags(outbound[d]) # <<>>
          /\ Tags(received'[d]) = Append(Tags(received[d]), Head(Tags(outbound[d])))
          /\ Tags(outbound'[d]) = Tail(Tags(outbound[d]))
        BY <1>0, <3>1, TagsHeadTail, TagsAppend
    <3> QED BY <1>3, <3>2 DEF Receive, Relay!Arrive, Tags
  <2>2. CASE e # d
      BY <1>0, <1>1, <1>3, <2>2 DEF Receive
  <2> QED BY <2>1, <2>2
<1>4. ASSUME NEW e \in Dirs, Exit(e) PROVE Relay(d)!End \/ UNCHANGED Relay(d)!vars
  <2>1. CASE e = d
      BY <1>4, <2>1 DEF Exit, Relay!End, Tags
  <2>2. CASE e # d
    <3>1. (Dst(d) \in closed') <=> (Dst(d) \in closed)
        BY <1>4, <2>2, DstDiffers DEF Exit
    <3> QED BY <1>1, <1>4, <3>1 DEF Exit
  <2> QED BY <2>1, <2>2
<1>5. ASSUME NEW e \in Dirs, NEW back \in Dirs, Reset(e, back)
      PROVE  Relay(d)!Lose \/ UNCHANGED Relay(d)!vars
  <2>1. CASE e = d
    <3>1. Dst(d) \in closed /\ outbound'[d] = <<>>
        BY <1>0, <1>5, <2>1 DEF Reset
    <3>2. Tags(<<>>) = <<>>
        BY DEF Tags
    <3> QED BY <1>5, <3>1, <3>2 DEF Reset, Relay!Lose, Tags
  <2>2. CASE e # d
      BY <1>0, <1>1, <1>5, <2>2 DEF Reset
  <2> QED BY <2>1, <2>2
<1>6. ASSUME NEW e \in Dirs, Read(e) \/ ReadFails(e) \/ WriteFails(e)
      PROVE  UNCHANGED Relay(d)!vars
    BY <1>1, <1>6 DEF Read, ReadFails, WriteFails
<1>7. CASE Return \/ Decoded \/ (\E p \in Peers : Disconnect(p)) \/ UNCHANGED vars
    BY <1>1, <1>7 DEF Return, Decoded, Disconnect, vars
<1>8. ASSUME NEW e \in Dirs, Write(e) PROVE Relay(d)!Carry \/ UNCHANGED Relay(d)!vars
  <2>1. CASE e # d
      BY <1>0, <1>1, <1>8, <2>1 DEF Write
  <2>2. CASE e = d
    <3> DEFINE r == received[d]
               o == outbound[d]
               s == sent[d]
               n == Len(r) + Len(o) + 1
               tr == Tags(r)
               to == Tags(o)
               carried == tr \o to
    <3>1. /\ pump[d] = "write" /\ Dst(d) \notin closed /\ held[d] \in Frame
          /\ outbound'[d] = Append(o, held[d])
        BY <1>0, <1>8, <2>2 DEF Write, IndInv, TypeOK
    <3>2. /\ r \in Seq(Frame) /\ o \in Seq(Frame) /\ s \in Seq(Frame)
          /\ Len(r) \in Nat /\ Len(o) \in Nat /\ Len(s) \in Nat
        BY <1>0
    <3>3. IsNth(d, held[d], n)
        BY <3>1 DEF IndInv, DirInv, Unread, InOrder, Carried
    <3>4. n \in 1 .. Len(s) /\ held[d].id = n /\ held[d].op = s[n].op
        BY <3>3 DEF IsNth
    <3>5. /\ \A i \in 1 .. Len(r) : r[i].op # "close"
          /\ \A i \in 1 .. Len(o) : o[i].op # "close"
        BY <3>1 DEF IndInv, DirInv, CloseLast
    <3> HIDE DEF r, o, s
    <3>6. /\ tr \in Seq([id : Nat, op : Ops]) /\ Len(tr) = Len(r)
          /\ \A i \in 1 .. Len(r) : tr[i] = TagOf(r[i])
          /\ to \in Seq([id : Nat, op : Ops]) /\ Len(to) = Len(o)
          /\ \A i \in 1 .. Len(o) : to[i] = TagOf(o[i])
        BY <3>2, TagsAre
    <3> HIDE DEF tr, to
    <3>7. DOMAIN carried = 1 .. Len(r) + Len(o) /\ Len(carried) + 1 = n
      <4>1. carried \in Seq([id : Nat, op : Ops]) /\ Len(carried) = Len(tr) + Len(to)
          BY <3>6
      <4>2. DOMAIN carried = 1 .. Len(carried)
          BY <4>1
      <4> HIDE DEF carried
      <4> QED BY <3>6, <4>1, <4>2
    <3>8. ASSUME NEW i \in 1 .. Len(r) + Len(o) PROVE carried[i].op # "close"
      <4>1. CASE i \in 1 .. Len(r)
        <5>1. carried[i] = TagOf(r[i])
            BY <3>2, <3>6, <4>1
        <5> QED BY <3>5, <4>1, <5>1 DEF TagOf
      <4>2. CASE i \notin 1 .. Len(r)
        <5>1. /\ i - Len(r) \in 1 .. Len(o)
              /\ carried[i] = TagOf(o[i - Len(r)])
            BY <3>2, <3>6, <4>2
        <5> QED BY <3>5, <5>1 DEF TagOf
      <4> QED BY <4>1, <4>2
    <3>9. /\ Len(OpsOf(s)) = Len(s) /\ OpsOf(s)[n] = s[n].op
      <4>1. DOMAIN s = 1 .. Len(s)
          BY <3>2
      <4> QED BY <3>2, <3>4, <4>1 DEF OpsOf
    <3>10. Tags(outbound'[d]) = Append(Tags(o), [id |-> n, op |-> OpsOf(s)[n]])
      <4>1. TagOf(held[d]) = [id |-> n, op |-> OpsOf(s)[n]]
          BY <3>4, <3>9 DEF TagOf
      <4> QED BY <3>1, <3>2, <4>1, TagsAppend
    <3>11. /\ n <= Len(OpsOf(s))
           /\ \A i \in DOMAIN carried : carried[i].op # "close"
        BY <3>2, <3>4, <3>7, <3>8, <3>9
    <3>12. UNCHANGED <<sent[d], received[d]>> /\ closed' = closed
        BY <1>8 DEF Write
    <3> QED BY <3>1, <3>7, <3>10, <3>11, <3>12
            DEF Relay!Carry, Relay!Carried, OpsOf, Tags, tr, to, r, o, s
  <2> QED BY <2>1, <2>2
<1> QED BY <1>2, <1>3, <1>4, <1>5, <1>6, <1>7, <1>8 DEF Next, Pump, Relay!Next

(* Whatever tamperer, decoder and the other direction do, each direction   *)
(* carries frames in order, none after a close frame, and none once the    *)
(* connection it writes has been closed.                                   *)
THEOREM SessionImplementsRelays == Spec => ImplementsRelay
<1> USE DEF OpsOf, Tags
<1>1. Init => UpRelay!Init /\ DownRelay!Init
    BY DEF Init, UpRelay!Init, DownRelay!Init, Dirs
<1>2. IndInv /\ [Next]_vars => [UpRelay!Next]_(UpRelay!vars)
  <2>1. ASSUME IndInv, [Next]_vars PROVE [Relay("up")!Next]_(Relay("up")!vars)
      BY RelayStep, <2>1 DEF Dirs
  <2> QED BY <2>1
          DEF Relay!Next, Relay!Send, Relay!Carry, Relay!Carried, Relay!Arrive, Relay!End,
              Relay!Lose, Relay!vars, UpRelay!Next, UpRelay!Send, UpRelay!Carry,
              UpRelay!Carried, UpRelay!Arrive, UpRelay!End, UpRelay!Lose, UpRelay!vars
<1>3. IndInv /\ [Next]_vars => [DownRelay!Next]_(DownRelay!vars)
  <2>1. ASSUME IndInv, [Next]_vars PROVE [Relay("down")!Next]_(Relay("down")!vars)
      BY RelayStep, <2>1 DEF Dirs
  <2> QED BY <2>1
          DEF Relay!Next, Relay!Send, Relay!Carry, Relay!Carried, Relay!Arrive, Relay!End,
              Relay!Lose, Relay!vars, DownRelay!Next, DownRelay!Send, DownRelay!Carry,
              DownRelay!Carried, DownRelay!Arrive, DownRelay!End, DownRelay!Lose, DownRelay!vars
<1> QED BY <1>1, <1>2, <1>3, Invariance, PTL
        DEF Spec, ImplementsRelay, UpRelay!Spec, DownRelay!Spec
==============================================================================
