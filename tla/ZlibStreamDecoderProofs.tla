----------------------- MODULE ZlibStreamDecoderProofs -----------------------
(***************************************************************************)
(* Proofs about ZlibStreamDecoder, for any callers, frames and number of   *)
(* them, and for buffers of any size.                                      *)
(***************************************************************************)
EXTENDS ZlibStreamDecoder, FiniteSetTheorems, SequenceTheorems, TLAPS

(* The units inflated so far, wherever they have got to.                   *)
inflated == (delivered \o out) \o (toRead \o dict)

(* What the latest writer has not handed over, and all that comes next.    *)
rest == IF writers = <<>> THEN <<>> ELSE writers[Len(writers)].left
pending == bufio \o rest

(* Tokens s carry the stream on from unit m to unit n.                     *)
Weight(token) == IF token.kind = "data" THEN 1 ELSE 0

End(m, s) == IF s = <<>> THEN m ELSE s[Len(s)].unit

Carries(m, s, n) ==
    /\ \A j \in 1 .. Len(s) : /\ s[j].unit = (IF j = 1 THEN m ELSE s[j - 1].unit) + Weight(s[j])
                              /\ s[j].unit <= n
    /\ End(m, s) = n

(* The units are inflated in the order of the stream.                      *)
Ordered == /\ \A i \in 1 .. Len(inflated) : inflated[i] = i
           /\ Len(inflated) <= sent

(* Who has finished, while the stream neither failed nor was closed.       *)
Settled ==
    /\ closed => reader = "nil"
    /\ ~closed => \A w \in 1 .. Len(writers) : writers[w].state = "done" => writers[w].left = <<>>
    /\ ~closed /\ reader # "failed" => \A w \in 1 .. Len(writers) :
          w # Len(writers) \/ mu = NoCaller => writers[w].state = "done"

(* What each place of Decode knows.                                        *)
Places ==
    /\ writers = <<>> => sent = 0
    /\ toRead # <<>> => dict = <<>>
    /\ reader = "nil" => toRead = <<>> /\ dict = <<>> /\ (~closed => delivered = <<>>)
    /\ bufio # <<>> /\ reader = "nil" => mu # NoCaller /\ pc[mu] = "open"
    /\ closed => bufio = <<>>
    /\ mu = NoCaller => out = <<>>
    /\ \A c \in Callers :
          /\ pc[c] \in {"open", "joinError"} => reader = "nil"
          /\ pc[c] \in {"join", "read", "select"} => reader # "nil"
          /\ pc[c] \in {"open", "joinError", "join"} => out = <<>>
          /\ pc[c] = "select" => reader = "live" /\ toRead = <<>> /\ dict = <<>>

(* While the stream is live, what comes next carries on from what has been *)
(* inflated, to the last unit sent; an opening call may make it so.        *)
Continues ==
    /\ reader = "live" => Carries(Len(inflated), pending, sent)
    /\ \A c \in Callers :
          pc[c] = "open" /\ ~closed /\ pending # <<>> /\ pending[1].kind = "header" =>
              Carries(0, pending, sent) /\ before = 0

(* A call that reads has inflated the earlier frames, or has yet to start  *)
(* on its own.                                                             *)
EarlierFirst == \A c \in Callers :
    pc[c] \in {"read", "select"} /\ reader = "live" =>
        \/ Len(inflated) >= before
        \/ rest # <<>> /\ End(Len(inflated), bufio) = before

IndInv == /\ TypeOK /\ Ordered /\ Settled /\ Places /\ Continues /\ EarlierFirst
          /\ AtMostOneMessageLate

------------------------------------------------------------------------------
(* Sequences.                                                              *)

LEMMA CutAndJoin ==
    ASSUME NEW T, NEW s \in Seq(T), NEW n \in 1 .. Len(s)
    PROVE  /\ SubSeq(s, 1, n) \in Seq(T) /\ SubSeq(s, 1, n) # <<>>
           /\ SubSeq(s, n + 1, Len(s)) \in Seq(T)
           /\ SubSeq(s, 1, n) \o SubSeq(s, n + 1, Len(s)) = s
           /\ n = Len(s) => SubSeq(s, n + 1, Len(s)) = <<>>
<1>1. SubSeq(s, 1, n) \in Seq(T) /\ Len(SubSeq(s, 1, n)) = n
    OBVIOUS
<1>3. SubSeq(s, n + 1, Len(s)) \in Seq(T) /\ Len(SubSeq(s, n + 1, Len(s))) = Len(s) - n
    OBVIOUS
<1>2. SubSeq(s, 1, n) \o SubSeq(s, n + 1, Len(s)) = s
    BY ConcatAdjacentSubSeq, SubSeqFull
<1>4. SubSeq(s, 1, n) # <<>>
    BY <1>1
<1>5. n = Len(s) => SubSeq(s, n + 1, Len(s)) = <<>>
    BY <1>3
<1> QED BY <1>1, <1>2, <1>3, <1>4, <1>5

(* Read: a prefix of what inflate gave up joins what is to be returned.    *)
LEMMA TakeKeeps == \A d, o, p, q, x \in Seq(Nat) :
    (d \o (o \o p)) \o (q \o x) = (d \o o) \o ((p \o q) \o x)
<1> SUFFICES ASSUME NEW d \in Seq(Nat), NEW o \in Seq(Nat), NEW p \in Seq(Nat),
                    NEW q \in Seq(Nat), NEW x \in Seq(Nat)
             PROVE  (d \o (o \o p)) \o (q \o x) = (d \o o) \o ((p \o q) \o x)
    OBVIOUS
<1> DEFINE l == (d \o (o \o p)) \o (q \o x)
           r == (d \o o) \o ((p \o q) \o x)
<1>1. l \in Seq(Nat) /\ r \in Seq(Nat) /\ Len(l) = Len(r)
    OBVIOUS
<1>2. \A i \in 1 .. Len(l) : l[i] = r[i]
    OBVIOUS
<1> HIDE DEF l, r
<1>3. l = r
    BY <1>1, <1>2, SeqEqual
<1> QED BY <1>3 DEF l, r

LEMMA EndTail ==
    ASSUME NEW s \in Seq(Token), s # <<>>, NEW m
    PROVE  End(s[1].unit, Tail(s)) = End(m, s)
<1> DEFINE t == Tail(s)
<1>1. /\ t \in Seq(Token) /\ Len(t) = Len(s) - 1 /\ 1 \in 1 .. Len(s)
      /\ \A j \in 1 .. Len(t) : t[j] = s[j + 1]
    OBVIOUS
<1>2. CASE Len(s) = 1
  <2>1. t = <<>>
    <3>1. t \in Seq(Token) /\ Len(t) = 0
        BY <1>1, <1>2
    <3> HIDE DEF t
    <3> QED BY <3>1
  <2> QED BY <1>2, <2>1 DEF End
<1>3. CASE Len(s) # 1
  <2>1. t # <<>> /\ Len(t) \in 1 .. Len(t)
    <3>1. t \in Seq(Token) /\ Len(t) = Len(s) - 1 /\ Len(s) # 1
        BY <1>1, <1>3
    <3> HIDE DEF t
    <3> QED BY <3>1
  <2>2. t[Len(t)] = s[Len(s)]
      BY <1>1, <2>1
  <2> QED BY <2>1, <2>2 DEF End
<1> QED BY <1>2, <1>3

LEMMA CarriesTail ==
    ASSUME NEW s \in Seq(Token), s # <<>>, NEW m \in Nat, NEW n \in Nat, Carries(m, s, n)
    PROVE  /\ s[1].unit \in Nat /\ s[1].unit = m + Weight(s[1]) /\ s[1].unit <= n
           /\ Carries(s[1].unit, Tail(s), n)
<1>1. 1 \in 1 .. Len(s)
    OBVIOUS
<1>2. s[1].unit \in Nat /\ s[1].unit = m + Weight(s[1]) /\ s[1].unit <= n
  <2>1. s[1] \in Token
      BY <1>1
  <2> QED BY <1>1, <2>1 DEF Carries, Token
<1> DEFINE t == Tail(s)
<1>3. /\ t \in Seq(Token) /\ Len(t) = Len(s) - 1
      /\ \A j \in 1 .. Len(t) : j + 1 \in 1 .. Len(s) /\ t[j] = s[j + 1]
    OBVIOUS
<1>4. End(s[1].unit, t) = n
    BY EndTail DEF Carries
<1>5. \A j \in 1 .. Len(t) :
          /\ t[j].unit = (IF j = 1 THEN s[1].unit ELSE t[j - 1].unit) + Weight(t[j])
          /\ t[j].unit <= n
  <2> SUFFICES ASSUME NEW j \in 1 .. Len(t)
               PROVE  /\ t[j].unit = (IF j = 1 THEN s[1].unit ELSE t[j - 1].unit) + Weight(t[j])
                      /\ t[j].unit <= n
      OBVIOUS
  <2>1. /\ s[j + 1].unit = s[j].unit + Weight(s[j + 1])
        /\ s[j + 1].unit <= n
      BY <1>3 DEF Carries
  <2>2. CASE j = 1
      BY <1>3, <2>1, <2>2
  <2>3. CASE j # 1
    <3>1. j - 1 \in 1 .. Len(t)
        BY <1>3, <2>3
    <3>2. t[j - 1] = s[j]
        BY <1>3, <3>1
    <3> QED BY <1>3, <2>1, <2>3, <3>2
  <2> QED BY <2>2, <2>3
<1> HIDE DEF t
<1>6. Carries(s[1].unit, t, n)
    BY <1>4, <1>5 DEF Carries
<1> QED BY <1>2, <1>6 DEF t

LEMMA CarriesJoin ==
    ASSUME NEW s \in Seq(Token), NEW t \in Seq(Token), t # <<>>,
           NEW m \in Nat, NEW n \in Nat, NEW k \in Nat, n <= k,
           Carries(m, s, n), Carries(n, t, k)
    PROVE  Carries(m, s \o t, k)
<1> DEFINE u == s \o t
<1>1. /\ u \in Seq(Token) /\ Len(u) = Len(s) + Len(t) /\ Len(t) # 0
      /\ \A j \in 1 .. Len(s) : u[j] = s[j]
      /\ \A j \in 1 .. Len(t) : u[Len(s) + j] = t[j]
    OBVIOUS
<1>2. End(m, u) = k
  <2>1. u # <<>> /\ u[Len(u)] = t[Len(t)]
      BY <1>1
  <2> QED BY <2>1 DEF Carries, End
<1>3. ASSUME NEW j \in 1 .. Len(u)
      PROVE  /\ u[j].unit = (IF j = 1 THEN m ELSE u[j - 1].unit) + Weight(u[j])
             /\ u[j].unit <= k
  <2> DEFINE prev == IF j = 1 THEN m ELSE u[j - 1].unit
  <2>1. CASE j \in 1 .. Len(s)
    <3>1. u[j] = s[j] /\ (j # 1 => u[j - 1] = s[j - 1])
        BY <1>1, <2>1
    <3>2. /\ s[j].unit = (IF j = 1 THEN m ELSE s[j - 1].unit) + Weight(s[j])
          /\ s[j].unit <= n
        BY <2>1 DEF Carries
    <3>3. s[j].unit \in Nat
      <4>1. s[j] \in Token
          BY <2>1
      <4> QED BY <4>1 DEF Token
    <3>4. u[j].unit = (IF j = 1 THEN m ELSE u[j - 1].unit) + Weight(u[j])
      <4>1. CASE j = 1
          BY <3>1, <3>2, <4>1
      <4>2. CASE j # 1
          BY <3>1, <3>2, <4>2
      <4> QED BY <4>1, <4>2
    <3> QED BY <3>1, <3>2, <3>3, <3>4
  <2>2. CASE j = Len(s) + 1
    <3>1. u[j] = t[1] /\ t[1].unit = n + Weight(t[1]) /\ t[1].unit <= k
        BY <1>1, <2>2 DEF Carries
    <3>2. prev = n
      <4>1. CASE s = <<>>
          BY <2>2, <4>1 DEF Carries, End
      <4>2. CASE s # <<>>
        <5>1. j # 1 /\ u[j - 1] = s[Len(s)]
            BY <1>1, <2>2, <4>2
        <5> QED BY <4>2, <5>1 DEF Carries, End
      <4> QED BY <4>1, <4>2
    <3> QED BY <3>1, <3>2
  <2>3. CASE j > Len(s) + 1
    <3> DEFINE i == j - Len(s)
    <3>1. i \in 2 .. Len(t) /\ j = Len(s) + i
        BY <1>1, <2>3
    <3> HIDE DEF i
    <3>2. u[j] = t[i] /\ u[j - 1] = t[i - 1] /\ j # 1
        BY <1>1, <3>1
    <3>3. t[i].unit = t[i - 1].unit + Weight(t[i]) /\ t[i].unit <= k
        BY <3>1 DEF Carries
    <3> QED BY <3>2, <3>3
  <2> QED BY <1>1, <2>1, <2>2, <2>3
<1> HIDE DEF u
<1>4. Carries(m, u, k)
    BY <1>2, <1>3 DEF Carries
<1> QED BY <1>4 DEF u

(* How many units the first j tokens of a frame hold.                      *)
LEMMA Counting ==
    ASSUME NEW f, NEW j \in Nat
    PROVE  /\ UnitsUpTo(f, 0) = 0 /\ UnitsUpTo(f, j) \in Nat
           /\ UnitsUpTo(f, j + 1) = UnitsUpTo(f, j) + (IF f[j + 1] = "data" THEN 1 ELSE 0)
           /\ \A i \in 0 .. j : UnitsUpTo(f, i) <= UnitsUpTo(f, j)
<1> DEFINE S(n) == {k \in 1 .. n : f[k] = "data"}
<1>1. ASSUME NEW n \in Nat PROVE IsFiniteSet(S(n)) /\ Cardinality(S(n)) \in Nat
  <2>1. IsFiniteSet(1 .. n)
      BY FS_Interval
  <2>2. IsFiniteSet(S(n))
      BY <2>1, FS_Subset
  <2> QED BY <2>2, FS_CardinalityType
<1>2. S(0) = {}
    OBVIOUS
<1>3. Cardinality(S(j + 1)) = Cardinality(S(j)) + (IF f[j + 1] = "data" THEN 1 ELSE 0)
  <2>1. CASE f[j + 1] = "data"
    <3>1. S(j + 1) = S(j) \cup {j + 1} /\ j + 1 \notin S(j)
        BY <2>1
    <3> HIDE DEF S
    <3> QED BY <1>1, <2>1, <3>1, FS_AddElement
  <2>2. CASE f[j + 1] # "data"
    <3>1. S(j + 1) = S(j)
        BY <2>2
    <3> HIDE DEF S
    <3> QED BY <1>1, <2>2, <3>1
  <2> QED BY <2>1, <2>2
<1>4. \A i \in 0 .. j : Cardinality(S(i)) <= Cardinality(S(j))
  <2> SUFFICES ASSUME NEW i \in 0 .. j PROVE Cardinality(S(i)) <= Cardinality(S(j))
      OBVIOUS
  <2>1. S(i) \in SUBSET S(j)
      OBVIOUS
  <2> HIDE DEF S
  <2> QED BY <1>1, <2>1, FS_Subset
<1> QED BY <1>1, <1>2, <1>3, <1>4, FS_EmptySet DEF UnitsUpTo

(* The tokens of a frame carry the stream on.                              *)
LEMMA Numbering ==
    ASSUME NEW f \in Seq(Kinds) \ {<<>>}, sent \in Nat
    PROVE  /\ UnitsUpTo(f, Len(f)) \in Nat
           /\ Number(f) \in Seq(Token) /\ Number(f) # <<>> /\ Number(f)[1].kind = f[1]
           /\ Carries(sent, Number(f), sent + UnitsUpTo(f, Len(f)))
<1> DEFINE t == Number(f)
           top == sent + UnitsUpTo(f, Len(f))
<1>1. Len(f) \in Nat \ {0} /\ DOMAIN f = 1 .. Len(f)
    OBVIOUS
<1>2. \A j \in 0 .. Len(f) : /\ UnitsUpTo(f, j) \in Nat
                             /\ UnitsUpTo(f, j) <= UnitsUpTo(f, Len(f))
    BY <1>1, Counting
<1>3. \A j \in 1 .. Len(f) : t[j].kind = f[j] /\ t[j].unit = sent + UnitsUpTo(f, j)
    BY <1>1 DEF Number
<1>4. t \in Seq(Token) /\ Len(t) = Len(f)
  <2>1. t \in [1 .. Len(f) -> Token]
      BY <1>1, <1>2 DEF Number, Token
  <2> QED BY <1>1, <2>1
<1>5. UnitsUpTo(f, 0) = 0
    BY Counting
<1>6. ASSUME NEW j \in 1 .. Len(f)
      PROVE  UnitsUpTo(f, j) = UnitsUpTo(f, j - 1) + (IF f[j] = "data" THEN 1 ELSE 0)
  <2>1. j - 1 \in Nat /\ (j - 1) + 1 = j
      OBVIOUS
  <2> QED BY <2>1, Counting
<1> HIDE DEF t, top
<1>7. ASSUME NEW j \in 1 .. Len(t)
      PROVE  /\ t[j].unit = (IF j = 1 THEN sent ELSE t[j - 1].unit) + Weight(t[j])
             /\ t[j].unit <= top
  <2>1. Weight(t[j]) = IF f[j] = "data" THEN 1 ELSE 0
      BY <1>3, <1>4 DEF Weight
  <2>2. (IF j = 1 THEN sent ELSE t[j - 1].unit) = sent + UnitsUpTo(f, j - 1)
    <3>1. CASE j = 1
        BY <1>5, <3>1
    <3>2. CASE j # 1
        BY <1>3, <1>4, <3>2
    <3> QED BY <3>1, <3>2
  <2>3. j \in 1 .. Len(f) /\ j \in 0 .. Len(f) /\ j - 1 \in 0 .. Len(f) /\ Len(f) \in 0 .. Len(f)
      BY <1>1, <1>4
  <2>4. t[j].unit = sent + UnitsUpTo(f, j - 1) + Weight(t[j])
    <3>1. t[j].unit = sent + UnitsUpTo(f, j)
        BY <1>3, <2>3
    <3>2. UnitsUpTo(f, j) = UnitsUpTo(f, j - 1) + Weight(t[j])
        BY <1>6, <2>1, <2>3
    <3>3. UnitsUpTo(f, j - 1) \in Nat /\ Weight(t[j]) \in Nat
        BY <1>2, <2>3 DEF Weight
    <3> QED BY <3>1, <3>2, <3>3
  <2>5. t[j].unit <= top
      BY <1>2, <1>3, <2>3 DEF top
  <2> QED BY <2>2, <2>4, <2>5
<1>8. t # <<>> /\ End(sent, t) = top
    BY <1>1, <1>3, <1>4 DEF End, top
<1>9. t[1].kind = f[1] /\ Len(f) \in 0 .. Len(f)
    BY <1>1, <1>3
<1> QED BY <1>2, <1>4, <1>7, <1>8, <1>9 DEF Carries, t, top

(* The types the proofs count on.                                          *)
LEMMA Lists ==
    ASSUME TypeOK
    PROVE  /\ sent \in Nat /\ before \in Nat /\ before <= sent
           /\ delivered \in Seq(Nat) /\ out \in Seq(Nat) /\ toRead \in Seq(Nat) /\ dict \in Seq(Nat)
           /\ inflated \in Seq(Nat) /\ Len(inflated) \in Nat
           /\ bufio \in Seq(Token) /\ rest \in Seq(Token) /\ pending \in Seq(Token)
<1>1. sent \in Nat /\ before \in Nat /\ before <= sent /\ Units \subseteq Nat
    BY DEF TypeOK, Units
<1>2. /\ delivered \in Seq(Units) /\ out \in Seq(Units) /\ toRead \in Seq(Units)
      /\ dict \in Seq(Units)
    BY DEF TypeOK
<1>3. /\ delivered \in Seq(Nat) /\ out \in Seq(Nat) /\ toRead \in Seq(Nat) /\ dict \in Seq(Nat)
  <2>1. \A s \in Seq(Units) : s \in Seq(Nat)
      BY <1>1, SeqMonotonic
  <2> QED BY <1>2, <2>1
<1>4. inflated \in Seq(Nat) /\ Len(inflated) \in Nat
    BY <1>3 DEF inflated
<1>5. bufio \in Seq(Token) /\ rest \in Seq(Token)
  <2>1. CASE writers = <<>>
      BY <2>1 DEF TypeOK, rest
  <2>2. CASE writers # <<>>
    <3>1. writers[Len(writers)] \in Writer
      <4>1. writers \in Seq(Writer)
          BY DEF TypeOK
      <4>2. Len(writers) \in 1 .. Len(writers)
          BY <2>2, <4>1
      <4> QED BY <4>1, <4>2
    <3> QED BY <2>2, <3>1 DEF TypeOK, Writer, rest
  <2> QED BY <2>1, <2>2
<1>6. pending \in Seq(Token)
    BY <1>5 DEF pending
<1> QED BY <1>1, <1>3, <1>4, <1>5, <1>6

------------------------------------------------------------------------------
(* Every variable keeps its type: first the control, then the data.        *)
ControlOK ==
    /\ mu \in Callers \cup {NoCaller}
    /\ pc \in [Callers -> Inside \cup {"idle", "lock", "closing", "closed"}]
    /\ \A c \in Callers : pc[c] \in Inside => mu = c
    /\ reader \in {"nil", "live", "failed"} /\ closed \in BOOLEAN /\ flushing \in BOOLEAN
    /\ outcome \in {"none", "nil", "message", "error"}

DataOK ==
    /\ writers \in Seq(Writer) /\ bufio \in Seq(Token) /\ filled \in 0 .. Window - 1
    /\ sent \in Nat /\ before \in 0 .. sent
    /\ dict \in Seq(Units) /\ toRead \in Seq(Units) /\ out \in Seq(Units)
    /\ delivered \in Seq(Units)

LEMMA TypeParts == TypeOK <=> ControlOK /\ DataOK
<1>1. TypeOK => ControlOK
    BY DEF TypeOK, ControlOK
<1>2. TypeOK => DataOK
    BY DEF TypeOK, DataOK
<1>3. ControlOK /\ DataOK => TypeOK
    BY DEF TypeOK, ControlOK, DataOK
<1> QED BY <1>1, <1>2, <1>3

LEMMA ControlStep == TypeOK /\ [Next]_vars => ControlOK'
<1> SUFFICES ASSUME ControlOK, [Next]_vars PROVE ControlOK'
    BY TypeParts
<1> USE DEF ControlOK, Goto
<1>1. ASSUME NEW c \in Callers, Call(c) PROVE ControlOK'
    BY <1>1 DEF Call, frame, result, Inside
<1>2. ASSUME NEW c \in Callers, CallClose(c) PROVE ControlOK'
    BY <1>2 DEF CallClose, frame, result, Inside
<1>3. ASSUME NEW c \in Callers, Lock(c) PROVE ControlOK'
  <2>1. PICK f : /\ flushing' = isZlibFlush(f)
                 /\ Goto(c, CASE reader = "nil" -> "open"
                              [] reader # "nil" /\ isZlibFlush(f) -> "read"
                              [] OTHER -> "join")
      BY <1>3 DEF Lock
  <2>2. PICK place \in {"open", "read", "join"} : pc' = [pc EXCEPT ![c] = place]
      BY <2>1
  <2>3. mu = NoCaller /\ mu' = c /\ outcome' = "none" /\ UNCHANGED <<reader, closed>>
      BY <1>3 DEF Lock, Acquire
  <2>4. flushing' \in BOOLEAN
      BY <2>1 DEF isZlibFlush
  <2>5. \A d \in Callers : pc[d] \notin Inside
      BY <2>3, CallerAssumption
  <2>6. /\ pc' \in [Callers -> Inside \cup {"idle", "lock", "closing", "closed"}]
        /\ \A d \in Callers : pc'[d] \in Inside => mu' = d
      BY <2>2, <2>3, <2>5 DEF Inside
  <2> QED BY <2>3, <2>4, <2>6
<1>4. ASSUME NEW c \in Callers, NEW how \in {"nil", "message", "error"}, NEW got,
             Return(c, how, got), pc[c] \in Inside, UNCHANGED <<reader, closed, flushing>>
      PROVE  ControlOK'
  <2>1. pc' = [pc EXCEPT ![c] = "idle"] /\ mu' = NoCaller /\ outcome' = how /\ mu = c
      BY <1>4 DEF Return
  <2> QED BY <1>4, <2>1 DEF Inside
<1>5. ASSUME NEW c \in Callers, NEW place \in Inside, Goto(c, place), pc[c] \in Inside,
             UNCHANGED <<mu, closed, flushing, outcome>>,
             reader' \in {"nil", "live", "failed"}
      PROVE  ControlOK'
    BY <1>5 DEF Inside
<1>6. ASSUME NEW c \in Callers, Fill(c) PROVE ControlOK'
    BY <1>6 DEF Fill, frame, result
<1>7. ASSUME NEW c \in Callers, Open(c) PROVE ControlOK'
  <2>1. PICK place \in {"read", "join", "joinError"} : Goto(c, place)
      BY <1>7 DEF Open
  <2>2. /\ pc[c] \in Inside /\ UNCHANGED <<mu, closed, flushing, outcome>>
        /\ reader' \in {"nil", "live", "failed"} /\ place \in Inside
      BY <1>7 DEF Open, frame, result, Inside
  <2> QED BY <1>5, <2>1, <2>2
<1>8. ASSUME NEW c \in Callers, Join(c) PROVE ControlOK'
    BY <1>4, <1>8 DEF Join, frame, Inside
<1>9. ASSUME NEW c \in Callers, Inflate(c) PROVE ControlOK'
    BY <1>9 DEF Inflate, frame, result
<1>10. ASSUME NEW c \in Callers, Read(c) PROVE ControlOK'
  <2>1. pc[c] = "read" /\ UNCHANGED <<reader, closed, flushing>>
      BY <1>10 DEF Read, frame
  <2>2. PICK got : \/ Return(c, "error", got)
                   \/ /\ Goto(c, "select") \/ Goto(c, "read")
                      /\ UNCHANGED <<mu, outcome>>
      BY <1>10 DEF Read
  <2> QED BY <1>4, <1>5, <2>1, <2>2 DEF Inside
<1>11. ASSUME NEW c \in Callers, ReadError(c) PROVE ControlOK'
    BY <1>4, <1>11 DEF ReadError, frame, Inside
<1>12. ASSUME NEW c \in Callers, Select(c) PROVE ControlOK'
  <2>1. pc[c] = "select" /\ UNCHANGED <<reader, closed, flushing>>
      BY <1>12 DEF Select, frame
  <2>2. Return(c, "message", out) \/ (Goto(c, "read") /\ UNCHANGED <<mu, outcome>>)
      BY <1>12 DEF Select, result
  <2> QED BY <1>4, <1>5, <2>1, <2>2 DEF Inside
<1>13. ASSUME NEW c \in Callers, Close(c) PROVE ControlOK'
    BY <1>13 DEF Close, ClosePipe, frame, result, Inside
<1>14. CASE UNCHANGED vars
    BY <1>14 DEF vars, frame, result
<1>15. ASSUME NEW w, Write(w) PROVE ControlOK'
    BY <1>15 DEF Write, frame, result
<1> QED BY <1>1, <1>2, <1>3, <1>6, <1>7, <1>8, <1>9, <1>10, <1>11, <1>12, <1>13, <1>14, <1>15
        DEF Next, Run

(* One token is taken off what comes next.                                 *)
LEMMA TailJoin == \A b, r \in Seq(Token) : b # <<>> =>
    b \o r # <<>> /\ (b \o r)[1] = b[1] /\ Tail(b) \o r = Tail(b \o r)
<1> SUFFICES ASSUME NEW b \in Seq(Token), NEW r \in Seq(Token), b # <<>>
             PROVE  b \o r # <<>> /\ (b \o r)[1] = b[1] /\ Tail(b) \o r = Tail(b \o r)
    OBVIOUS
<1>1. b \o r \in Seq(Token) /\ Len(b \o r) = Len(b) + Len(r) /\ b \o r # <<>>
    OBVIOUS
<1>2. (b \o r)[1] = b[1]
    OBVIOUS
<1>3. /\ Tail(b) \o r \in Seq(Token) /\ Tail(b \o r) \in Seq(Token)
      /\ Len(Tail(b) \o r) = Len(Tail(b \o r))
    BY <1>1
<1>4. \A i \in 1 .. Len(Tail(b) \o r) : (Tail(b) \o r)[i] = Tail(b \o r)[i]
    BY <1>1
<1> DEFINE l == Tail(b) \o r
           t == Tail(b \o r)
<1>5. l \in Seq(Token) /\ t \in Seq(Token) /\ Len(l) = Len(t) /\ \A i \in 1 .. Len(l) : l[i] = t[i]
    BY <1>3, <1>4
<1> HIDE DEF l, t
<1>6. l = t
    BY <1>5, SeqEqual
<1> QED BY <1>1, <1>2, <1>6 DEF l, t

LEMMA TakeEffect ==
    ASSUME TypeOK, bufio # <<>>, bufio' = Tail(bufio), UNCHANGED writers
    PROVE  /\ bufio' \in Seq(Token) /\ bufio[1] \in Token
           /\ rest' = rest
           /\ pending # <<>> /\ pending[1] = bufio[1] /\ pending' = Tail(pending)
<1>1. bufio \in Seq(Token) /\ rest \in Seq(Token)
    BY Lists
<1>2. rest' = rest
    BY DEF rest
<1>3. bufio' \in Seq(Token) /\ bufio[1] \in Token
  <2>1. 1 \in 1 .. Len(bufio)
      BY <1>1
  <2> QED BY <1>1, <2>1
<1> QED BY <1>1, <1>2, <1>3, TailJoin DEF pending

(* What a fill moves stays next in line, and comes from the latest writer. *)
LEMMA FillEffect ==
    ASSUME TypeOK, Settled, Places, NEW c \in Callers, Fill(c)
    PROVE  /\ ~closed /\ reader # "failed" /\ bufio = <<>> /\ writers # <<>>
           /\ bufio' \in Seq(Token) /\ bufio' # <<>>
           /\ writers' \in Seq(Writer) /\ Len(writers') = Len(writers)
           /\ writers[Len(writers)].state # "done"
           /\ \A v \in 1 .. Len(writers) :
                 /\ writers'[v].state = writers[v].state
                 /\ v # Len(writers) => writers'[v] = writers[v]
           /\ rest # <<>> /\ pending = rest /\ pending' = pending
<1>1. /\ ~closed /\ bufio = <<>> /\ reader # "failed"
    BY DEF Fill, Reading, Places
<1>2. PICK w \in DOMAIN writers :
          /\ writers[w].state = "writing" /\ writers[w].left # <<>>
          /\ bufio' = SubSeq(writers[w].left, 1, Least(Len(writers[w].left), Bufio))
          /\ writers' = [writers EXCEPT ![w].left =
                 SubSeq(writers[w].left, Least(Len(writers[w].left), Bufio) + 1,
                        Len(writers[w].left))]
    BY DEF Fill
<1> DEFINE left == writers[w].left
           n == Least(Len(left), Bufio)
<1>3. writers \in Seq(Writer) /\ w \in 1 .. Len(writers) /\ writers # <<>>
    BY <1>2 DEF TypeOK
<1>4. w = Len(writers)
    BY <1>1, <1>2, <1>3 DEF Settled
<1>5. left \in Seq(Token) /\ writers[w].state \in {"ready", "writing", "done"}
  <2>1. writers[w] \in Writer
      BY <1>3
  <2> QED BY <2>1 DEF Writer
<1>6. n \in 1 .. Len(left)
    BY <1>2, <1>5, SizeAssumption DEF Least
<1>7. rest = left /\ rest # <<>>
    BY <1>2, <1>3, <1>4 DEF rest
<1> HIDE DEF n
<1>8. /\ SubSeq(left, 1, n) \in Seq(Token) /\ SubSeq(left, 1, n) # <<>>
      /\ SubSeq(left, n + 1, Len(left)) \in Seq(Token)
      /\ SubSeq(left, 1, n) \o SubSeq(left, n + 1, Len(left)) = left
    BY <1>5, <1>6, CutAndJoin
<1>9. /\ bufio' = SubSeq(left, 1, n)
      /\ writers' = [writers EXCEPT ![w].left = SubSeq(left, n + 1, Len(left))]
    BY <1>2 DEF n
<1> DEFINE left2 == SubSeq(left, n + 1, Len(left))
           writer2 == [writers[w] EXCEPT !.left = left2]
<1> HIDE DEF left2
<1>10. writer2 \in Writer /\ writer2.state = writers[w].state /\ writer2.left = left2
  <2>1. writers[w] \in Writer
      BY <1>3
  <2>2. left2 \in Seq(Token)
      BY <1>8 DEF left2
  <2> QED BY <2>1, <2>2 DEF Writer
<1>11. writers' = [writers EXCEPT ![w] = writer2]
    BY <1>9 DEF left2
<1> HIDE DEF writer2
<1>12. /\ writers' \in Seq(Writer) /\ Len(writers') = Len(writers)
       /\ \A v \in 1 .. Len(writers) :
             writers'[v] = IF v = w THEN writer2 ELSE writers[v]
    BY <1>3, <1>10, <1>11, ExceptSeq
<1>13. rest' = left2
    BY <1>3, <1>4, <1>10, <1>12 DEF rest
<1>14. pending = rest
  <2>1. rest \in Seq(Token)
      BY Lists
  <2> QED BY <1>1, <2>1 DEF pending
<1>15. pending' = pending
    BY <1>7, <1>8, <1>9, <1>13, <1>14 DEF pending, left2
<1> QED BY <1>1, <1>2, <1>3, <1>4, <1>7, <1>8, <1>9, <1>10, <1>12, <1>14, <1>15

(* A writer that begins or finishes leaves what it has not handed over.    *)
LEMMA WriteEffect ==
    ASSUME TypeOK, NEW w, Write(w)
    PROVE  /\ w \in 1 .. Len(writers)
           /\ writers' \in Seq(Writer) /\ Len(writers') = Len(writers)
           /\ \A v \in 1 .. Len(writers) :
                 /\ writers'[v].left = writers[v].left
                 /\ v # w => writers'[v] = writers[v]
           /\ writers[w].state # "done"
           /\ \/ writers'[w].state = "writing"
              \/ writers'[w].state = "done" /\ (closed \/ writers[w].left = <<>>)
           /\ rest' = rest /\ pending' = pending
           /\ UNCHANGED <<mu, pc, reader, closed, bufio, inflate, frame, result>>
<1>1. writers \in Seq(Writer) /\ w \in 1 .. Len(writers)
    BY DEF TypeOK, Write
<1>2. PICK state \in {"writing", "done"} : writers' = [writers EXCEPT ![w].state = state]
    BY DEF Write, Begin, WriteDone
<1> DEFINE writer2 == [writers[w] EXCEPT !.state = state]
<1>3. writer2 \in Writer /\ writer2.left = writers[w].left /\ writer2.state = state
  <2>1. writers[w] \in Writer
      BY <1>1
  <2> QED BY <2>1 DEF Writer
<1>4. writers' = [writers EXCEPT ![w] = writer2]
    BY <1>2
<1> HIDE DEF writer2
<1>5. /\ writers' \in Seq(Writer) /\ Len(writers') = Len(writers)
      /\ \A v \in 1 .. Len(writers) :
            writers'[v] = IF v = w THEN writer2 ELSE writers[v]
    BY <1>1, <1>3, <1>4, ExceptSeq
<1>6. \A v \in 1 .. Len(writers) : /\ writers'[v].left = writers[v].left
                                   /\ v # w => writers'[v] = writers[v]
    BY <1>3, <1>5
<1>7. rest' = rest
  <2>1. Len(writers) \in 1 .. Len(writers) /\ writers # <<>> /\ writers' # <<>>
      BY <1>1, <1>5
  <2> QED BY <1>5, <1>6, <2>1 DEF rest
<1>8. UNCHANGED <<mu, pc, reader, closed, bufio, inflate, frame, result>>
    BY DEF Write
<1>9. pending' = pending
    BY <1>7, <1>8 DEF pending
<1>10. writers[w].state # "done" /\ \/ writers'[w].state = "writing"
                                    \/ /\ writers'[w].state = "done"
                                       /\ closed \/ writers[w].left = <<>>
  <2>1. CASE Begin(w)
    <3>1. writers' = [writers EXCEPT ![w].state = "writing"] /\ writers[w].state = "ready"
        BY <2>1 DEF Begin
    <3>2. writers'[w].state = "writing"
      <4>1. writers[w] \in Writer
          BY <1>1
      <4> QED BY <1>1, <3>1, <4>1 DEF Writer
    <3> QED BY <3>1, <3>2
  <2>2. CASE WriteDone(w)
    <3>1. /\ writers' = [writers EXCEPT ![w].state = "done"]
          /\ writers[w].state # "done" /\ (closed \/ writers[w].left = <<>>)
        BY <2>2 DEF WriteDone
    <3>2. writers'[w].state = "done"
      <4>1. writers[w] \in Writer
          BY <1>1
      <4> QED BY <1>1, <3>1, <4>1 DEF Writer
    <3> QED BY <3>1, <3>2
  <2> QED BY <2>1, <2>2 DEF Write
<1> QED BY <1>1, <1>5, <1>6, <1>7, <1>8, <1>9, <1>10

(* A call adds its writer, and its frame to what comes next.               *)
LEMMA LockEffect ==
    ASSUME TypeOK, NEW c \in Callers, Lock(c)
    PROVE  \E f \in FirstFrames \cup Frames :
              /\ f \in Seq(Kinds) \ {<<>>} /\ (writers # <<>> => f[1] # "header")
              /\ sent' = sent + UnitsUpTo(f, Len(f)) /\ UnitsUpTo(f, Len(f)) \in Nat
              /\ Number(f) \in Seq(Token) /\ Number(f) # <<>> /\ Number(f)[1].kind = f[1]
              /\ Carries(sent, Number(f), sent')
              /\ rest' = Number(f)
              /\ writers' \in Seq(Writer) /\ Len(writers') = Len(writers) + 1 /\ writers' # <<>>
              /\ \A v \in 1 .. Len(writers) : writers'[v] = writers[v]
              /\ writers'[Len(writers')].state # "done"
              /\ pc' = [pc EXCEPT ![c] = IF reader = "nil" THEN "open"
                                         ELSE IF isZlibFlush(f) THEN "read" ELSE "join"]
<1>1. PICK f \in IF writers = <<>> THEN FirstFrames ELSE Frames :
          /\ writers' = Append(writers, [left |-> Number(f), state |-> "ready"])
          /\ sent' = sent + UnitsUpTo(f, Len(f))
          /\ Goto(c, CASE reader = "nil" -> "open"
                       [] reader # "nil" /\ isZlibFlush(f) -> "read"
                       [] OTHER -> "join")
    BY DEF Lock
<1>2. f \in FirstFrames \cup Frames /\ f \in Seq(Kinds) \ {<<>>} /\ (writers # <<>> => f[1] # "header")
    BY <1>1, FrameAssumption
<1>3. /\ UnitsUpTo(f, Len(f)) \in Nat
      /\ Number(f) \in Seq(Token) /\ Number(f) # <<>> /\ Number(f)[1].kind = f[1]
      /\ Carries(sent, Number(f), sent')
    BY <1>1, <1>2, Lists, Numbering
<1> DEFINE writer == [left |-> Number(f), state |-> "ready"]
<1>4. writer \in Writer /\ writer.left = Number(f) /\ writer.state # "done"
    BY <1>3 DEF Writer
<1>5. writers \in Seq(Writer) /\ writers' = Append(writers, writer)
    BY <1>1 DEF TypeOK
<1> HIDE DEF writer
<1>6. /\ writers' \in Seq(Writer) /\ Len(writers') = Len(writers) + 1 /\ writers' # <<>>
      /\ \A v \in 1 .. Len(writers) : writers'[v] = writers[v]
      /\ writers'[Len(writers')] = writer
    BY <1>4, <1>5
<1>7. rest' = Number(f)
    BY <1>4, <1>6 DEF rest
<1>8. pc' = [pc EXCEPT ![c] = IF reader = "nil" THEN "open"
                              ELSE IF isZlibFlush(f) THEN "read" ELSE "join"]
    BY <1>1 DEF Goto
<1> QED BY <1>1, <1>2, <1>3, <1>4, <1>6, <1>7, <1>8

(* What a call returns keeps its place among what has been inflated.       *)
LEMMA ReturnKeeps == \A T : \A d, o \in Seq(T) : (d \o o) \o <<>> = d \o o
<1> SUFFICES ASSUME NEW T, NEW d \in Seq(T), NEW o \in Seq(T) PROVE (d \o o) \o <<>> = d \o o
    OBVIOUS
<1>1. d \o o \in Seq(T)
    OBVIOUS
<1> QED BY <1>1, ConcatEmptySeq

LEMMA ReturnEffect ==
    ASSUME TypeOK, NEW c \in Callers, NEW how, Return(c, how, out), UNCHANGED <<toRead, dict, sent>>
    PROVE  /\ inflated' = inflated /\ out' = <<>> /\ delivered' = delivered \o out
           /\ delivered' \in Seq(Units)
<1>1. delivered' = delivered \o out /\ out' = <<>>
    BY DEF Return
<1>2. (delivered \o out) \o <<>> = delivered \o out
    BY Lists, ReturnKeeps
<1>3. inflated' = inflated
    BY <1>1, <1>2 DEF inflated
<1>4. delivered \o out \in Seq(Units)
  <2>1. delivered \in Seq(Units) /\ out \in Seq(Units)
      BY DEF TypeOK
  <2> QED BY <2>1
<1> QED BY <1>1, <1>3, <1>4

LEMMA JoinEffect ==
    ASSUME TypeOK, Places, NEW c \in Callers, Join(c)
    PROVE  /\ inflated' = inflated /\ out' = <<>> /\ delivered' = delivered /\ out = <<>>
           /\ delivered' \in Seq(Units)
<1>1. delivered' = delivered \o <<>> /\ out' = <<>>
    BY DEF Join, Return
<1>2. delivered' = delivered /\ delivered \in Seq(Units)
  <2>1. delivered \in Seq(Units)
      BY DEF TypeOK
  <2> QED BY <1>1, <2>1
<1>3. out = <<>>
    BY DEF Join, Places
<1> QED BY <1>1, <1>2, <1>3 DEF Join, inflated, inflate

LEMMA ReadEffect ==
    ASSUME TypeOK, NEW c \in Callers, Read(c)
    PROVE  /\ pc[c] = "read" /\ toRead # <<>> /\ UNCHANGED <<reader, closed, pipe, dict, filled, frame>>
           /\ inflated' = inflated
           /\ toRead' \in Seq(Units) /\ out' \in Seq(Units) /\ delivered' \in Seq(Units)
           /\ \/ \E got \in Seq(Units) :
                    Return(c, "error", got) /\ reader = "failed" /\ out' = <<>>
              \/ /\ UNCHANGED <<mu, delivered, outcome>>
                 /\ Goto(c, "read") \/ (Goto(c, "select") /\ reader # "failed" /\ toRead' = <<>>)
<1> DEFINE n == Least(Len(toRead), ReadSize)
           p == SubSeq(toRead, 1, n)
           q == SubSeq(toRead, n + 1, Len(toRead))
<1>1. /\ pc[c] = "read" /\ toRead # <<>> /\ toRead' = q
      /\ UNCHANGED <<reader, closed, pipe, dict, filled, frame>>
    BY DEF Read
<1>2. /\ delivered \in Seq(Units) /\ out \in Seq(Units) /\ toRead \in Seq(Units)
      /\ dict \in Seq(Units)
    BY DEF TypeOK
<1>3. n \in 1 .. Len(toRead) /\ (n < ReadSize => n = Len(toRead))
    BY <1>1, <1>2, SizeAssumption DEF Least
<1>6. \A u, v \in Seq(Nat) : (delivered \o (out \o u)) \o (v \o dict)
                                 = (delivered \o out) \o ((u \o v) \o dict)
  <2>1. \A u, v, x \in Seq(Nat) : (delivered \o (out \o u)) \o (v \o x)
                                      = (delivered \o out) \o ((u \o v) \o x)
      BY Lists, TakeKeeps, ZenonT(60)
  <2> QED BY <2>1, Lists, ZenonT(60)
<1>4. CASE reader = "failed" /\ n = Len(toRead)
  <2>1. Return(c, "error", out \o p)
      BY <1>4 DEF Read
  <2>2. delivered' = delivered \o (out \o p) /\ out' = <<>>
      BY <2>1 DEF Return
  <2> HIDE DEF n
  <2>3. p \in Seq(Units) /\ q \in Seq(Units)
      BY <1>2, <1>3, CutAndJoin
  <2>8. p \in Seq(Nat) /\ q \in Seq(Nat) /\ p \o q = toRead
      BY <1>3, Lists, CutAndJoin
  <2> HIDE DEF p, q
  <2>4. (delivered \o (out \o p)) \o (q \o dict) = (delivered \o out) \o ((p \o q) \o dict)
      BY <1>6, <2>8, Zenon
  <2>5. delivered' \in Seq(Units) /\ delivered' \o <<>> = delivered'
    <3>1. delivered' \in Seq(Units)
        BY <1>2, <2>2, <2>3
    <3> QED BY <3>1, ConcatEmptySeq
  <2>6. inflated' = inflated
      BY <1>1, <2>2, <2>4, <2>5, <2>8 DEF inflated
  <2>7. out' \in Seq(Units) /\ out \o p \in Seq(Units)
      BY <1>2, <2>2, <2>3
  <2> QED BY <1>1, <1>4, <2>1, <2>2, <2>3, <2>5, <2>6, <2>7 DEF frame
<1>5. CASE ~(reader = "failed" /\ n = Len(toRead))
  <2>1. /\ Goto(c, IF n < ReadSize THEN "select" ELSE "read") /\ out' = out \o p
        /\ UNCHANGED <<mu, delivered, outcome>>
      BY <1>5 DEF Read
  <2>2. n < ReadSize => q = <<>> /\ reader # "failed"
      BY <1>2, <1>3, <1>5, CutAndJoin
  <2> HIDE DEF n
  <2>3. p \in Seq(Units) /\ q \in Seq(Units)
      BY <1>2, <1>3, CutAndJoin
  <2>8. p \in Seq(Nat) /\ q \in Seq(Nat) /\ p \o q = toRead
      BY <1>3, Lists, CutAndJoin
  <2> HIDE DEF p, q
  <2>4. (delivered \o (out \o p)) \o (q \o dict) = (delivered \o out) \o ((p \o q) \o dict)
      BY <1>6, <2>8, Zenon
  <2>5. inflated' = inflated
      BY <1>1, <2>1, <2>4, <2>8 DEF inflated
  <2>6. out' \in Seq(Units)
      BY <1>2, <2>1, <2>3
  <2> QED BY <1>1, <1>2, <2>1, <2>2, <2>3, <2>5, <2>6 DEF frame, Goto
<1> QED BY <1>4, <1>5

(* Inflate takes the token that is next, and a unit has its turn.          *)
LEMMA InflateEffect ==
    ASSUME TypeOK, Places, Settled, Continues, NEW c \in Callers, Inflate(c)
    PROVE  /\ reader = "live" /\ ~closed /\ pc[c] = "read"
           /\ bufio # <<>> /\ bufio' = Tail(bufio) /\ bufio[1] \in Token
           /\ UNCHANGED <<mu, pc, closed, writers, frame, result>>
           /\ bufio[1].unit \in 0 .. sent
           /\ bufio[1].unit = Len(inflated) + Weight(bufio[1])
           /\ inflated' = IF bufio[1].kind = "data" THEN Append(inflated, Len(inflated) + 1)
                                                    ELSE inflated
           /\ Len(inflated') = bufio[1].unit
           /\ dict' \in Seq(Units) /\ toRead' \in Seq(Units) /\ filled' \in 0 .. Window - 1
           /\ toRead' # <<>> => dict' = <<>>
           /\ reader' \in {"live", "failed"}
           /\ pending' = Tail(pending) /\ rest' = rest
           /\ Carries(Len(inflated'), pending', sent)
<1> DEFINE token == bufio[1]
           grown == IF token.kind = "data" THEN Append(dict, token.unit) ELSE dict
           full == token.kind = "data" /\ filled + 1 = Window
<1>1. /\ pc[c] = "read" /\ toRead = <<>> /\ reader = "live"
      /\ bufio # <<>> /\ bufio' = Tail(bufio)
      /\ UNCHANGED <<mu, pc, closed, writers, frame, result>>
    BY DEF Inflate, Reading
<1>2. /\ reader' \in {"live", "failed"}
      /\ \/ dict' = grown /\ toRead' = toRead
         \/ dict' = <<>> /\ toRead' = grown
      /\ filled' = IF full THEN 0 ELSE IF token.kind = "data" THEN filled + 1 ELSE filled
    BY <1>1 DEF Inflate
<1>3. ~closed
    BY <1>1 DEF Settled
<1>4. /\ token \in Token /\ rest' = rest /\ pending # <<>> /\ pending[1] = token
      /\ pending' = Tail(pending)
    BY <1>1, TakeEffect
<1>5. /\ pending \in Seq(Token) /\ Len(inflated) \in Nat /\ sent \in Nat
      /\ inflated \in Seq(Nat)
    BY Lists
<1>6. /\ token.unit \in Nat /\ token.unit = Len(inflated) + Weight(token) /\ token.unit <= sent
      /\ Carries(token.unit, pending', sent)
    BY <1>1, <1>4, <1>5, CarriesTail DEF Continues
<1>7. /\ delivered \in Seq(Units) /\ out \in Seq(Units) /\ dict \in Seq(Units)
      /\ filled \in 0 .. Window - 1
    BY DEF TypeOK
<1>8. filled' \in 0 .. Window - 1
    BY <1>2, <1>7, SizeAssumption
<1>9. grown \in Seq(Units)
  <2>1. token.kind = "data" => token.unit \in Units
      BY <1>5, <1>6 DEF Weight, Units
  <2> HIDE DEF token
  <2> QED BY <1>7, <2>1
<1>10. <<>> \in Seq(Units) /\ toRead \in Seq(Units)
    BY <1>1
<1>11. dict' \in Seq(Units) /\ toRead' \in Seq(Units) /\ (toRead' # <<>> => dict' = <<>>)
    BY <1>1, <1>2, <1>9, <1>10
<1>12. (delivered \o out) \in Seq(Nat) /\ dict \in Seq(Nat) /\ inflated = (delivered \o out) \o dict
  <2>1. dict \in Seq(Nat) /\ delivered \in Seq(Nat) /\ out \in Seq(Nat)
      BY Lists
  <2> QED BY <1>1, <2>1 DEF inflated
<1>13. inflated' = (delivered \o out) \o grown
  <2>1. grown \in Seq(Units) /\ toRead' \o dict' = grown
      BY <1>1, <1>2, <1>9, <1>10
  <2> HIDE DEF grown
  <2> QED BY <1>1, <2>1 DEF inflated, result
<1>14. inflated' = IF token.kind = "data" THEN Append(inflated, Len(inflated) + 1) ELSE inflated
  <2>1. CASE token.kind = "data"
    <3>1. token.unit = Len(inflated) + 1
        BY <1>6, <2>1 DEF Weight
    <3>2. \A d, x \in Seq(Nat), u \in Nat : d \o Append(x, u) = Append(d \o x, u)
        OBVIOUS
    <3>3. inflated' = (delivered \o out) \o Append(dict, token.unit)
        BY <1>13, <2>1
    <3>4. (delivered \o out) \o Append(dict, token.unit) = Append((delivered \o out) \o dict, token.unit)
        BY <1>6, <1>12, <3>2
    <3> QED BY <1>12, <2>1, <3>1, <3>3, <3>4
  <2>2. CASE token.kind # "data"
      BY <1>12, <1>13, <2>2
  <2> QED BY <2>1, <2>2
<1>15. Len(inflated') = token.unit
  <2>1. CASE token.kind = "data"
      BY <1>5, <1>6, <1>14, <2>1 DEF Weight
  <2>2. CASE token.kind # "data"
      BY <1>5, <1>6, <1>14, <2>2 DEF Weight
  <2> QED BY <2>1, <2>2
<1>16. token.unit \in 0 .. sent
    BY <1>5, <1>6
<1> HIDE DEF token, grown, full
<1>17. Carries(Len(inflated'), pending', sent)
    BY <1>6, <1>15
<1> QED BY <1>1, <1>2, <1>3, <1>4, <1>6, <1>8, <1>11, <1>14, <1>15, <1>16, <1>17 DEF token

LEMMA DataStep == IndInv /\ [Next]_vars => DataOK'
<1> SUFFICES ASSUME IndInv, [Next]_vars PROVE DataOK'
    OBVIOUS
<1>0. TypeOK /\ DataOK /\ Settled /\ Places /\ Continues
    BY TypeParts DEF IndInv
<1>1. ASSUME UNCHANGED <<writers, bufio, filled, frame, dict, toRead, out, delivered>>
      PROVE  DataOK'
    BY <1>0, <1>1 DEF DataOK, Units, frame
<1>2. ASSUME NEW c \in Callers, Lock(c) PROVE DataOK'
  <2>1. PICK f : /\ sent' = sent + UnitsUpTo(f, Len(f)) /\ UnitsUpTo(f, Len(f)) \in Nat
                 /\ writers' \in Seq(Writer)
      BY <1>0, <1>2, LockEffect, Zenon
  <2>2. before' = sent /\ UNCHANGED <<bufio, inflate, out, delivered>>
      BY <1>2 DEF Lock
  <2>3. sent' \in Nat /\ before' \in 0 .. sent' /\ Units \subseteq Units'
      BY <1>0, <2>1, <2>2 DEF DataOK, Units
  <2>4. \A s \in Seq(Units) : s \in Seq(Units')
      BY <2>3, SeqMonotonic
  <2>5. /\ dict' \in Seq(Units') /\ toRead' \in Seq(Units') /\ out' \in Seq(Units')
        /\ delivered' \in Seq(Units') /\ bufio' \in Seq(Token) /\ filled' \in 0 .. Window - 1
      BY <1>0, <2>2, <2>4 DEF DataOK, inflate
  <2> QED BY <2>1, <2>3, <2>5 DEF DataOK
<1>3. ASSUME NEW w, Write(w) PROVE DataOK'
  <2>1. /\ writers' \in Seq(Writer)
        /\ UNCHANGED <<bufio, filled, frame, dict, toRead, out, delivered>>
      BY <1>0, <1>3, WriteEffect DEF inflate, result
  <2> QED BY <1>0, <2>1 DEF DataOK, Units, frame
<1>4. ASSUME NEW c \in Callers, Fill(c) PROVE DataOK'
  <2>1. /\ writers' \in Seq(Writer) /\ bufio' \in Seq(Token)
        /\ UNCHANGED <<filled, frame, dict, toRead, out, delivered>>
      BY <1>0, <1>4, FillEffect DEF Fill, inflate, result
  <2> QED BY <1>0, <2>1 DEF DataOK, Units, frame
<1>5. ASSUME NEW c \in Callers, Open(c) \/ Close(c) PROVE DataOK'
  <2>1. /\ dict' = <<>> /\ filled' = 0 /\ toRead' = <<>>
        /\ UNCHANGED <<writers, frame, out, delivered>>
      BY <1>5 DEF Open, Close, FreshInflate, result
  <2>2. bufio' \in Seq(Token)
    <3>1. bufio \in Seq(Token) /\ (bufio' = <<>> \/ (bufio # <<>> /\ bufio' = Tail(bufio)))
        BY <1>0, <1>5 DEF Open, Close, DataOK
    <3>2. CASE bufio' = <<>>
        BY <3>2
    <3>3. CASE bufio # <<>> /\ bufio' = Tail(bufio)
        BY <3>1, <3>3
    <3> QED BY <3>1, <3>2, <3>3
  <2>3. Units' = Units
      BY <2>1 DEF Units, frame
  <2>4. dict' \in Seq(Units) /\ toRead' \in Seq(Units) /\ filled' \in 0 .. Window - 1
      BY <2>1, SizeAssumption
  <2> QED BY <1>0, <2>1, <2>2, <2>3, <2>4 DEF DataOK, frame
<1>6. ASSUME NEW c \in Callers, Inflate(c) PROVE DataOK'
  <2>1. /\ dict' \in Seq(Units) /\ toRead' \in Seq(Units) /\ filled' \in 0 .. Window - 1
        /\ bufio # <<>> /\ bufio' = Tail(bufio) /\ UNCHANGED <<writers, frame, out, delivered>>
      BY <1>0, <1>6, InflateEffect DEF result
  <2>2. bufio' \in Seq(Token)
      BY <1>0, <2>1 DEF DataOK
  <2>3. Units' = Units
      BY <2>1 DEF Units, frame
  <2> QED BY <1>0, <2>1, <2>2, <2>3 DEF DataOK, frame
<1>7. ASSUME NEW c \in Callers, Read(c) PROVE DataOK'
  <2>1. /\ toRead' \in Seq(Units) /\ out' \in Seq(Units) /\ delivered' \in Seq(Units)
        /\ UNCHANGED <<writers, bufio, frame, filled, dict>>
      BY <1>0, <1>7, ReadEffect DEF pipe
  <2>2. Units' = Units
      BY <2>1 DEF Units, frame
  <2> QED BY <1>0, <2>1, <2>2 DEF DataOK, frame
<1>8. ASSUME out' = <<>>, delivered' \in Seq(Units),
             UNCHANGED <<writers, bufio, filled, frame, dict, toRead>>
      PROVE  DataOK'
  <2>1. Units' = Units /\ out' \in Seq(Units)
      BY <1>8 DEF Units, frame
  <2> QED BY <1>0, <1>8, <2>1 DEF DataOK, frame
<1>9. ASSUME NEW c \in Callers, Join(c) PROVE DataOK'
  <2>1. /\ out' = <<>> /\ delivered' \in Seq(Units)
        /\ UNCHANGED <<writers, bufio, filled, frame, dict, toRead>>
      BY <1>0, <1>9, JoinEffect DEF Join, pipe, inflate
  <2> QED BY <1>8, <2>1
<1>10. ASSUME NEW c \in Callers, ReadError(c) \/ Select(c) PROVE DataOK'
  <2>1. UNCHANGED <<writers, bufio, filled, frame, dict, toRead, sent>>
      BY <1>10 DEF ReadError, Select, pipe, inflate, frame
  <2>2. CASE \E how : Return(c, how, out)
    <3>1. out' = <<>> /\ delivered' \in Seq(Units)
        BY <1>0, <2>1, <2>2, ReturnEffect
    <3> QED BY <1>8, <2>1, <3>1
  <2>3. CASE UNCHANGED result
      BY <1>1, <2>1, <2>3 DEF result
  <2> QED BY <1>10, <2>2, <2>3 DEF ReadError, Select
<1>11. ASSUME NEW c \in Callers, Call(c) \/ CallClose(c) PROVE DataOK'
    BY <1>1, <1>11 DEF Call, CallClose, pipe, inflate, result
<1>12. CASE UNCHANGED vars
    BY <1>1, <1>12 DEF vars, pipe, inflate, result
<1> QED BY <1>2, <1>3, <1>4, <1>5, <1>6, <1>7, <1>9, <1>10, <1>11, <1>12 DEF Next, Run

LEMMA TypeStep == IndInv /\ [Next]_vars => TypeOK'
<1>1. ControlOK' /\ DataOK' => TypeOK'
    BY TypeParts, PTL
<1> QED BY <1>1, ControlStep, DataStep DEF IndInv

(* The writers of earlier calls have finished.                             *)
LEMMA SettledStep == IndInv /\ [Next]_vars => Settled'
<1> SUFFICES ASSUME IndInv, [Next]_vars PROVE Settled'
    OBVIOUS
<1>0. /\ TypeOK /\ Settled /\ Places /\ Continues
      /\ writers \in Seq(Writer) /\ Len(writers) \in Nat
    BY DEF IndInv, TypeOK
<1>1. ASSUME UNCHANGED writers, closed' = closed, reader' = "failed" \/ UNCHANGED <<reader, mu>>,
             closed => reader' = "nil"
      PROVE  Settled'
    BY <1>0, <1>1 DEF Settled
<1>2. ASSUME NEW c \in Callers, Lock(c) PROVE Settled'
  <2>1. /\ Len(writers') = Len(writers) + 1
        /\ \A v \in 1 .. Len(writers) : writers'[v] = writers[v]
        /\ writers'[Len(writers')].state # "done"
      BY <1>0, <1>2, LockEffect, Zenon
  <2>2. /\ mu = NoCaller /\ mu' = c /\ mu' # NoCaller /\ UNCHANGED <<reader, closed>>
      BY <1>2, CallerAssumption DEF Lock, Acquire
  <2>3. \A v \in 1 .. Len(writers') : v \in 1 .. Len(writers) \/ v = Len(writers')
      BY <1>0, <2>1
  <2> QED BY <1>0, <2>1, <2>2, <2>3 DEF Settled
<1>3. ASSUME NEW w, Write(w) PROVE Settled'
  <2>1. /\ Len(writers') = Len(writers) /\ w \in 1 .. Len(writers)
        /\ \A v \in 1 .. Len(writers) : /\ writers'[v].left = writers[v].left
                                        /\ v # w => writers'[v] = writers[v]
        /\ writers[w].state # "done"
        /\ \/ writers'[w].state = "writing"
           \/ writers'[w].state = "done" /\ (closed \/ writers[w].left = <<>>)
        /\ UNCHANGED <<mu, reader, closed>>
      BY <1>0, <1>3, WriteEffect
  <2> QED BY <1>0, <2>1 DEF Settled
<1>4. ASSUME NEW c \in Callers, Fill(c) PROVE Settled'
  <2>1. /\ Len(writers') = Len(writers) /\ writers[Len(writers)].state # "done"
        /\ \A v \in 1 .. Len(writers) : /\ writers'[v].state = writers[v].state
                                        /\ v # Len(writers) => writers'[v] = writers[v]
      BY <1>0, <1>4, FillEffect
  <2>2. UNCHANGED <<mu, reader, closed>>
      BY <1>4 DEF Fill
  <2> QED BY <1>0, <2>1, <2>2 DEF Settled
<1>5. ASSUME NEW c \in Callers, Open(c) PROVE Settled'
  <2>1. /\ UNCHANGED <<mu, closed, writers>> /\ pc[c] = "open" /\ reader = "nil"
        /\ reader' = "live" => bufio # <<>>
        /\ reader' \in {"live", "nil"}
      BY <1>0, <1>5 DEF Open, Places
  <2>2. closed => reader' = "nil"
      BY <1>0, <2>1 DEF Places
  <2> QED BY <1>0, <2>1, <2>2 DEF Settled
<1>6. ASSUME NEW c \in Callers, Joined, mu' = NoCaller, UNCHANGED <<writers, reader, closed>>
      PROVE  Settled'
    BY <1>0, <1>6 DEF Settled, Joined
<1>7. ASSUME NEW c \in Callers, Join(c) PROVE Settled'
    BY <1>6, <1>7 DEF Join, Return, pipe
<1>8. ASSUME NEW c \in Callers, Inflate(c) PROVE Settled'
  <2>1. /\ UNCHANGED <<mu, closed, writers>> /\ ~closed /\ reader = "live"
        /\ reader' \in {"live", "failed"}
      BY <1>0, <1>8, InflateEffect
  <2> QED BY <1>0, <2>1 DEF Settled
<1>9. ASSUME NEW c \in Callers, Read(c) PROVE Settled'
  <2>1. UNCHANGED <<writers, reader, closed>> /\ (reader = "failed" \/ UNCHANGED mu)
      BY <1>0, <1>9, ReadEffect DEF pipe
  <2> QED BY <1>0, <1>1, <2>1 DEF Settled
<1>10. ASSUME NEW c \in Callers, ReadError(c) PROVE Settled'
  <2>1. UNCHANGED <<writers, reader, closed>> /\ reader = "failed"
      BY <1>10 DEF ReadError, pipe
  <2> QED BY <1>0, <1>1, <2>1 DEF Settled
<1>11. ASSUME NEW c \in Callers, Select(c) PROVE Settled'
  <2>1. UNCHANGED <<writers, reader, closed>>
      BY <1>11 DEF Select, pipe
  <2>2. CASE Joined
      BY <1>6, <1>11, <2>1, <2>2 DEF Select, Return
  <2>3. CASE ~Joined
      BY <1>0, <1>1, <1>11, <2>1, <2>3 DEF Select, Settled
  <2> QED BY <2>2, <2>3
<1>12. ASSUME NEW c \in Callers, Close(c) PROVE Settled'
    BY <1>12 DEF Close, ClosePipe, Settled
<1>13. ASSUME NEW c \in Callers, Call(c) \/ CallClose(c) PROVE Settled'
    BY <1>0, <1>1, <1>13 DEF Call, CallClose, pipe, Settled
<1>14. CASE UNCHANGED vars
    BY <1>0, <1>1, <1>14 DEF vars, pipe, Settled
<1> QED BY <1>2, <1>3, <1>4, <1>5, <1>7, <1>8, <1>9, <1>10, <1>11, <1>12, <1>13, <1>14
        DEF Next, Run

(* A caller inside Decode is alone in it.                                  *)
LEMMA Alone ==
    ASSUME TypeOK, NEW c \in Callers, pc[c] \in Inside
    PROVE  /\ mu = c /\ mu # NoCaller
           /\ \A d \in Callers : d # c => pc[d] \notin Inside
<1>1. \A d \in Callers : pc[d] \in Inside => mu = d
    BY DEF TypeOK
<1> QED BY <1>1, CallerAssumption

(* What each place knows stays true.                                       *)
LEMMA PlacesStep == IndInv /\ [Next]_vars => Places'
<1> SUFFICES ASSUME IndInv, [Next]_vars PROVE Places'
    OBVIOUS
<1>0. /\ TypeOK /\ Settled /\ Places /\ Continues
      /\ pc \in [Callers -> Inside \cup {"idle", "lock", "closing", "closed"}]
    BY DEF IndInv, TypeOK
<1>1. ASSUME NEW c \in Callers, pc[c] \in Inside,
             NEW place, Goto(c, place)
      PROVE  pc' \in [Callers -> Inside \cup {"idle", "lock", "closing", "closed", place}]
             /\ pc'[c] = place /\ \A d \in Callers : d # c => pc'[d] \notin Inside
    BY <1>0, <1>1, Alone DEF Goto
<1>2. ASSUME NEW c \in Callers, Lock(c) PROVE Places'
  <2>1. PICK f : /\ writers' # <<>>
                 /\ pc' = [pc EXCEPT ![c] = IF reader = "nil" THEN "open"
                                            ELSE IF isZlibFlush(f) THEN "read" ELSE "join"]
      BY <1>0, <1>2, LockEffect, Zenon
  <2>2. /\ mu = NoCaller /\ mu' = c /\ mu' # NoCaller
        /\ UNCHANGED <<reader, closed, bufio, dict, toRead, out, delivered>>
      BY <1>2, CallerAssumption DEF Lock, Acquire, inflate
  <2>3. \A d \in Callers : pc[d] \notin Inside
      BY <1>0, <2>2, CallerAssumption DEF TypeOK
  <2>4. /\ pc'[c] \in {"open", "read", "join"} /\ (pc'[c] = "open" <=> reader = "nil")
        /\ \A d \in Callers : d # c => pc'[d] \notin Inside
      BY <1>0, <2>1, <2>3
  <2>5. bufio # <<>> => reader # "nil"
      BY <1>0, <2>2 DEF Places
  <2>6. /\ out' = <<>> /\ (closed' => bufio' = <<>>) /\ (toRead' # <<>> => dict' = <<>>)
        /\ reader' = "nil" =>
              toRead' = <<>> /\ dict' = <<>> /\ (~closed' => delivered' = <<>>)
      BY <1>0, <2>2 DEF Places
  <2> QED BY <2>1, <2>2, <2>4, <2>5, <2>6 DEF Places, Inside
<1>3. ASSUME UNCHANGED <<mu, pc, reader, closed, bufio, sent, dict, toRead, out, delivered>>,
             writers' = <<>> => writers = <<>>
      PROVE  Places'
    BY <1>0, <1>3 DEF Places
<1>4. ASSUME NEW w, Write(w) PROVE Places'
  <2>1. writers' = <<>> => writers = <<>>
    <3>1. writers \in Seq(Writer) /\ writers' \in Seq(Writer) /\ Len(writers') = Len(writers)
        BY <1>0, <1>4, WriteEffect DEF TypeOK
    <3> QED BY <3>1
  <2> QED BY <1>3, <1>4, <2>1 DEF Write, inflate, frame, result
<1>5. ASSUME NEW c \in Callers, Fill(c) PROVE Places'
  <2>1. writers # <<>> /\ ~closed /\ pc[c] \in {"open", "read"}
      BY <1>0, <1>5, FillEffect DEF Fill, Reading
  <2>2. UNCHANGED <<mu, pc, reader, closed, sent, dict, toRead, out, delivered>>
      BY <1>5 DEF Fill, inflate, frame, result
  <2>3. mu = c /\ mu # NoCaller /\ (reader = "nil" => pc[c] = "open")
      BY <1>0, <2>1, Alone DEF Inside, Places
  <2>4. writers' # <<>>
    <3>1. writers \in Seq(Writer) /\ writers' \in Seq(Writer) /\ Len(writers') = Len(writers)
        BY <1>0, <1>5, FillEffect DEF TypeOK
    <3> QED BY <2>1, <3>1
  <2> QED BY <1>0, <2>1, <2>2, <2>3, <2>4 DEF Places
<1>6. ASSUME NEW c \in Callers, Open(c) PROVE Places'
  <2>1. /\ pc[c] = "open" /\ reader = "nil" /\ out = <<>> /\ mu = c /\ mu # NoCaller
        /\ dict' = <<>> /\ toRead' = <<>>
        /\ UNCHANGED <<mu, closed, writers, sent, out, delivered>>
      BY <1>0, <1>6, Alone DEF Open, FreshInflate, Places, Inside, frame, result
  <2>2. PICK place \in {"read", "join", "joinError"} :
            /\ Goto(c, place)
            /\ IF place = "joinError" THEN reader' = reader /\ bufio' = <<>>
               ELSE reader' = "live" /\ bufio # <<>> /\ bufio' = Tail(bufio)
    <3>1. CASE bufio # <<>> /\ bufio[1].kind = "header"
        BY <1>6, <3>1 DEF Open
    <3>2. CASE ~(bufio # <<>> /\ bufio[1].kind = "header")
        BY <1>6, <3>2 DEF Open
    <3> QED BY <3>1, <3>2
  <2>3. pc'[c] = place /\ \A d \in Callers : d # c => pc'[d] \notin Inside
      BY <1>1, <2>1, <2>2 DEF Inside
  <2> QED BY <1>0, <2>1, <2>2, <2>3 DEF Places, Inside
<1>7. ASSUME NEW c \in Callers, NEW how, NEW got, Return(c, how, got),
             pc[c] \in Inside \ {"open"}, UNCHANGED <<reader, closed, bufio, sent, dict>>,
             writers' = writers, toRead' = toRead \/ (toRead' = <<>> /\ reader # "nil"),
             reader = "nil" => delivered' = delivered
      PROVE  Places'
  <2>1. /\ mu = c /\ mu # NoCaller /\ mu' = NoCaller /\ out' = <<>>
        /\ pc' = [pc EXCEPT ![c] = "idle"]
      BY <1>0, <1>7, Alone DEF Return, Goto
  <2>2. \A d \in Callers : pc'[d] \notin Inside
      BY <1>0, <1>1, <1>7, <2>1 DEF Inside, Goto
  <2>3. bufio # <<>> => reader # "nil"
      BY <1>0, <1>7, <2>1 DEF Places
  <2> QED BY <1>0, <1>7, <2>1, <2>2, <2>3 DEF Places, Inside
<1>8. ASSUME NEW c \in Callers, Join(c) PROVE Places'
  <2>1. /\ pc[c] \in Inside \ {"open"} /\ delivered' = delivered
        /\ UNCHANGED <<reader, closed, bufio, sent, dict, writers, toRead>>
      BY <1>0, <1>8, JoinEffect DEF Join, pipe, inflate, frame, Inside
  <2> QED BY <1>7, <1>8, <2>1 DEF Join
<1>9. ASSUME NEW c \in Callers, Inflate(c) PROVE Places'
  <2>1. /\ reader = "live" /\ ~closed /\ pc[c] = "read" /\ (toRead' # <<>> => dict' = <<>>)
        /\ UNCHANGED <<mu, pc, closed, writers, frame, result>> /\ reader' \in {"live", "failed"}
      BY <1>0, <1>9, InflateEffect
  <2>2. pc[c] \in Inside
      BY <2>1 DEF Inside
  <2>3. mu # NoCaller /\ \A d \in Callers : d # c => pc[d] \notin Inside
      BY <1>0, <2>2, Alone
  <2>4. UNCHANGED <<sent, out, delivered>>
      BY <2>1 DEF frame, result
  <2>5. \A d \in Callers :
            /\ pc[d] \notin {"open", "joinError", "join", "select"}
            /\ pc[d] = "read" => reader' # "nil"
      BY <2>1, <2>3 DEF Inside
  <2> QED BY <1>0, <2>1, <2>3, <2>4, <2>5 DEF Places
<1>10. ASSUME NEW c \in Callers, Read(c) PROVE Places'
  <2>1. /\ pc[c] = "read" /\ toRead # <<>> /\ UNCHANGED <<reader, closed, bufio, writers, sent, dict>>
        /\ reader # "nil" /\ pc[c] \in Inside \ {"open"} /\ dict = <<>>
      BY <1>0, <1>10, ReadEffect DEF pipe, frame, Places, Inside
  <2>2. CASE \E got : Return(c, "error", got) /\ reader = "failed"
    <3>1. PICK got : Return(c, "error", got) /\ reader = "failed"
        BY <2>2
    <3>2. mu' = NoCaller /\ out' = <<>> /\ pc' = [pc EXCEPT ![c] = "idle"]
        BY <3>1 DEF Return, Goto
    <3>3. \A d \in Callers : pc'[d] \notin Inside
        BY <1>0, <1>1, <2>1, <3>2 DEF Inside, Goto
    <3> QED BY <1>0, <2>1, <3>2, <3>3 DEF Places, Inside
  <2>3. CASE /\ UNCHANGED <<mu, delivered, outcome>>
             /\ Goto(c, "read") \/ (Goto(c, "select") /\ reader # "failed" /\ toRead' = <<>>)
    <3>1. /\ mu' # NoCaller /\ \A d \in Callers : d # c => pc'[d] \notin Inside
          /\ \/ pc'[c] = "read"
             \/ pc'[c] = "select" /\ reader # "failed" /\ toRead' = <<>>
        BY <1>0, <1>1, <2>1, <2>3, Alone
    <3>2. reader \in {"live", "failed"}
        BY <1>0, <2>1 DEF TypeOK
    <3> QED BY <1>0, <2>1, <2>3, <3>1, <3>2 DEF Places, Inside
  <2> QED BY <1>0, <1>10, <2>2, <2>3, ReadEffect
<1>11. ASSUME NEW c \in Callers, ReadError(c) \/ Select(c) PROVE Places'
  <2>1. /\ pc[c] \in {"read", "select"} /\ pc[c] \in Inside \ {"open"} /\ reader # "nil"
        /\ UNCHANGED <<reader, closed, bufio, writers, sent, dict, toRead>>
      BY <1>0, <1>11 DEF ReadError, Select, pipe, inflate, frame, Places, Inside
  <2>2. CASE \E how : Return(c, how, out)
      BY <1>7, <2>1, <2>2
  <2>3. CASE Goto(c, "read") /\ UNCHANGED <<mu, result>>
    <3>1. /\ pc'[c] = "read" /\ mu' # NoCaller
          /\ \A d \in Callers : d # c => pc'[d] \notin Inside
        BY <1>0, <1>1, <2>1, <2>3, Alone
    <3> QED BY <1>0, <2>1, <2>3, <3>1 DEF Places, Inside, result
  <2> QED BY <1>11, <2>2, <2>3 DEF ReadError, Select
<1>12. ASSUME NEW c \in Callers, Call(c) \/ CallClose(c) PROVE Places'
  <2>1. PICK place \in {"lock", "closing"} :
            pc[c] = "idle" /\ pc' = [pc EXCEPT ![c] = place]
      BY <1>12 DEF Call, CallClose, Goto
  <2>2. UNCHANGED <<mu, reader, closed, writers, bufio, sent, dict, toRead, out, delivered>>
      BY <1>12 DEF Call, CallClose, pipe, inflate, frame, result
  <2>3. \A d \in Callers : pc'[d] = pc[d] \/ pc'[d] \notin Inside
      BY <1>0, <2>1 DEF Inside
  <2>4. bufio # <<>> /\ reader = "nil" => pc'[mu] = "open"
    <3>1. bufio # <<>> /\ reader = "nil" => mu \in Callers /\ pc[mu] = "open"
        BY <1>0 DEF Places, TypeOK
    <3> QED BY <1>0, <2>1, <3>1
  <2> QED BY <1>0, <2>2, <2>3, <2>4 DEF Places, Inside
<1>13. ASSUME NEW c \in Callers, Close(c) PROVE Places'
  <2>1. /\ mu = NoCaller /\ pc[c] = "closing" /\ pc' = [pc EXCEPT ![c] = "closed"] /\ closed'
        /\ reader' = "nil" /\ bufio' = <<>> /\ dict' = <<>> /\ toRead' = <<>>
        /\ UNCHANGED <<mu, writers, sent, out, delivered>>
      BY <1>13 DEF Close, ClosePipe, FreshInflate, Goto, frame, result
  <2>2. \A d \in Callers : pc'[d] \notin Inside
      BY <1>0, <2>1, CallerAssumption DEF Inside, TypeOK
  <2> QED BY <1>0, <2>1, <2>2 DEF Places, Inside
<1>14. CASE UNCHANGED vars
    BY <1>3, <1>14 DEF vars, pipe, inflate, frame, result
<1> QED BY <1>2, <1>4, <1>5, <1>6, <1>8, <1>9, <1>10, <1>11, <1>12, <1>13, <1>14
        DEF Next, Run

(* What has been inflated stays in order: nothing but Inflate adds to it,  *)
(* and Close forgets only what nobody has read.                            *)
LEMMA InflatedStep ==
    ASSUME IndInv, [Next]_vars
    PROVE  /\ sent' >= sent
           /\ \/ inflated' = inflated
              \/ \E c \in Callers : Inflate(c)
              \/ /\ reader' = "nil" /\ closed'
                 /\ Len(inflated') <= Len(inflated)
                 /\ \A i \in 1 .. Len(inflated') : inflated'[i] = inflated[i]
<1>0. TypeOK /\ Settled /\ Places /\ Continues /\ sent \in Nat
    BY DEF IndInv, TypeOK
<1>1. ASSUME UNCHANGED <<sent, dict, toRead, out, delivered>>
      PROVE  sent' >= sent /\ inflated' = inflated
    BY <1>0, <1>1 DEF inflated
<1>2. ASSUME NEW c \in Callers, Lock(c) PROVE sent' >= sent /\ inflated' = inflated
  <2>1. PICK f : sent' = sent + UnitsUpTo(f, Len(f)) /\ UnitsUpTo(f, Len(f)) \in Nat
      BY <1>0, <1>2, LockEffect, Zenon
  <2>2. UNCHANGED <<dict, toRead, out, delivered>>
      BY <1>2 DEF Lock, inflate
  <2> QED BY <1>0, <2>1, <2>2 DEF inflated
<1>3. ASSUME NEW c \in Callers, Open(c) PROVE sent' >= sent /\ inflated' = inflated
  <2>1. reader = "nil" /\ dict' = <<>> /\ toRead' = <<>> /\ UNCHANGED <<sent, out, delivered>>
      BY <1>0, <1>3 DEF Open, FreshInflate, Places, frame, result
  <2>2. dict = <<>> /\ toRead = <<>>
      BY <1>0, <2>1 DEF Places
  <2> QED BY <1>1, <2>1, <2>2
<1>4. ASSUME NEW c \in Callers, Inflate(c) PROVE sent' >= sent
  <2>1. sent' = sent
      BY <1>4 DEF Inflate, frame
  <2> QED BY <1>0, <2>1
<1>5. ASSUME NEW c \in Callers, Read(c) PROVE sent' >= sent /\ inflated' = inflated
    BY <1>0, <1>5, ReadEffect DEF frame
<1>6. ASSUME NEW c \in Callers, Join(c) PROVE sent' >= sent /\ inflated' = inflated
    BY <1>0, <1>6, JoinEffect DEF Join, frame
<1>7. ASSUME NEW c \in Callers, ReadError(c) \/ Select(c)
      PROVE  sent' >= sent /\ inflated' = inflated
  <2>1. UNCHANGED <<sent, dict, toRead>>
      BY <1>7 DEF ReadError, Select, inflate, frame
  <2>2. CASE \E how : Return(c, how, out)
      BY <1>0, <2>1, <2>2, ReturnEffect
  <2>3. CASE UNCHANGED result
      BY <1>1, <2>1, <2>3 DEF result
  <2> QED BY <1>7, <2>2, <2>3 DEF ReadError, Select
<1>8. ASSUME NEW c \in Callers, Close(c)
      PROVE  /\ sent' >= sent /\ reader' = "nil" /\ closed'
             /\ Len(inflated') <= Len(inflated)
             /\ \A i \in 1 .. Len(inflated') : inflated'[i] = inflated[i]
  <2>1. /\ reader' = "nil" /\ closed' /\ dict' = <<>> /\ toRead' = <<>>
        /\ UNCHANGED <<sent, out, delivered>>
      BY <1>8 DEF Close, ClosePipe, FreshInflate, frame, result
  <2> DEFINE head == delivered \o out
             tail == toRead \o dict
  <2>2. head \in Seq(Nat) /\ tail \in Seq(Nat)
      BY <1>0, Lists
  <2>3. inflated = head \o tail
      BY DEF inflated
  <2>4. inflated' = head \o <<>>
      BY <2>1 DEF inflated
  <2> HIDE DEF head, tail
  <2>5. inflated' = head
      BY <2>2, <2>4
  <2> QED BY <1>0, <2>1, <2>2, <2>3, <2>5
<1>9. ASSUME NEW c \in Callers, Call(c) \/ CallClose(c) \/ Fill(c)
      PROVE  sent' >= sent /\ inflated' = inflated
    BY <1>1, <1>9 DEF Call, CallClose, Fill, inflate, frame, result
<1>10. ASSUME NEW w, Write(w) PROVE sent' >= sent /\ inflated' = inflated
    BY <1>1, <1>10 DEF Write, inflate, frame, result
<1>11. CASE UNCHANGED vars
    BY <1>1, <1>11 DEF vars, inflate, frame, result
<1> QED BY <1>2, <1>3, <1>4, <1>5, <1>6, <1>7, <1>8, <1>9, <1>10, <1>11 DEF Next, Run

LEMMA OrderedStep == IndInv /\ [Next]_vars => Ordered'
<1> SUFFICES ASSUME IndInv, [Next]_vars PROVE Ordered'
    OBVIOUS
<1>1. /\ inflated \in Seq(Nat) /\ Len(inflated) \in Nat /\ sent \in Nat /\ sent' >= sent
      /\ sent' \in Nat
    BY Lists, InflatedStep, TypeStep DEF IndInv, TypeOK
<1>2. CASE inflated' = inflated
    BY <1>1, <1>2 DEF IndInv, Ordered
<1>3. ASSUME NEW c \in Callers, Inflate(c) PROVE Ordered'
  <2>1. /\ bufio[1].unit \in 0 .. sent /\ Len(inflated') = bufio[1].unit
        /\ inflated' = IF bufio[1].kind = "data" THEN Append(inflated, Len(inflated) + 1)
                                                 ELSE inflated
      BY <1>3, InflateEffect DEF IndInv
  <2>2. \A i \in 1 .. Len(inflated') : inflated'[i] = i
    <3>1. CASE bufio[1].kind = "data"
      <4>1. /\ Len(inflated') = Len(inflated) + 1
            /\ \A i \in 1 .. Len(inflated) : inflated'[i] = inflated[i]
            /\ inflated'[Len(inflated) + 1] = Len(inflated) + 1
          BY <1>1, <2>1, <3>1
      <4>2. \A i \in 1 .. Len(inflated') : i \in 1 .. Len(inflated) \/ i = Len(inflated) + 1
          BY <1>1, <4>1
      <4> QED BY <4>1, <4>2 DEF IndInv, Ordered
    <3>2. CASE bufio[1].kind # "data"
        BY <2>1, <3>2 DEF IndInv, Ordered
    <3> QED BY <3>1, <3>2
  <2>3. Len(inflated') <= sent'
      BY <1>1, <2>1
  <2> QED BY <2>2, <2>3 DEF Ordered
<1>4. CASE /\ Len(inflated') <= Len(inflated) /\ reader' = "nil" /\ closed'
           /\ \A i \in 1 .. Len(inflated') : inflated'[i] = inflated[i]
  <2>1. Len(inflated') \in Nat
    <3>1. /\ delivered' \in Seq(Units') /\ out' \in Seq(Units') /\ toRead' \in Seq(Units')
          /\ dict' \in Seq(Units')
        BY DataStep DEF DataOK
    <3> QED BY <3>1 DEF inflated
  <2> QED BY <1>1, <1>4, <2>1 DEF IndInv, Ordered
<1> QED BY <1>2, <1>3, <1>4, InflatedStep

(* A call that starts on a live stream finds all that was sent before it   *)
(* in bufio; one that finds no stream finds an empty bufio.                *)
LEMMA BetweenCalls ==
    ASSUME TypeOK, Settled, Places, mu = NoCaller, ~closed, reader # "failed"
    PROVE  rest = <<>> /\ pending = bufio /\ (reader = "nil" => bufio = <<>>)
<1>1. writers \in Seq(Writer) /\ (writers # <<>> => Len(writers) \in 1 .. Len(writers))
    BY DEF TypeOK
<1>2. rest = <<>>
    BY <1>1 DEF Settled, rest
<1>3. bufio \in Seq(Token) /\ bufio \o <<>> = bufio
    BY DEF TypeOK
<1> QED BY <1>2, <1>3 DEF pending, Places

LEMMA ContinuesStep == IndInv /\ [Next]_vars => Continues'
<1> SUFFICES ASSUME IndInv, [Next]_vars PROVE Continues'
    OBVIOUS
<1>0. /\ TypeOK /\ Settled /\ Places /\ Continues
      /\ pc \in [Callers -> Inside \cup {"idle", "lock", "closing", "closed"}]
    BY DEF IndInv, TypeOK
<1>L. /\ sent \in Nat /\ Len(inflated) \in Nat /\ bufio \in Seq(Token)
      /\ pending \in Seq(Token)
    BY <1>0, Lists
<1>1. ASSUME UNCHANGED <<pending, sent, before, closed>>,
             reader' = reader, inflated' = inflated,
             \A d \in Callers : pc'[d] = "open" => pc[d] = "open"
      PROVE  Continues'
    BY <1>0, <1>1 DEF Continues
<1>2. ASSUME NEW c \in Callers, Lock(c) PROVE Continues'
  <2>1. PICK f \in FirstFrames \cup Frames :
            /\ f \in Seq(Kinds) \ {<<>>} /\ (writers # <<>> => f[1] # "header")
            /\ sent' = sent + UnitsUpTo(f, Len(f)) /\ UnitsUpTo(f, Len(f)) \in Nat
            /\ Number(f) \in Seq(Token) /\ Number(f) # <<>> /\ Number(f)[1].kind = f[1]
            /\ Carries(sent, Number(f), sent')
            /\ rest' = Number(f)
            /\ pc' = [pc EXCEPT ![c] = IF reader = "nil" THEN "open"
                                       ELSE IF isZlibFlush(f) THEN "read" ELSE "join"]
      BY <1>0, <1>2, LockEffect, Zenon
  <2>2. /\ mu = NoCaller /\ before' = sent /\ UNCHANGED <<reader, closed, bufio>>
        /\ inflated' = inflated
      BY <1>2 DEF Lock, Acquire, inflate, inflated
  <2>3. pending' = bufio \o Number(f)
      BY <2>1, <2>2 DEF pending
  <2>4. sent' \in Nat /\ sent <= sent'
      BY <1>L, <2>1
  <2>5. reader = "live" => Carries(Len(inflated), pending', sent')
    <3> SUFFICES ASSUME reader = "live" PROVE Carries(Len(inflated), pending', sent')
        OBVIOUS
    <3>1. Carries(Len(inflated), bufio, sent)
        BY <1>0, <2>2, BetweenCalls DEF Settled, Continues
    <3> QED BY <1>L, <2>1, <2>3, <2>4, <3>1, CarriesJoin
  <2>6. ASSUME NEW d \in Callers, pc'[d] = "open", ~closed', pending'[1].kind = "header"
        PROVE  Carries(0, pending', sent') /\ before' = 0
    <3>1. \A e \in Callers : pc[e] \notin Inside
        BY <1>0, <2>2, CallerAssumption DEF TypeOK
    <3>2. d = c /\ reader = "nil"
        BY <1>0, <2>1, <2>6, <3>1 DEF Inside
    <3>3. bufio = <<>>
        BY <1>0, <2>2, <2>6, <3>2, BetweenCalls
    <3>4. pending' = Number(f)
        BY <2>1, <2>3, <3>3
    <3>5. writers = <<>>
        BY <2>1, <2>6, <3>4
    <3>6. sent = 0
        BY <1>0, <3>5 DEF Places
    <3> QED BY <2>1, <2>2, <3>4, <3>6
  <2> QED BY <2>2, <2>5, <2>6 DEF Continues
<1>3. ASSUME NEW w, Write(w) PROVE Continues'
  <2>1. /\ pending' = pending
        /\ UNCHANGED <<pc, reader, closed, inflate, frame, result>>
      BY <1>0, <1>3, WriteEffect
  <2> QED BY <1>1, <2>1 DEF inflate, frame, result, inflated
<1>4. ASSUME NEW c \in Callers, Fill(c) PROVE Continues'
  <2>1. /\ pending' = pending
        /\ UNCHANGED <<pc, reader, closed, inflate, frame, result>>
      BY <1>0, <1>4, FillEffect DEF Fill
  <2> QED BY <1>1, <2>1 DEF inflate, frame, result, inflated
<1>5. ASSUME NEW c \in Callers, Open(c) PROVE Continues'
  <2>1. /\ pc[c] = "open" /\ pc[c] \in Inside /\ reader = "nil" /\ out = <<>>
        /\ UNCHANGED <<mu, closed, writers, frame, result>>
        /\ dict' = <<>> /\ toRead' = <<>>
      BY <1>0, <1>5 DEF Open, FreshInflate, Places, Inside
  <2>2. \A d \in Callers : pc'[d] # "open"
    <3>1. \A d \in Callers : d # c => pc[d] # "open"
        BY <1>0, <2>1, Alone DEF Inside
    <3>2. PICK place \in {"read", "join", "joinError"} : pc' = [pc EXCEPT ![c] = place]
        BY <1>5 DEF Open, Goto
    <3> QED BY <1>0, <3>1, <3>2
  <2>3. ASSUME reader' = "live" PROVE Carries(Len(inflated'), pending', sent')
    <3>1. bufio # <<>> /\ bufio[1].kind = "header" /\ bufio' = Tail(bufio)
        BY <1>5, <2>1, <2>3 DEF Open
    <3>2. pending # <<>> /\ pending[1] = bufio[1] /\ pending' = Tail(pending)
        BY <1>0, <2>1, <3>1, TakeEffect
    <3>3. ~closed
        BY <1>0, <3>1 DEF Places
    <3>4. Carries(0, pending, sent)
        BY <1>0, <2>1, <3>1, <3>2, <3>3 DEF Continues
    <3>5. pending[1].unit = 0 + Weight(pending[1]) /\ Carries(pending[1].unit, pending', sent)
        BY <1>L, <3>2, <3>4, CarriesTail
    <3>6. pending[1].unit = 0
        BY <3>1, <3>2, <3>5 DEF Weight
    <3>7. inflated' = (<<>> \o <<>>) \o (<<>> \o <<>>)
        BY <1>0, <2>1, <3>3 DEF Places, inflated, result
    <3>8. Len(inflated') = 0
        BY <3>7
    <3> QED BY <2>1, <3>5, <3>6, <3>8 DEF frame
  <2> QED BY <2>2, <2>3 DEF Continues
<1>6. ASSUME NEW c \in Callers, pc[c] \in Inside, NEW place, Goto(c, place), place # "open",
             UNCHANGED <<pending, sent, before, closed, reader>>, inflated' = inflated
      PROVE  Continues'
  <2>1. \A d \in Callers : pc'[d] # "open"
    <3>1. \A d \in Callers : d # c => pc[d] # "open"
        BY <1>0, <1>6, Alone DEF Inside
    <3> QED BY <1>0, <1>6, <3>1 DEF Goto
  <2> QED BY <1>1, <1>6, <2>1
<1>7. ASSUME NEW c \in Callers, Join(c) PROVE Continues'
  <2>1. /\ pc[c] \in Inside /\ Goto(c, "idle") /\ inflated' = inflated
        /\ UNCHANGED <<pending, sent, before, closed, reader>>
      BY <1>0, <1>7, JoinEffect DEF Join, Return, Inside, pipe, frame, pending, rest
  <2> QED BY <1>6, <2>1
<1>8. ASSUME NEW c \in Callers, Inflate(c) PROVE Continues'
  <2>1. /\ pc[c] = "read" /\ UNCHANGED <<mu, pc, closed, writers, frame, result>>
        /\ Carries(Len(inflated'), pending', sent)
      BY <1>0, <1>8, InflateEffect
  <2>2. \A d \in Callers : pc[d] # "open"
    <3>1. pc[c] \in Inside
        BY <2>1 DEF Inside
    <3>2. \A d \in Callers : d # c => pc[d] \notin Inside
        BY <1>0, <3>1, Alone
    <3> QED BY <2>1, <3>2 DEF Inside
  <2> QED BY <2>1, <2>2 DEF Continues, frame
<1>9. ASSUME NEW c \in Callers, Read(c) PROVE Continues'
  <2>1. /\ pc[c] \in Inside /\ inflated' = inflated
        /\ UNCHANGED <<pending, sent, before, closed, reader>>
      BY <1>0, <1>9, ReadEffect DEF Inside, pipe, frame, pending, rest
  <2>2. PICK place \in {"idle", "read", "select"} : Goto(c, place)
      BY <1>0, <1>9, ReadEffect DEF Return
  <2> QED BY <1>6, <2>1, <2>2
<1>10. ASSUME NEW c \in Callers, ReadError(c) \/ Select(c) PROVE Continues'
  <2>1. /\ pc[c] \in Inside /\ UNCHANGED <<pending, sent, before, closed, reader, toRead, dict>>
      BY <1>10 DEF ReadError, Select, Inside, pipe, inflate, frame, pending, rest
  <2>2. PICK place \in {"idle", "read"} : Goto(c, place)
      BY <1>10 DEF ReadError, Select, Return
  <2>3. inflated' = inflated
    <3>1. CASE \E how : Return(c, how, out)
        BY <1>0, <2>1, <3>1, ReturnEffect
    <3>2. CASE UNCHANGED result
        BY <2>1, <3>2 DEF result, inflated
    <3> QED BY <1>10, <3>1, <3>2 DEF ReadError, Select
  <2> QED BY <1>6, <2>1, <2>2, <2>3
<1>11. ASSUME NEW c \in Callers, Call(c) \/ CallClose(c) PROVE Continues'
  <2>1. PICK place \in {"lock", "closing"} : pc' = [pc EXCEPT ![c] = place]
      BY <1>11 DEF Call, CallClose, Goto
  <2>2. \A d \in Callers : pc'[d] = "open" => pc[d] = "open"
      BY <1>0, <2>1
  <2>3. /\ UNCHANGED <<pending, sent, before, closed, reader>> /\ inflated' = inflated
      BY <1>11 DEF Call, CallClose, pipe, inflate, frame, result, pending, rest, inflated
  <2> QED BY <1>1, <2>2, <2>3
<1>12. ASSUME NEW c \in Callers, Close(c) PROVE Continues'
  <2>1. mu = NoCaller /\ pc' = [pc EXCEPT ![c] = "closed"] /\ reader' = "nil"
      BY <1>12 DEF Close, Goto
  <2>2. closed' /\ \A d \in Callers : pc'[d] # "open"
    <3>1. \A d \in Callers : pc[d] \notin Inside
        BY <1>0, <2>1, CallerAssumption DEF TypeOK
    <3> QED BY <1>0, <1>12, <2>1, <3>1 DEF Inside, Close, ClosePipe
  <2> QED BY <2>1, <2>2 DEF Continues
<1>13. CASE UNCHANGED vars
    BY <1>1, <1>13 DEF vars, pipe, inflate, frame, result, pending, rest, inflated
<1> QED BY <1>2, <1>3, <1>4, <1>5, <1>7, <1>8, <1>9, <1>10, <1>11, <1>12, <1>13
        DEF Next, Run

(* A call that reads still has the earlier frames ahead of its own.        *)
LEMMA EarlierStep == IndInv /\ [Next]_vars => EarlierFirst'
<1> SUFFICES ASSUME IndInv, [Next]_vars PROVE EarlierFirst'
    OBVIOUS
<1>0. /\ TypeOK /\ Settled /\ Places /\ Continues /\ EarlierFirst
      /\ pc \in [Callers -> Inside \cup {"idle", "lock", "closing", "closed"}]
    BY DEF IndInv, TypeOK
<1>L. /\ sent \in Nat /\ before \in Nat /\ before <= sent /\ Len(inflated) \in Nat
      /\ bufio \in Seq(Token)
    BY <1>0, Lists
<1>1. ASSUME UNCHANGED <<bufio, rest, before>>, reader' = reader, inflated' = inflated,
             \A d \in Callers : pc'[d] \in {"read", "select"} => pc[d] \in {"read", "select"}
      PROVE  EarlierFirst'
    BY <1>0, <1>1 DEF EarlierFirst
<1>2. ASSUME NEW c \in Callers, NEW place, Goto(c, place), UNCHANGED <<bufio, rest, before>>,
             reader' = reader, inflated' = inflated,
             place \in {"read", "select"} => pc[c] \in {"read", "select"}
      PROVE  EarlierFirst'
  <2>1. \A d \in Callers : pc'[d] \in {"read", "select"} => pc[d] \in {"read", "select"}
      BY <1>0, <1>2 DEF Goto
  <2> QED BY <1>1, <1>2, <2>1
<1>3. ASSUME NEW c \in Callers, Lock(c) PROVE EarlierFirst'
  <2>1. PICK f \in FirstFrames \cup Frames :
            /\ Number(f) # <<>> /\ rest' = Number(f)
      BY <1>0, <1>3, LockEffect, Zenon
  <2>2. /\ mu = NoCaller /\ before' = sent /\ UNCHANGED <<reader, closed, bufio>>
        /\ inflated' = inflated
      BY <1>3 DEF Lock, Acquire, inflate, inflated
  <2>3. ASSUME reader = "live" PROVE End(Len(inflated), bufio) = sent
    <3>1. Carries(Len(inflated), bufio, sent)
        BY <1>0, <2>2, <2>3, BetweenCalls DEF Settled, Continues
    <3> QED BY <3>1 DEF Carries
  <2> QED BY <2>1, <2>2, <2>3 DEF EarlierFirst
<1>4. ASSUME NEW w, Write(w) PROVE EarlierFirst'
  <2>1. /\ rest' = rest
        /\ UNCHANGED <<pc, reader, closed, bufio, inflate, frame, result>>
      BY <1>0, <1>4, WriteEffect
  <2> QED BY <1>1, <2>1 DEF inflate, frame, result, inflated
<1>5. ASSUME NEW c \in Callers, Fill(c) PROVE EarlierFirst'
  <2>1. bufio = <<>> /\ UNCHANGED <<pc, reader, inflate, frame, result>>
      BY <1>5 DEF Fill
  <2>2. inflated' = inflated /\ before' = before
      BY <2>1 DEF inflate, frame, result, inflated
  <2>3. ASSUME NEW d \in Callers, pc[d] \in {"read", "select"}, reader = "live"
        PROVE  Len(inflated) >= before
      BY <1>0, <1>L, <2>1, <2>3 DEF EarlierFirst, End
  <2> QED BY <2>1, <2>2, <2>3 DEF EarlierFirst
<1>6. ASSUME NEW c \in Callers, Open(c) PROVE EarlierFirst'
  <2>1. /\ pc[c] = "open" /\ pc[c] \in Inside /\ reader = "nil"
        /\ UNCHANGED <<closed, writers, frame>>
      BY <1>0, <1>6 DEF Open, Places, Inside
  <2>2. ASSUME reader' = "live" PROVE before' = 0
    <3>1. bufio # <<>> /\ bufio[1].kind = "header" /\ bufio' = Tail(bufio)
        BY <1>6, <2>1, <2>2 DEF Open
    <3>2. pending # <<>> /\ pending[1] = bufio[1]
        BY <1>0, <2>1, <3>1, TakeEffect
    <3>3. ~closed
        BY <1>0, <3>1 DEF Places
    <3> QED BY <1>0, <2>1, <3>1, <3>2, <3>3 DEF Continues, frame
  <2>3. Len(inflated') \in Nat
    <3>1. /\ delivered' \in Seq(Units') /\ out' \in Seq(Units') /\ toRead' \in Seq(Units')
          /\ dict' \in Seq(Units')
        BY DataStep DEF DataOK
    <3> QED BY <3>1 DEF inflated
  <2> QED BY <2>2, <2>3 DEF EarlierFirst
<1>7. ASSUME NEW c \in Callers, Inflate(c) PROVE EarlierFirst'
  <2>1. /\ reader = "live" /\ pc[c] = "read" /\ bufio # <<>> /\ bufio' = Tail(bufio)
        /\ bufio[1].unit = Len(inflated) + Weight(bufio[1])
        /\ Len(inflated') = bufio[1].unit /\ rest' = rest
        /\ UNCHANGED frame
      BY <1>0, <1>7, InflateEffect
  <2>2. End(Len(inflated'), bufio') = End(Len(inflated), bufio)
      BY <1>L, <2>1, EndTail
  <2>3. Len(inflated') \in Nat /\ Len(inflated') >= Len(inflated) /\ before' = before
      BY <1>L, <2>1 DEF Weight, frame
  <2>4. Len(inflated') >= before' \/ (rest' # <<>> /\ End(Len(inflated'), bufio') = before')
    <3>1. Len(inflated) >= before \/ (rest # <<>> /\ End(Len(inflated), bufio) = before)
        BY <1>0, <2>1 DEF EarlierFirst
    <3>2. CASE Len(inflated) >= before
        BY <1>L, <2>3, <3>2
    <3>3. CASE rest # <<>> /\ End(Len(inflated), bufio) = before
        BY <2>1, <2>2, <2>3, <3>3
    <3> QED BY <3>1, <3>2, <3>3
  <2> QED BY <2>4 DEF EarlierFirst
<1>8. ASSUME NEW c \in Callers, Read(c) PROVE EarlierFirst'
  <2>1. /\ pc[c] = "read" /\ inflated' = inflated
        /\ UNCHANGED <<bufio, rest, before, reader>>
      BY <1>0, <1>8, ReadEffect DEF pipe, frame, rest
  <2>2. PICK place : Goto(c, place)
      BY <1>0, <1>8, ReadEffect DEF Return
  <2> QED BY <1>2, <2>1, <2>2
<1>9. ASSUME NEW c \in Callers, ReadError(c) \/ Select(c) PROVE EarlierFirst'
  <2>1. /\ pc[c] \in {"read", "select"}
        /\ UNCHANGED <<bufio, rest, before, sent, reader, toRead, dict>>
      BY <1>9 DEF ReadError, Select, pipe, inflate, frame, rest
  <2>2. PICK place : Goto(c, place)
      BY <1>9 DEF ReadError, Select, Return
  <2>3. inflated' = inflated
    <3>1. CASE \E how : Return(c, how, out)
        BY <1>0, <2>1, <3>1, ReturnEffect
    <3>2. CASE UNCHANGED result
        BY <2>1, <3>2 DEF result, inflated
    <3> QED BY <1>9, <3>1, <3>2 DEF ReadError, Select
  <2> QED BY <1>2, <2>1, <2>2, <2>3
<1>10. ASSUME NEW c \in Callers, Join(c) PROVE EarlierFirst'
  <2>1. /\ inflated' = inflated /\ Goto(c, "idle") /\ UNCHANGED <<bufio, rest, before, reader>>
      BY <1>0, <1>10, JoinEffect DEF Join, Return, pipe, frame, rest
  <2> QED BY <1>2, <2>1
<1>11. ASSUME NEW c \in Callers, Call(c) \/ CallClose(c) PROVE EarlierFirst'
  <2>1. PICK place \in {"lock", "closing"} : Goto(c, place)
      BY <1>11 DEF Call, CallClose
  <2>2. inflated' = inflated /\ UNCHANGED <<bufio, rest, before, reader>>
      BY <1>11 DEF Call, CallClose, pipe, inflate, frame, result, rest, inflated
  <2> QED BY <1>2, <2>1, <2>2
<1>12. ASSUME NEW c \in Callers, Close(c) PROVE EarlierFirst'
    BY <1>12 DEF Close, EarlierFirst
<1>13. CASE UNCHANGED vars
    BY <1>1, <1>13 DEF vars, pipe, inflate, frame, result, rest, inflated
<1> QED BY <1>3, <1>4, <1>5, <1>6, <1>7, <1>8, <1>9, <1>10, <1>11, <1>12, <1>13
        DEF Next, Run

(* A message that is returned has with it all that earlier frames held.    *)
LEMMA LateStep == IndInv /\ [Next]_vars => AtMostOneMessageLate'
<1> SUFFICES ASSUME IndInv, [Next]_vars PROVE AtMostOneMessageLate'
    OBVIOUS
<1>0. /\ TypeOK /\ Settled /\ Places /\ Continues /\ EarlierFirst /\ AtMostOneMessageLate
      /\ Len(inflated) \in Nat /\ before \in Nat
    BY Lists DEF IndInv
<1>1. ASSUME UNCHANGED <<delivered, before, outcome>> PROVE AtMostOneMessageLate'
    BY <1>0, <1>1 DEF AtMostOneMessageLate
<1>2. ASSUME NEW c \in Callers, Select(c), Joined PROVE AtMostOneMessageLate'
  <2>1. /\ pc[c] = "select" /\ pc[c] \in {"read", "select"} /\ Return(c, "message", out)
        /\ UNCHANGED <<reader, closed, toRead, dict, sent, before>>
      BY <1>2 DEF Select, inflate, frame
  <2>2. reader = "live" /\ toRead = <<>> /\ dict = <<>>
      BY <1>0, <2>1 DEF Places
  <2>3. inflated' = inflated /\ out' = <<>> /\ delivered' \in Seq(Units)
      BY <1>0, <2>1, ReturnEffect
  <2>4. Len(inflated') = Len(delivered')
    <3>1. inflated' = (delivered' \o <<>>) \o (<<>> \o <<>>)
        BY <2>1, <2>2, <2>3 DEF inflated
    <3> QED BY <2>3, <3>1
  <2>5. rest = <<>>
    <3>1. writers \in Seq(Writer)
        BY <1>0 DEF TypeOK
    <3>2. CASE writers = <<>>
        BY <3>2 DEF rest
    <3>3. CASE writers # <<>>
      <4>1. Len(writers) \in 1 .. Len(writers)
          BY <3>1, <3>3
      <4> QED BY <1>0, <1>2, <2>2, <4>1 DEF Settled, Joined, rest
    <3> QED BY <3>2, <3>3
  <2>6. Len(inflated) >= before
      BY <1>0, <2>1, <2>2, <2>5 DEF EarlierFirst
  <2> QED BY <2>1, <2>3, <2>4, <2>6 DEF AtMostOneMessageLate
<1>3. ASSUME NEW c \in Callers, Select(c), ~Joined PROVE AtMostOneMessageLate'
    BY <1>1, <1>3 DEF Select, result, frame
<1>4. ASSUME NEW c \in Callers, Lock(c) PROVE AtMostOneMessageLate'
    BY <1>4 DEF Lock, AtMostOneMessageLate
<1>5. ASSUME NEW c \in Callers, Read(c) PROVE AtMostOneMessageLate'
  <2>1. outcome' = "error" \/ UNCHANGED <<delivered, before, outcome>>
      BY <1>0, <1>5, ReadEffect DEF Return, frame
  <2> QED BY <1>1, <2>1 DEF AtMostOneMessageLate
<1>6. ASSUME NEW c \in Callers, ReadError(c) \/ Join(c) PROVE AtMostOneMessageLate'
    BY <1>6 DEF ReadError, Join, Return, AtMostOneMessageLate
<1>7. ASSUME NEW c \in Callers,
             Call(c) \/ CallClose(c) \/ Fill(c) \/ Open(c) \/ Inflate(c) \/ Close(c)
      PROVE  AtMostOneMessageLate'
    BY <1>1, <1>7 DEF Call, CallClose, Fill, Open, Inflate, Close, result, frame
<1>8. ASSUME NEW w, Write(w) PROVE AtMostOneMessageLate'
    BY <1>1, <1>8 DEF Write, result, frame
<1>9. CASE UNCHANGED vars
    BY <1>1, <1>9 DEF vars, result, frame
<1> QED BY <1>2, <1>3, <1>4, <1>5, <1>6, <1>7, <1>8, <1>9 DEF Next, Run

LEMMA InitHolds == Init => IndInv
<1> SUFFICES ASSUME Init PROVE IndInv
    OBVIOUS
<1>1. ControlOK
  <2>1. \A c \in Callers : pc[c] \notin Inside
      BY DEF Init, Inside
  <2> QED BY <2>1 DEF Init, ControlOK
<1>2. DataOK
    BY SizeAssumption DEF Init, DataOK
<1>3. Places /\ Settled
    BY DEF Init, Places, Settled
<1>4. Len(inflated) = 0
    BY DEF Init, inflated
<1>5. Ordered
    BY <1>4 DEF Init, Ordered
<1>6. Continues /\ EarlierFirst /\ AtMostOneMessageLate
    BY DEF Init, Continues, EarlierFirst, AtMostOneMessageLate
<1> QED BY <1>1, <1>2, <1>3, <1>5, <1>6, TypeParts DEF IndInv

(* Ordered is what makes the invariant inductive about what is delivered;  *)
(* the rest of IndInv is there because a call leaves tokens behind in      *)
(* bufio and in inflate for the calls that follow.                         *)
THEOREM Invariance == Spec => []IndInv
<1>1. IndInv /\ [Next]_vars => IndInv'
    BY TypeStep, OrderedStep, SettledStep, PlacesStep, ContinuesStep, EarlierStep, LateStep
       DEF IndInv
<1> QED BY InitHolds, <1>1, PTL DEF Spec

(* Every variable of the decoder keeps its type, and at most one caller is *)
(* inside Decode.                                                          *)
THEOREM TypeCorrect == FairSpec => []TypeOK
<1>1. IndInv => TypeOK
    BY DEF IndInv
<1> QED BY Invariance, <1>1, PTL DEF FairSpec

(* What is delivered is the head of what has been inflated.                *)
Told == InOrder /\ Len(delivered) \in 0 .. sent

LEMMA DeliveredFirst == IndInv => Told
<1> SUFFICES ASSUME IndInv PROVE Told
    OBVIOUS
<1> DEFINE others == toRead \o dict
           n == Len(delivered)
<1>1. /\ delivered \in Seq(Nat) /\ out \in Seq(Nat) /\ others \in Seq(Nat) /\ sent \in Nat
      /\ inflated = (delivered \o out) \o others
    BY Lists DEF IndInv, inflated
<1> HIDE DEF others
<1>2. /\ Len(delivered) \in Nat /\ Len(delivered) <= Len(inflated)
      /\ \A i \in 1 .. Len(delivered) : i \in 1 .. Len(inflated) /\ inflated[i] = delivered[i]
    BY <1>1
<1>3. \A i \in 1 .. n : delivered[i] = i
    BY <1>2 DEF IndInv, Ordered
<1>4. delivered = [i \in 1 .. n |-> i]
  <2>1. delivered = [i \in 1 .. n |-> delivered[i]]
      BY <1>1
  <2> QED BY <1>3, <2>1
<1>5. n \in 0 .. sent
    BY <1>1, <1>2, Lists DEF IndInv, Ordered
<1> QED BY <1>4, <1>5 DEF InOrder, Told

(* Nothing the gateway compressed is lost, doubled or swapped, for any     *)
(* frames, number of callers and size of the buffers on the way.           *)
THEOREM DeliveryInOrder == FairSpec => []InOrder
<1>1. Told => InOrder
    BY DEF Told
<1> QED BY Invariance, DeliveredFirst, <1>1, PTL DEF FairSpec

(* Until the stream fails or is closed, no call starts its writer while    *)
(* that of an earlier call is still in the pipe.                           *)
THEOREM WritersAreJoined == FairSpec => []WritersJoinedWhileLive
<1>1. IndInv => WritersJoinedWhileLive
  <2> SUFFICES ASSUME IndInv, reader # "failed", ~closed PROVE Cardinality(Unfinished) <= 1
      BY DEF WritersJoinedWhileLive
  <2>1. writers \in Seq(Writer)
      BY DEF IndInv, TypeOK
  <2>2. Unfinished \in SUBSET {Len(writers)}
      BY <2>1 DEF IndInv, Settled, Unfinished
  <2>3. IsFiniteSet({Len(writers)}) /\ Cardinality({Len(writers)}) = 1
      BY FS_Singleton
  <2> QED BY <2>2, <2>3, FS_Subset
<1> QED BY Invariance, <1>1, PTL DEF FairSpec

(* A call that returns a message leaves no unit of an earlier frame to be  *)
(* delivered.                                                              *)
THEOREM OneMessageLate == FairSpec => []AtMostOneMessageLate
<1>1. IndInv => AtMostOneMessageLate
    BY DEF IndInv
<1> QED BY Invariance, <1>1, PTL DEF FairSpec

------------------------------------------------------------------------------
(* The refinement of StreamDecoder.                                        *)
Decoder == [holder |-> mu, before |-> before, fed |-> sent, delivered |-> delivered,
            closed |-> closed]

LEMMA ClosedDecoder ==
    \A x : [Decoder EXCEPT !.closed = x] = [holder |-> mu, before |-> before, fed |-> sent,
                                            delivered |-> delivered, closed |-> x]
BY DEF Decoder

LEMMA ReturnedDecoder ==
    \A x, y : [Decoder EXCEPT !.holder = x, !.delivered = y] =
                  [holder |-> x, before |-> before, fed |-> sent, delivered |-> y,
                   closed |-> closed]
<1> SUFFICES ASSUME NEW x, NEW y
             PROVE  [Decoder EXCEPT !.holder = x, !.delivered = y] =
                        [holder |-> x, before |-> before, fed |-> sent, delivered |-> y,
                         closed |-> closed]
    BY Zenon
<1> DEFINE d == [Decoder EXCEPT !.holder = x]
<1>1. d = [holder |-> x, before |-> before, fed |-> sent, delivered |-> delivered,
           closed |-> closed]
    BY DEF Decoder
<1> HIDE DEF d
<1>2. [d EXCEPT !.delivered = y] =
          [holder |-> x, before |-> before, fed |-> sent, delivered |-> y, closed |-> closed]
    BY <1>1
<1> QED BY <1>2, Zenon DEF d

LEMMA BegunDecoder ==
    \A x, y, z : [Decoder EXCEPT !.holder = x, !.before = y, !.fed = z] =
                     [holder |-> x, before |-> y, fed |-> z, delivered |-> delivered,
                      closed |-> closed]
<1> SUFFICES ASSUME NEW x, NEW y, NEW z
             PROVE  [Decoder EXCEPT !.holder = x, !.before = y, !.fed = z] =
                        [holder |-> x, before |-> y, fed |-> z, delivered |-> delivered,
                         closed |-> closed]
    BY Zenon
<1> DEFINE d == [Decoder EXCEPT !.holder = x]
           e == [d EXCEPT !.before = y]
<1>1. d = [holder |-> x, before |-> before, fed |-> sent, delivered |-> delivered,
           closed |-> closed]
    BY DEF Decoder
<1> HIDE DEF d
<1>2. e = [holder |-> x, before |-> y, fed |-> sent, delivered |-> delivered,
           closed |-> closed]
    BY <1>1
<1> HIDE DEF e
<1>3. [e EXCEPT !.fed = z] =
          [holder |-> x, before |-> y, fed |-> z, delivered |-> delivered, closed |-> closed]
    BY <1>2
<1> QED BY <1>3, Zenon DEF d, e

LEMMA ReturnReturns ==
    ASSUME IndInv, IndInv', Told', NEW c \in Callers, pc[c] \in Inside,
           NEW how \in {"nil", "message", "error"}, NEW got \in Seq(Units),
           Return(c, how, got), how = "nil" => delivered' = delivered,
           UNCHANGED <<closed, frame>>
    PROVE  Abstract!Return(how)
<1>1. /\ mu # NoCaller /\ mu' = NoCaller /\ delivered' = delivered \o got /\ outcome' = how
      /\ before' = before /\ sent' = sent /\ closed' = closed
    BY Alone DEF IndInv, Return, frame
<1>2. /\ delivered' = [i \in 1 .. Len(delivered') |-> i]
      /\ Len(delivered') \in Nat /\ Len(delivered') <= sent
  <2>1. InOrder' /\ Len(delivered') \in 0 .. sent'
      BY DEF Told
  <2> QED BY <1>1, <2>1, Lists DEF InOrder, IndInv
<1>3. Len(delivered) \in Nat /\ Len(delivered) <= Len(delivered')
    BY <1>1 DEF IndInv, TypeOK
<1>4. how = "message" => Len(delivered') >= before
    BY <1>1 DEF IndInv, AtMostOneMessageLate
<1>5. Len(delivered') \in Abstract!Progress(how)
    BY <1>2, <1>3, <1>4, Lists DEF Abstract!Progress, IndInv
<1>6. delivered' = Abstract!Stream(Len(delivered'))
    BY <1>2 DEF Abstract!Stream
<1>7. Decoder' = [Decoder EXCEPT !.holder = NoCaller,
                                 !.delivered = Abstract!Stream(Len(delivered'))]
  <2> DEFINE d == Abstract!Stream(Len(delivered'))
  <2>1. Decoder' = [holder |-> NoCaller, before |-> before, fed |-> sent, delivered |-> d,
                    closed |-> closed]
      BY <1>1, <1>6 DEF Decoder
  <2> HIDE DEF d
  <2> QED BY <2>1, ReturnedDecoder, Zenon DEF d
<1> QED BY <1>1, <1>5, <1>7 DEF Abstract!Return, Decoder

LEMMA AbstractStep == IndInv /\ IndInv' /\ Told' /\ [Next]_vars => [Abstract!Next]_Decoder
<1> SUFFICES ASSUME IndInv, IndInv', Told', [Next]_vars PROVE [Abstract!Next]_Decoder
    OBVIOUS
<1>0. TypeOK /\ Places /\ Settled /\ Continues
    BY DEF IndInv
<1>1. ASSUME UNCHANGED <<mu, before, sent, delivered, closed>> PROVE Decoder' = Decoder
    BY <1>1 DEF Decoder
<1>2. ASSUME NEW c \in Callers, Lock(c) PROVE Abstract!Next
  <2>1. PICK f \in FirstFrames \cup Frames : sent' = sent + UnitsUpTo(f, Len(f))
      BY <1>0, <1>2, LockEffect, Zenon
  <2>2. mu = NoCaller /\ mu' = c /\ before' = sent /\ UNCHANGED <<delivered, closed>>
      BY <1>2 DEF Lock, Acquire
  <2> DEFINE n == UnitsUpTo(f, Len(f))
  <2>3. Decoder' = [Decoder EXCEPT !.holder = c, !.before = Decoder.fed, !.fed = Decoder.fed + n]
    <3> DEFINE b == Decoder.fed
               m == Decoder.fed + n
    <3>1. Decoder' = [holder |-> c, before |-> b, fed |-> m, delivered |-> delivered,
                      closed |-> closed]
        BY <2>1, <2>2 DEF Decoder
    <3> HIDE DEF b, m
    <3>2. [Decoder EXCEPT !.holder = c, !.before = b, !.fed = m] =
              [holder |-> c, before |-> b, fed |-> m, delivered |-> delivered, closed |-> closed]
        BY BegunDecoder, Zenon
    <3>3. Decoder' = [Decoder EXCEPT !.holder = c, !.before = b, !.fed = m]
        BY <3>1, <3>2, Zenon
    <3> QED BY <3>3, Zenon DEF b, m
  <2>4. Abstract!Begin(c, n)
      BY <2>2, <2>3 DEF Abstract!Begin, Decoder
  <2>5. n \in {UnitsUpTo(g, Len(g)) : g \in FirstFrames \cup Frames}
      OBVIOUS
  <2> HIDE DEF n
  <2> QED BY <2>4, <2>5 DEF Abstract!Next
<1>3. ASSUME NEW c \in Callers, NEW how \in {"nil", "message", "error"}, Abstract!Return(how)
      PROVE  Abstract!Next
    BY <1>3 DEF Abstract!Next
<1>4. ASSUME NEW c \in Callers, Join(c) PROVE Abstract!Next
  <2>1. /\ delivered' = delivered /\ pc[c] \in Inside /\ UNCHANGED <<closed, frame>>
        /\ <<>> \in Seq(Units)
      BY <1>0, <1>4, JoinEffect DEF Join, Inside
  <2>2. PICK how \in {"nil", "error"} : Return(c, how, <<>>)
      BY <1>4 DEF Join
  <2> QED BY <1>3, <2>1, <2>2, ReturnReturns
<1>5. ASSUME NEW c \in Callers, Read(c) PROVE Abstract!Next \/ Decoder' = Decoder
  <2>1. pc[c] \in Inside /\ UNCHANGED <<closed, frame>>
      BY <1>0, <1>5, ReadEffect DEF Inside
  <2>2. CASE \E got \in Seq(Units) : Return(c, "error", got)
      BY <1>3, <2>1, <2>2, ReturnReturns
  <2>3. CASE UNCHANGED <<mu, delivered, outcome>>
      BY <1>1, <2>1, <2>3 DEF frame
  <2> QED BY <1>0, <1>5, <2>2, <2>3, ReadEffect
<1>6. ASSUME NEW c \in Callers, ReadError(c) \/ Select(c)
      PROVE  Abstract!Next \/ Decoder' = Decoder
  <2>1. pc[c] \in Inside /\ UNCHANGED <<closed, frame>>
      BY <1>6 DEF ReadError, Select, Inside
  <2>2. out \in Seq(Units)
      BY <1>0 DEF TypeOK
  <2>3. CASE \E how \in {"message", "error"} : Return(c, how, out)
      BY <1>3, <2>1, <2>2, <2>3, ReturnReturns
  <2>4. CASE UNCHANGED <<mu, result>>
      BY <1>1, <2>1, <2>4 DEF frame, result
  <2> QED BY <1>6, <2>3, <2>4 DEF ReadError, Select
<1>7. ASSUME NEW c \in Callers, Close(c) PROVE Abstract!Next
  <2>1. /\ mu = NoCaller /\ closed' = TRUE /\ UNCHANGED <<mu, before, sent, delivered>>
      BY <1>7 DEF Close, ClosePipe, frame, result
  <2>2. Decoder' = [Decoder EXCEPT !.closed = TRUE]
    <3>1. Decoder' = [holder |-> mu, before |-> before, fed |-> sent, delivered |-> delivered,
                      closed |-> TRUE]
        BY <2>1 DEF Decoder
    <3> QED BY <3>1, ClosedDecoder, Zenon
  <2>3. Abstract!Close
      BY <2>1, <2>2 DEF Abstract!Close, Decoder
  <2> QED BY <2>3 DEF Abstract!Next
<1>8. ASSUME NEW c \in Callers, Call(c) \/ CallClose(c) \/ Fill(c) \/ Open(c) \/ Inflate(c)
      PROVE  Decoder' = Decoder
    BY <1>1, <1>8 DEF Call, CallClose, Fill, Open, Inflate, frame, result
<1>9. ASSUME NEW w, Write(w) PROVE Decoder' = Decoder
    BY <1>1, <1>9 DEF Write, frame, result
<1>10. CASE UNCHANGED vars
    BY <1>1, <1>10 DEF vars, frame, result
<1> QED BY <1>2, <1>4, <1>5, <1>6, <1>7, <1>8, <1>9, <1>10 DEF Next, Run

(* Mutex, writers, pipe, bufio and inflate together are one decoder that   *)
(* takes a call at a time and gives the stream out in order.               *)
THEOREM DecoderImplemented == FairSpec => ImplementsDecoder
<1>1. Init => Abstract!Init
    BY DEF Init, Abstract!Init
<1>2. IndInv /\ IndInv' /\ Told' /\ [Next]_vars => [Abstract!Next]_Decoder
    BY AbstractStep
<1> QED BY <1>1, <1>2, Invariance, DeliveredFirst, PTL
        DEF FairSpec, Spec, ImplementsDecoder, Abstract!Spec, Decoder
==============================================================================
