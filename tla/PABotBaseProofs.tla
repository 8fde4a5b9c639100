-------------------------- MODULE PABotBaseProofs --------------------------
(***************************************************************************)
(* Theorems about PABotBase, for any number of clients, any script, any    *)
(* limits and any modulus the assumptions allow.                           *)
(***************************************************************************)
EXTENDS PABotBase, WellFoundedInduction, FiniteSetTheorems, SequenceTheorems, TLAPS

-----------------------------------------------------------------------------
(* Sequence numbers: the arithmetic of SeqNum, for every modulus and every *)
(* gap below it.                                                           *)

\* A set of natural numbers that is not empty has a least element, and Min
\* chooses it.
LEMMA MinIsLeast ==
    ASSUME NEW S, S \subseteq Nat, S # {}
    PROVE  Min(S) \in S /\ \A y \in S : Min(S) <= y
<1> DEFINE Less == {p \in Nat \X Nat : p[1] < p[2]}
<1>0. IsWellFoundedOn(Less, Nat)
  BY NatLessThanWellFounded DEF OpToRel
<1>1. PICK x \in S : \A y \in S : ~ (<<y, x>> \in Less)
  BY <1>0, WFMin
<1>2. \A y \in S : x <= y
  <2>1. TAKE y \in S
  <2>2. x \in Nat /\ y \in Nat
    OBVIOUS
  <2>3. ~ (y < x)
    BY <1>1, <2>2
  <2> QED BY <2>2, <2>3
<1> QED BY <1>1, <1>2 DEF Min

\* A bounded set of positive numbers that is not empty has a greatest
\* element, and Max chooses it.
LEMMA MaxIsGreatest ==
    ASSUME NEW n \in Nat, NEW S, S \subseteq 1 .. n, S # {}
    PROVE  Max(S) \in S /\ \A y \in S : Max(S) >= y
<1> DEFINE T == {n - x : x \in S}
<1>1. T \subseteq Nat /\ T # {}
  <2>1. \A x \in S : n - x \in Nat
    OBVIOUS
  <2>2. T \subseteq Nat
    BY <2>1
  <2>3. PICK x \in S : TRUE
    OBVIOUS
  <2>4. n - x \in T
    BY <2>3
  <2> QED BY <2>2, <2>4
<1>2. Min(T) \in T /\ \A y \in T : Min(T) <= y
  BY <1>1, MinIsLeast
<1>3. PICK x \in S : Min(T) = n - x
  BY <1>2
<1>4. \A y \in S : x >= y
  <2>1. TAKE y \in S
  <2>2. n - x <= n - y
    BY <1>2, <1>3
  <2> QED BY <2>2
<1> QED BY <1>4 DEF Max

\* Division with remainder.
LEMMA Division ==
    ASSUME NEW s \in Nat
    PROVE  /\ s \div SeqnumModulus \in Nat
           /\ Wire(s) \in 0 .. (SeqnumModulus - 1)
           /\ s = SeqnumModulus * (s \div SeqnumModulus) + Wire(s)
           /\ Epoch(s) = SeqnumModulus * (s \div SeqnumModulus)
           /\ Epoch(s) \in Nat /\ s = Epoch(s) + Wire(s)
<1>1. /\ s \div SeqnumModulus \in Nat
      /\ Wire(s) \in 0 .. (SeqnumModulus - 1)
      /\ s = SeqnumModulus * (s \div SeqnumModulus) + Wire(s)
  BY SeqNumAssumption DEF Wire
<1>2. Epoch(s) = s - Wire(s)
  BY DEF Epoch, Wire
<1>3. SeqnumModulus * (s \div SeqnumModulus) \in Nat
  BY <1>1, SeqNumAssumption
<1> QED BY <1>1, <1>2, <1>3

\* Multiples of the modulus that differ are at least the modulus apart.
LEMMA Multiples ==
    ASSUME NEW a \in Nat, NEW b \in Nat, a < b
    PROVE  SeqnumModulus * a + SeqnumModulus <= SeqnumModulus * b
<1>1. PICK k \in Nat : b = a + 1 + k
  <2>1. b - a - 1 \in Nat /\ b = a + 1 + (b - a - 1)
    OBVIOUS
  <2> QED BY <2>1
<1>2. SeqnumModulus * b = SeqnumModulus * a + SeqnumModulus + SeqnumModulus * k
  BY <1>1, SeqNumAssumption
<1>3. SeqnumModulus * k \in Nat /\ SeqnumModulus * a \in Nat /\ SeqnumModulus * b \in Nat
  BY SeqNumAssumption
<1> QED BY <1>2, <1>3, SeqNumAssumption

\* Two numbers less than the modulus apart lie in the same epoch or in
\* adjacent ones.
LEMMA AdjacentEpochs ==
    ASSUME NEW a \in Nat, NEW b \in Nat, a <= b, b - a < SeqnumModulus
    PROVE  \/ Epoch(b) = Epoch(a)
           \/ Epoch(b) = Epoch(a) + SeqnumModulus
<1> DEFINE qa == a \div SeqnumModulus
           qb == b \div SeqnumModulus
<1>1. /\ qa \in Nat /\ Wire(a) \in 0 .. (SeqnumModulus - 1)
      /\ a = SeqnumModulus * qa + Wire(a) /\ Epoch(a) = SeqnumModulus * qa
  BY Division
<1>2. /\ qb \in Nat /\ Wire(b) \in 0 .. (SeqnumModulus - 1)
      /\ b = SeqnumModulus * qb + Wire(b) /\ Epoch(b) = SeqnumModulus * qb
  BY Division
<1> HIDE DEF qa, qb
<1>3. ~ (qb < qa)
  <2>1. SUFFICES ASSUME qb < qa PROVE FALSE
    OBVIOUS
  <2>2. SeqnumModulus * qb + SeqnumModulus <= SeqnumModulus * qa
    BY <1>1, <1>2, <2>1, Multiples
  <2> QED BY <1>1, <1>2, <2>2, SeqNumAssumption
<1>4. ~ (qa + 1 < qb)
  <2>1. SUFFICES ASSUME qa + 1 < qb PROVE FALSE
    OBVIOUS
  <2>2. SeqnumModulus * (qa + 1) + SeqnumModulus <= SeqnumModulus * qb
    BY <1>1, <1>2, <2>1, Multiples
  <2>3. SeqnumModulus * (qa + 1) = SeqnumModulus * qa + SeqnumModulus
    BY <1>1, SeqNumAssumption
  <2> QED BY <1>1, <1>2, <2>2, <2>3, SeqNumAssumption
<1>5. qb = qa \/ qb = qa + 1
  BY <1>1, <1>2, <1>3, <1>4
<1>6. SeqnumModulus * (qa + 1) = SeqnumModulus * qa + SeqnumModulus
  BY <1>1, SeqNumAssumption
<1> QED BY <1>1, <1>2, <1>5, <1>6

\* infer_full_seqnum() recovers a live number from its wire number, for any
\* set of live numbers that spans at most the gap.
THEOREM InferFindsLive ==
    ASSUME NEW n \in Nat, NEW keys, keys \subseteq 1 .. n,
           \A a, b \in keys : a - b <= MAX_SEQNUM_GAP,
           NEW s \in keys
    PROVE  InferFullSeqnum(keys, Wire(s)) = s
<1> DEFINE lo == Min(keys)
           hi == Max(keys)
<1>1. lo \in keys /\ hi \in keys /\ lo <= s /\ s <= hi
  <2>1. keys \subseteq Nat
    OBVIOUS
  <2>2. Min(keys) \in keys /\ Min(keys) <= s
    BY <2>1, MinIsLeast
  <2>3. Max(keys) \in keys /\ Max(keys) >= s
    BY MaxIsGreatest
  <2> QED BY <2>2, <2>3
<1> HIDE DEF lo, hi
<1>2. lo \in Nat /\ hi \in Nat /\ s \in Nat /\ hi - lo < SeqnumModulus
  <2>1. hi - lo <= MAX_SEQNUM_GAP
    BY <1>1
  <2>2. lo \in Nat /\ hi \in Nat /\ s \in Nat
    BY <1>1
  <2> QED BY <2>1, <2>2, SeqNumAssumption
<1>3. Wire(s) \in 0 .. (SeqnumModulus - 1) /\ Epoch(s) \in Nat /\ s = Epoch(s) + Wire(s)
  BY <1>2, Division
<1>4. Epoch(lo) \in Nat /\ lo >= Epoch(lo) /\ Epoch(hi) \in Nat
  BY <1>2, Division
<1>5. Epoch(s) = Epoch(lo) \/ Epoch(s) = Epoch(lo) + SeqnumModulus
  BY <1>1, <1>2, SeqNumAssumption, AdjacentEpochs
<1>6. CASE Epoch(s) = Epoch(lo)
  BY <1>1, <1>2, <1>3, <1>4, <1>6 DEF InferFullSeqnum, lo, hi
<1>7. CASE Epoch(s) = Epoch(lo) + SeqnumModulus
  <2>1. Epoch(lo) + Wire(s) < lo
    BY <1>1, <1>2, <1>3, <1>4, <1>7, SeqNumAssumption
  <2>2. Epoch(hi) = Epoch(s) \/ Epoch(hi) = Epoch(s) + SeqnumModulus
    BY <1>1, <1>2, <1>3, SeqNumAssumption, AdjacentEpochs
  <2>3. Epoch(hi) = Epoch(lo) \/ Epoch(hi) = Epoch(lo) + SeqnumModulus
    BY <1>1, <1>2, SeqNumAssumption, AdjacentEpochs
  <2>4. Epoch(hi) = Epoch(s)
    BY <1>3, <1>4, <1>7, <2>2, <2>3, SeqNumAssumption
  <2>5. ~ (Epoch(lo) + Wire(s) >= lo)
    BY <1>2, <1>3, <1>4, <2>1
  <2> QED BY <1>3, <2>4, <2>5 DEF InferFullSeqnum, lo, hi
<1> QED BY <1>5, <1>6, <1>7

\* Whatever comes in, the number inferred has the wire form that came in: a
\* wire number no live number has never resolves to a live one.
THEOREM InferRejectsStale ==
    ASSUME NEW n \in Nat, NEW keys, keys \subseteq 1 .. n, keys # {},
           NEW q \in 0 .. (SeqnumModulus - 1),
           \A s \in keys : Wire(s) # q
    PROVE  InferFullSeqnum(keys, q) \notin keys
<1>1. \A k \in Nat : Wire(Epoch(k) + q) = q
  <2>1. SUFFICES ASSUME NEW k \in Nat PROVE Wire(Epoch(k) + q) = q
    OBVIOUS
  <2> DEFINE x  == Epoch(k) + q
             qk == k \div SeqnumModulus
             qx == x \div SeqnumModulus
  <2>2. qk \in Nat /\ Epoch(k) = SeqnumModulus * qk /\ Epoch(k) \in Nat
    BY Division
  <2>3. x \in Nat /\ x = SeqnumModulus * qk + q
    BY <2>2, SeqNumAssumption
  <2> HIDE DEF x
  <2>4. qx \in Nat /\ Wire(x) \in 0 .. (SeqnumModulus - 1) /\ x = SeqnumModulus * qx + Wire(x)
    BY <2>3, Division
  <2> HIDE DEF qk, qx
  <2>5. SeqnumModulus * qk \in Nat /\ SeqnumModulus * qx \in Nat
    BY <2>2, <2>4, SeqNumAssumption
  <2>6. ~ (qk < qx)
    <3>1. SUFFICES ASSUME qk < qx PROVE FALSE
      OBVIOUS
    <3>2. SeqnumModulus * qk + SeqnumModulus <= SeqnumModulus * qx
      BY <2>2, <2>4, <3>1, Multiples
    <3> QED BY <2>3, <2>4, <2>5, <3>2, SeqNumAssumption
  <2>7. ~ (qx < qk)
    <3>1. SUFFICES ASSUME qx < qk PROVE FALSE
      OBVIOUS
    <3>2. SeqnumModulus * qx + SeqnumModulus <= SeqnumModulus * qk
      BY <2>2, <2>4, <3>1, Multiples
    <3> QED BY <2>3, <2>4, <2>5, <3>2, SeqNumAssumption
  <2>8. qx = qk
    BY <2>2, <2>4, <2>6, <2>7
  <2>9. Wire(x) = q
    BY <2>3, <2>4, <2>5, <2>8, SeqNumAssumption
  <2> QED BY <2>9 DEF x
<1>2. Min(keys) \in Nat
  <2>1. keys \subseteq Nat
    OBVIOUS
  <2> QED BY <2>1, MinIsLeast
<1>3. Max(keys) \in Nat
  <2>1. Max(keys) \in keys
    BY MaxIsGreatest
  <2>2. keys \subseteq Nat
    OBVIOUS
  <2> QED BY <2>1, <2>2
<1>4. Wire(InferFullSeqnum(keys, q)) = q
  BY <1>1, <1>2, <1>3 DEF InferFullSeqnum
<1> QED BY <1>4

-----------------------------------------------------------------------------
(* Operators.                                                              *)

\* A finite set of numbers has an increasing enumeration, so InOrder() is
\* defined: the retransmit loops visit each entry once, in order.
LEMMA IncreasingEnumeration ==
    ASSUME NEW n \in Nat, NEW S \in SUBSET (1 .. n)
    PROVE  /\ Cardinality(S) \in Nat
           /\ \E f \in [1 .. Cardinality(S) -> S] : \A i, j \in DOMAIN f : i < j => f[i] < f[j]
<1> DEFINE Enumerable(T) == \E f \in [1 .. Cardinality(T) -> T] : \A i, j \in DOMAIN f : i < j => f[i] < f[j]
           Bad  == {m \in Nat : \E T \in SUBSET (1 .. m) : ~ Enumerable(T)}
<1>1. \A m \in Nat : \A T \in SUBSET (1 .. m) : IsFiniteSet(T) /\ Cardinality(T) \in Nat
  <2>1. SUFFICES ASSUME NEW m \in Nat, NEW T \in SUBSET (1 .. m)
                 PROVE  IsFiniteSet(T) /\ Cardinality(T) \in Nat
    OBVIOUS
  <2>2. IsFiniteSet(1 .. m)
    BY FS_Interval
  <2>3. IsFiniteSet(T)
    BY <2>2, FS_Subset
  <2> QED BY <2>3, FS_CardinalityType
<1>2. ASSUME Bad # {} PROVE FALSE
  <2>1. Bad \subseteq Nat
    OBVIOUS
  <2>2. PICK m \in Bad : \A k \in Bad : m <= k
    <3>1. Min(Bad) \in Bad /\ \A k \in Bad : Min(Bad) <= k
      BY <1>2, <2>1, MinIsLeast
    <3> QED BY <3>1
  <2>3. PICK T \in SUBSET (1 .. m) : ~ Enumerable(T)
    OBVIOUS
  <2> HIDE DEF Enumerable
  <2>4. CASE m = 0
    <3>1. T = {}
      BY <2>3, <2>4
    <3>2. Cardinality(T) = 0
      BY <3>1, FS_EmptySet
    <3>3. [i \in {} |-> i] \in [1 .. Cardinality(T) -> T]
      BY <3>1, <3>2
    <3>4. Enumerable(T)
      BY <3>3, <3>2 DEF Enumerable
    <3> QED BY <3>4, <2>3
  <2>5. CASE m # 0 /\ m \notin T
    <3>1. m - 1 \in Nat /\ T \in SUBSET (1 .. (m - 1))
      BY <2>1, <2>3, <2>5
    <3>2. m - 1 \in Bad
      BY <3>1, <2>3
    <3> QED BY <3>2, <2>1, <2>2
  <2>6. CASE m # 0 /\ m \in T
    <3> DEFINE U == T \ {m}
               k == Cardinality(U)
    <3>1. m - 1 \in Nat /\ U \in SUBSET (1 .. (m - 1))
      BY <2>1, <2>3, <2>6
    <3>2. m - 1 \notin Bad
      BY <2>1, <2>2, <3>1
    <3>3. Enumerable(U)
      BY <3>1, <3>2
    <3>4. PICK f \in [1 .. k -> U] : \A i, j \in DOMAIN f : i < j => f[i] < f[j]
      BY <3>3 DEF Enumerable
    <3>5. k \in Nat /\ Cardinality(T) = k + 1
      <4>1. IsFiniteSet(T) /\ Cardinality(T) \in Nat
        BY <1>1, <2>1, <2>3
      <4>2. k = Cardinality(T) - 1
        BY <4>1, <2>6, FS_RemoveElement
      <4>3. k \in Nat
        BY <1>1, <3>1
      <4> QED BY <4>1, <4>2, <4>3
    <3> DEFINE g == [i \in 1 .. (k + 1) |-> IF i <= k THEN f[i] ELSE m]
    <3> HIDE DEF k
    <3>6. \A i \in 1 .. k : f[i] \in T /\ f[i] < m
      <4>1. SUFFICES ASSUME NEW i \in 1 .. k PROVE f[i] \in T /\ f[i] < m
        OBVIOUS
      <4>2. f[i] \in U
        OBVIOUS
      <4>3. m \in Nat /\ f[i] \in 1 .. (m - 1)
        BY <4>2, <2>1, <3>1
      <4> QED BY <4>2, <4>3
    <3>7. g \in [1 .. Cardinality(T) -> T]
      BY <3>5, <3>6, <2>6
    <3>8. ASSUME NEW i \in DOMAIN g, NEW j \in DOMAIN g, i < j PROVE g[i] < g[j]
      <4>1. i \in 1 .. k /\ j \in 1 .. (k + 1)
        BY <3>8, <3>5
      <4>2. CASE j <= k
        <5>1. j \in 1 .. k
          BY <4>1, <4>2, <3>5
        <5> QED BY <4>1, <5>1, <3>4, <3>5, <3>8
      <4>3. CASE ~ (j <= k)
        BY <4>1, <4>3, <3>5, <3>6
      <4> QED BY <4>2, <4>3
    <3> HIDE DEF g
    <3>9. Enumerable(T)
      BY <3>7, <3>8 DEF Enumerable
    <3> QED BY <3>9, <2>3
  <2> QED BY <2>4, <2>5, <2>6
<1>3. Enumerable(S)
  BY <1>2
<1> QED BY <1>1, <1>3

LEMMA InOrderEnumerates ==
    ASSUME NEW n \in Nat, NEW S \in SUBSET (1 .. n)
    PROVE  /\ Cardinality(S) \in Nat
           /\ InOrder(S) \in [1 .. Cardinality(S) -> S]
           /\ \A i, j \in DOMAIN InOrder(S) : i < j => InOrder(S)[i] < InOrder(S)[j]
BY IncreasingEnumeration DEF InOrder

-----------------------------------------------------------------------------
(* Types.                                                                  *)

LEMMA NotifyAllType ==
    ASSUME NEW pcs \in [Clients -> Labels]
    PROVE  notify_all(pcs) \in [Clients -> Labels]
BY DEF notify_all, Labels

LEMMA MessageTypeType ==
    ASSUME NEW o
    PROVE  MessageType(o) \in MessageTypes
BY DEF MessageType, MessageTypes

LEMMA MessageIsTyped ==
    ASSUME NEW type \in MessageTypes, NEW s \in Nat
    PROVE  Message(type, s) \in WireMessage(MessageTypes)
BY Division DEF Message, WireMessage

\* A map whose keys are below m_send_seq: what the client does to one
\* keeps it so.
IsMap(map, n, Entry) ==
    DOMAIN map \subseteq 1 .. (n - 1) /\ map \in [DOMAIN map -> Entry]

LEMMA EmplaceType ==
    ASSUME NEW n \in Nat \ {0}, NEW Entry, NEW map, IsMap(map, n, Entry), NEW entry \in Entry
    PROVE  IsMap(Emplace(map, n, entry), n + 1, Entry)
BY DEF IsMap, Emplace

LEMMA EraseType ==
    ASSUME NEW n \in Nat \ {0}, NEW Entry, NEW map, IsMap(map, n, Entry), NEW S
    PROVE  IsMap(Erase(map, S), n, Entry)
BY DEF IsMap, Erase

LEMMA MessagesType ==
    ASSUME NEW n \in Nat \ {0}, NEW Entry, NEW map, IsMap(map, n, Entry), NEW limit,
           \A e \in Entry : e.type \in MessageTypes
    PROVE  Messages(map, limit) \in Seq(WireMessage(MessageTypes))
<1> DEFINE S == {s \in Unacked(map) : s <= limit}
           order == InOrder(S)
<1>1. S \in SUBSET (1 .. (n - 1)) /\ n - 1 \in Nat /\ S \subseteq DOMAIN map
  BY DEF IsMap, Unacked
<1>2. Cardinality(S) \in Nat /\ order \in [1 .. Cardinality(S) -> S]
  BY <1>1, InOrderEnumerates
<1> HIDE DEF S
<1>3. \A i \in DOMAIN order : order[i] \in Nat /\ map[order[i]].type \in MessageTypes
  BY <1>1, <1>2 DEF IsMap
<1>4. \A i \in DOMAIN order : Message(map[order[i]].type, order[i]) \in WireMessage(MessageTypes)
  BY <1>3, MessageIsTyped
<1>5. Messages(map, limit) = [i \in 1 .. Cardinality(S) |-> Message(map[order[i]].type, order[i])]
  BY <1>2 DEF Messages, S
<1> QED BY <1>2, <1>4, <1>5

\* TypeOK in parts, one per group of variables.
MapsOK ==
    /\ m_send_seq \in Nat \ {0}
    /\ IsMap(m_pending_requests, m_send_seq, RequestEntry)
    /\ IsMap(m_pending_commands, m_send_seq, CommandEntry)
FlagsOK ==
    /\ m_state \in {"RUNNING", "STOPPING", "STOPPED"}
    /\ m_error \in BOOLEAN /\ cancelled \in BOOLEAN
    /\ retransmit \in {"running", "exited"} /\ recv \in {"idle", "notify"}
    /\ issued \in Seq(Record)
ThreadsOK ==
    /\ pc \in [Clients -> Labels]
    /\ op \in [Clients -> Operations \cup {"none"}]
    /\ seq \in [Clients -> Nat]
LineOK ==
    /\ toDevice \in Seq(WireMessage(MessageTypes))
    /\ toClient \in Seq(WireMessage(ReplyTypes))
DeviceOK ==
    /\ dev_expected \in 0 .. (SeqnumModulus - 1)
    /\ dev_queue \in Seq(Nat) /\ dev_interrupt \in BOOLEAN /\ dev_finishing \subseteq Nat
    /\ executed \in Seq(Record)
UsedOK == drops \in Nat /\ restarts \in Nat

LEMMA TypeParts == TypeOK <=> MapsOK /\ FlagsOK /\ ThreadsOK /\ LineOK /\ DeviceOK /\ UsedOK
BY DEF TypeOK, MapsOK, FlagsOK, ThreadsOK, LineOK, DeviceOK, UsedOK, IsMap

LEMMA ReturnType ==
    ASSUME ThreadsOK, NEW c \in Clients, NEW pcs \in [Clients -> Labels], Return(c, pcs)
    PROVE  ThreadsOK'
BY DEF ThreadsOK, Return, Goto, Labels

LEMMA GotoType ==
    ASSUME ThreadsOK, NEW c \in Clients, NEW pcs \in [Clients -> Labels],
           NEW label \in Labels, Goto(c, label, pcs), UNCHANGED <<op, seq>>
    PROVE  ThreadsOK'
BY DEF ThreadsOK, Goto

LEMMA InitType == Init => TypeOK
<1> SUFFICES ASSUME Init PROVE MapsOK /\ FlagsOK /\ ThreadsOK /\ LineOK /\ DeviceOK /\ UsedOK
  BY TypeParts
<1>1. MapsOK
  BY DEF Init, MapsOK, IsMap, EmptyMap
<1>2. FlagsOK /\ ThreadsOK /\ LineOK /\ UsedOK
  BY EmptySeq DEF Init, FlagsOK, ThreadsOK, LineOK, UsedOK, Labels
<1>3. DeviceOK
  <2>1. Wire(1) \in 0 .. (SeqnumModulus - 1) /\ Wire(3) \in 0 .. (SeqnumModulus - 1)
    BY Division
  <2> QED BY <2>1, EmptySeq DEF Init, DeviceOK
<1> QED BY <1>1, <1>2, <1>3

\* Calls.
LEMMA CallType ==
    ASSUME MapsOK, FlagsOK, ThreadsOK, NEW c \in Clients, ClientCall(c)
    PROVE  MapsOK' /\ FlagsOK' /\ ThreadsOK' /\ UNCHANGED <<deviceVars, line, used>>
<1>1. ASSUME NEW o, Call(c, o)
      PROVE  /\ MapsOK' /\ UNCHANGED <<m_error, retransmit, recv, issued, seq, deviceVars, line, used>>
             /\ op' \in [Clients -> Operations \cup {"none"}]
  BY <1>1, PABotBaseAssumption DEF MapsOK, ThreadsOK, Call, pending, deviceVars, line, used
<1>2. CASE CallIssue(c)
  <2>1. PICK o : Call(c, o)
    BY <1>2 DEF CallIssue
  <2> QED BY <1>1, <1>2, <2>1 DEF CallIssue, FlagsOK, ThreadsOK, Goto, Labels
<1>3. CASE CallCancel(c)
  <2>1. PICK o : Call(c, o)
    BY <1>3 DEF CallCancel
  <2> QED BY <1>1, <1>3, <2>1 DEF CallCancel, FlagsOK, ThreadsOK, Goto, Labels
<1>4. CASE CallWaitForAll(c)
  BY <1>1, <1>4 DEF CallWaitForAll, FlagsOK, ThreadsOK, Goto, Labels
<1>5. CASE CallStop(c)
  BY <1>1, <1>5 DEF CallStop, FlagsOK, ThreadsOK, Goto, Labels
<1> QED BY <1>2, <1>3, <1>4, <1>5 DEF ClientCall

\* What a client does inside a function.
LEMMA ClientStepType ==
    ASSUME MapsOK, FlagsOK, ThreadsOK, LineOK, NEW c \in Clients, ClientStep(c)
    PROVE  MapsOK' /\ FlagsOK' /\ ThreadsOK' /\ LineOK' /\ UNCHANGED <<deviceVars, used>>
<1> USE DEF clientVars, pending, deviceVars, line, used
<1>0. pc \in [Clients -> Labels] /\ notify_all(pc) \in [Clients -> Labels]
  BY NotifyAllType DEF ThreadsOK
<1>a. ASSUME UNCHANGED <<clientVars, deviceVars, line, used>>, ThreadsOK'
      PROVE  MapsOK' /\ FlagsOK' /\ ThreadsOK' /\ LineOK' /\ UNCHANGED <<deviceVars, used>>
  BY <1>a DEF MapsOK, FlagsOK, LineOK
<1>1. CASE TryThrow(c)
  BY <1>a, <1>0, <1>1, ReturnType DEF TryThrow
<1>2. CASE TryRefused(c)
  <2>1. CASE Return(c, pc)
    BY <1>a, <1>0, <1>2, <2>1, ReturnType DEF TryRefused
  <2>2. CASE Goto(c, "sleep", pc) /\ UNCHANGED <<op, seq>>
    BY <1>a, <1>0, <1>2, <2>2, GotoType DEF TryRefused, Labels
  <2> QED BY <1>2, <2>1, <2>2 DEF TryRefused
<1>3. CASE TryIssue(c)
  <2> DEFINE s    == m_send_seq
             type == MessageType(op[c])
             cmd  == [state |-> "NOT_ACKED", type |-> type]
             req  == [state |-> "NOT_ACKED", silent |-> op[c] \notin WaitedOps, type |-> type]
  <2>1. s \in Nat \ {0} /\ type \in MessageTypes /\ m_send_seq' = s + 1
    BY <1>3, MessageTypeType DEF MapsOK, TryIssue
  <2>2. MapsOK'
    <3>1. CASE op[c] \in CommandOps
      <4>1. cmd \in CommandEntry
        BY <3>1 DEF MessageType, CommandEntry, CommandOps, StopOps, InterruptOps
      <4>2. m_pending_commands' = Emplace(m_pending_commands, s, cmd) /\ UNCHANGED m_pending_requests
        BY <1>3, <3>1 DEF TryIssue
      <4>3. IsMap(m_pending_commands', s + 1, CommandEntry)
        BY <2>1, <4>1, <4>2, EmplaceType DEF MapsOK
      <4>4. IsMap(m_pending_requests', s + 1, RequestEntry)
        BY <2>1, <4>2 DEF MapsOK, IsMap
      <4> QED BY <2>1, <4>3, <4>4 DEF MapsOK
    <3>2. CASE op[c] \notin CommandOps
      <4>1. req \in RequestEntry
        BY <2>1 DEF RequestEntry
      <4>2. m_pending_requests' = Emplace(m_pending_requests, s, req) /\ UNCHANGED m_pending_commands
        BY <1>3, <3>2 DEF TryIssue
      <4>3. IsMap(m_pending_requests', s + 1, RequestEntry)
        BY <2>1, <4>1, <4>2, EmplaceType DEF MapsOK
      <4>4. IsMap(m_pending_commands', s + 1, CommandEntry)
        BY <2>1, <4>2 DEF MapsOK, IsMap
      <4> QED BY <2>1, <4>3, <4>4 DEF MapsOK
    <3> QED BY <3>1, <3>2
  <2>3. LineOK'
    <3>1. Message(type, s) \in WireMessage(MessageTypes)
      BY <2>1, MessageIsTyped
    <3>2. toDevice' = Append(toDevice, Message(type, s)) /\ toClient' = toClient
      BY <1>3 DEF TryIssue
    <3> QED BY <3>1, <3>2 DEF LineOK
  <2>4. FlagsOK'
    <3>1. [seq |-> s, type |-> type] \in Record
      BY <2>1 DEF Record
    <3>2. /\ issued' = IF type = "SEQNUM_RESET" THEN issued ELSE Append(issued, [seq |-> s, type |-> type])
          /\ UNCHANGED <<m_state, m_error, cancelled, retransmit, recv>>
      BY <1>3 DEF TryIssue
    <3> QED BY <3>1, <3>2 DEF FlagsOK
  <2>5. ThreadsOK'
    <3>1. \/ Goto(c, "clear", pc) /\ seq' = [seq EXCEPT ![c] = s] /\ UNCHANGED op
          \/ Goto(c, "reply", pc) /\ seq' = [seq EXCEPT ![c] = s] /\ UNCHANGED op
          \/ Return(c, pc)
      BY <1>3 DEF TryIssue
    <3> QED BY <2>1, <3>1, <1>0, ReturnType DEF ThreadsOK, Goto, Labels
  <2>6. UNCHANGED <<deviceVars, used>>
    BY <1>3 DEF TryIssue
  <2> QED BY <2>2, <2>3, <2>4, <2>5, <2>6
<1>4. CASE IssueSleep(c)
  <2>1. CASE Return(c, pc)
    BY <1>a, <1>0, <1>4, <2>1, ReturnType DEF IssueSleep
  <2>2. CASE Goto(c, "issue_wait", pc) /\ UNCHANGED <<op, seq>>
    BY <1>a, <1>0, <1>4, <2>2, GotoType DEF IssueSleep, Labels
  <2> QED BY <1>4, <2>1, <2>2 DEF IssueSleep
<1>5. CASE clear_all_active_commands(c)
  <2>1. ThreadsOK'
    BY <1>5, <1>0, ReturnType DEF clear_all_active_commands
  <2>2. MapsOK'
    BY <1>5, EraseType DEF clear_all_active_commands, MapsOK
  <2> QED BY <1>5, <2>1, <2>2 DEF clear_all_active_commands, FlagsOK, LineOK
<1>6. CASE wait_for_request(c)
  <2>1. \/ Return(c, pc) /\ UNCHANGED m_pending_requests
        \/ Return(c, notify_all(pc)) /\ m_pending_requests' = Erase(m_pending_requests, {seq[c]})
        \/ Goto(c, "reply_wait", pc) /\ UNCHANGED <<op, seq, m_pending_requests>>
    BY <1>6 DEF wait_for_request
  <2>2. ThreadsOK'
    BY <2>1, <1>0, ReturnType, GotoType DEF Labels
  <2>3. MapsOK'
    BY <1>6, <2>1, EraseType DEF wait_for_request, MapsOK
  <2> QED BY <1>6, <2>2, <2>3 DEF wait_for_request, FlagsOK, LineOK
<1>7. CASE wait_for_all_requests(c)
  <2>1. CASE Return(c, pc)
    BY <1>a, <1>0, <1>7, <2>1, ReturnType DEF wait_for_all_requests
  <2>2. CASE Goto(c, "all_wait", pc) /\ UNCHANGED <<op, seq>>
    BY <1>a, <1>0, <1>7, <2>2, GotoType DEF wait_for_all_requests, Labels
  <2> QED BY <1>7, <2>1, <2>2 DEF wait_for_all_requests
<1>8. CASE StopNotify(c)
  BY <1>a, <1>0, <1>8, GotoType DEF StopNotify, Labels
<1>9. CASE StopJoin(c)
  BY <1>a, <1>0, <1>9, GotoType DEF StopJoin, Labels
<1>10. CASE StopSend(c)
  <2>1. ThreadsOK'
    BY <1>0, <1>10, GotoType DEF StopSend, Labels
  <2>2. LineOK'
    <3>1. Message("REQUEST_STOP", m_send_seq) \in WireMessage(MessageTypes)
      BY MessageIsTyped DEF MapsOK, MessageTypes
    <3> QED BY <3>1, <1>10 DEF StopSend, LineOK
  <2>3. FlagsOK'
    <3>1. [seq |-> m_send_seq, type |-> "REQUEST_STOP"] \in Record
      BY DEF Record, MapsOK, MessageTypes
    <3> QED BY <3>1, <1>10 DEF StopSend, FlagsOK
  <2> QED BY <2>1, <2>2, <2>3, <1>10 DEF StopSend, MapsOK
<1>11. CASE StopConnection(c)
  <2>1. ThreadsOK'
    BY <1>0, <1>11, ReturnType DEF StopConnection
  <2> QED BY <2>1, <1>11 DEF StopConnection, MapsOK, FlagsOK, LineOK
<1> QED BY <1>1, <1>2, <1>3, <1>4, <1>5, <1>6, <1>7, <1>8, <1>9, <1>10, <1>11 DEF ClientStep

LEMMA RetransmitType ==
    ASSUME MapsOK, LineOK, NEW limit, Retransmit(limit)
    PROVE  LineOK'
<1>1. Messages(m_pending_requests, limit) \in Seq(WireMessage(MessageTypes))
  <2>1. \A e \in RequestEntry : e.type \in MessageTypes
    BY DEF RequestEntry
  <2> QED BY <2>1, MessagesType DEF MapsOK
<1>2. Messages(m_pending_commands, limit) \in Seq(WireMessage(MessageTypes))
  <2>1. \A e \in CommandEntry : e.type \in MessageTypes
    BY DEF CommandEntry, MessageTypes
  <2> QED BY <2>1, MessagesType DEF MapsOK
<1>3. Resent(limit) \in Seq(WireMessage(MessageTypes))
  BY <1>1, <1>2 DEF Resent
<1> QED BY <1>3 DEF Retransmit, LineOK

\* The receiver thread.
LEMMA ReceiverType ==
    ASSUME MapsOK, FlagsOK, ThreadsOK, LineOK, ReceiverStep
    PROVE  MapsOK' /\ FlagsOK' /\ ThreadsOK' /\ LineOK' /\ UNCHANGED <<deviceVars, used>>
<1> USE DEF clientVars, pending, threadVars, deviceVars, used
<1>0. notify_all(pc) \in [Clients -> Labels]
  BY NotifyAllType DEF ThreadsOK
<1>a. ASSUME NEW types, Receive(types)
      PROVE  /\ Head(toClient) \in WireMessage(ReplyTypes)
             /\ toClient' \in Seq(WireMessage(ReplyTypes))
  BY <1>a DEF Receive, LineOK
<1>1. CASE process_ack_request
  <2>1. PICK S : m_pending_requests' = AckEntries(S) /\ recv' \in {"notify", "idle"}
    BY <1>1 DEF process_ack_request
  <2>2. IsMap(m_pending_requests', m_send_seq, RequestEntry)
    <3>1. CASE m_pending_requests' = Erase(m_pending_requests, S)
      BY <3>1, EraseType DEF MapsOK
    <3>2. CASE m_pending_requests' = [s \in DOMAIN m_pending_requests |->
                  IF s \in S THEN [m_pending_requests[s] EXCEPT !.state = "ACKED"] ELSE m_pending_requests[s]]
      BY <3>2 DEF MapsOK, IsMap, RequestEntry
    <3> QED BY <2>1, <3>1, <3>2 DEF AckEntries
  <2> QED BY <1>1, <1>a, <2>1, <2>2 DEF process_ack_request, MapsOK, FlagsOK, ThreadsOK, LineOK
<1>2. CASE process_ack_command
  <2>1. IsMap(m_pending_commands', m_send_seq, CommandEntry)
    BY <1>2 DEF process_ack_command, MapsOK, IsMap, CommandEntry
  <2> QED BY <1>2, <1>a, <2>1 DEF process_ack_command, MapsOK, FlagsOK, ThreadsOK, LineOK
<1>3. CASE process_command_finished
  <2> DEFINE m   == Head(toClient)
             ack == [type |-> "ACK_REQUEST", seq |-> m.seq, id |-> m.id]
  <2>1. PICK S : /\ m_pending_commands' = Erase(m_pending_commands, S)
                 /\ pc' = IF S # {} THEN notify_all(pc) ELSE pc
    BY <1>3 DEF process_command_finished
  <2>2. toDevice' = Append(toDevice, ack)
    BY <1>3 DEF process_command_finished
  <2>3. m \in WireMessage(ReplyTypes) /\ toClient' \in Seq(WireMessage(ReplyTypes))
    BY <1>3, <1>a DEF process_command_finished
  <2>4. ack \in WireMessage(MessageTypes)
    BY <2>3 DEF WireMessage, MessageTypes
  <2> HIDE DEF ack
  <2>5. LineOK'
    BY <2>2, <2>3, <2>4 DEF LineOK
  <2>6. MapsOK'
    BY <1>3, <2>1, EraseType DEF process_command_finished, MapsOK
  <2>7. ThreadsOK'
    BY <1>0, <1>3, <2>1 DEF process_command_finished, ThreadsOK
  <2> QED BY <1>3, <2>5, <2>6, <2>7 DEF process_command_finished, FlagsOK
<1>4. CASE MissedRequest
  <2>1. m_error' \in BOOLEAN /\ recv' \in {"idle", "notify"}
    BY <1>4 DEF MissedRequest, FlagsOK
  <2> QED BY <1>4, <1>a, <2>1 DEF MissedRequest, MapsOK, FlagsOK, ThreadsOK, LineOK
<1>5. CASE IgnoreMessage
  BY <1>5, <1>a DEF IgnoreMessage, MapsOK, FlagsOK, ThreadsOK, LineOK
<1>6. CASE ReceiverNotify
  BY <1>6, <1>0 DEF ReceiverNotify, MapsOK, FlagsOK, ThreadsOK, LineOK, line
<1> QED BY <1>1, <1>2, <1>3, <1>4, <1>5, <1>6 DEF ReceiverStep

\* The device leaves the client alone.
LEMMA DeviceType ==
    ASSUME LineOK, DeviceOK, DeviceStep
    PROVE  LineOK' /\ DeviceOK' /\ UNCHANGED <<clientVars, threadVars, used>>
<1> USE DEF DeviceUnchanged, deviceVars
<1> DEFINE m == Head(toDevice)
<1>a. ASSUME DeviceReceive
      PROVE  /\ m \in WireMessage(MessageTypes)
             /\ toDevice' \in Seq(WireMessage(MessageTypes))
  BY <1>a DEF DeviceReceive, LineOK
<1>b. ASSUME DeviceReceive, NEW type \in ReplyTypes, Reply(type, m)
      PROVE  LineOK'
  <2>1. [type |-> type, seq |-> m.seq, id |-> m.id] \in WireMessage(ReplyTypes)
    BY <1>a, <1>b DEF WireMessage
  <2> QED BY <1>a, <1>b, <2>1 DEF Reply, LineOK
<1>c. AckOf(m) \in ReplyTypes
  BY DEF AckOf, ReplyTypes
<1>d. ASSUME NEW s \in Nat
      PROVE  Wire(s + 1) \in 0 .. (SeqnumModulus - 1) /\ Finish(s) \in WireMessage(ReplyTypes)
  BY Division DEF Finish, WireMessage, ReplyTypes
<1>1. CASE DeviceSeqnumReset
  <2>1. m.seq \in Nat
    BY <1>1, <1>a, SeqNumAssumption DEF DeviceSeqnumReset, WireMessage
  <2>2. dev_expected' \in 0 .. (SeqnumModulus - 1)
    BY <2>1, <1>1, <1>d DEF DeviceSeqnumReset
  <2>3. LineOK'
    BY <1>1, <1>b DEF DeviceSeqnumReset, ReplyTypes
  <2> QED BY <1>1, <2>2, <2>3 DEF DeviceSeqnumReset, DeviceOK
<1>2. CASE DeviceProcess
  <2>1. LineOK'
    BY <1>2, <1>b, <1>c DEF DeviceProcess
  <2>2. m.id \in Nat /\ [seq |-> m.id, type |-> m.type] \in Record
    BY <1>2, <1>a DEF DeviceProcess, WireMessage, Record
  <2>3. dev_queue' \in Seq(Nat) /\ dev_interrupt' \in BOOLEAN
    <3>1. \/ dev_queue' = <<m.id>> \/ dev_queue' = Append(dev_queue, m.id)
          \/ dev_queue' = <<>> \/ dev_queue' = dev_queue
      BY <1>2 DEF DeviceProcess
    <3>2. dev_interrupt' \in BOOLEAN
      BY <1>2 DEF DeviceProcess, DeviceOK
    <3>3. <<m.id>> \in Seq(Nat) /\ <<>> \in Seq(Nat) /\ Append(dev_queue, m.id) \in Seq(Nat)
      BY <2>2, EmptySeq DEF DeviceOK
    <3> QED BY <3>1, <3>2, <3>3 DEF DeviceOK
  <2>4. dev_expected' \in 0 .. (SeqnumModulus - 1)
    BY <1>2, <1>d, SeqNumAssumption DEF DeviceProcess, DeviceOK
  <2>5. executed' \in Seq(Record) /\ dev_finishing' = dev_finishing /\ UNCHANGED <<clientVars, threadVars, used>>
    BY <1>2, <2>2 DEF DeviceProcess, DeviceOK
  <2> QED BY <2>1, <2>3, <2>4, <2>5 DEF DeviceOK
<1>3. CASE DeviceDropCommand
  BY <1>3, <1>b DEF DeviceDropCommand, ReplyTypes, DeviceOK
<1>4. CASE DeviceAckAgain
  BY <1>4, <1>b, <1>c DEF DeviceAckAgain, DeviceOK
<1>5. CASE DeviceMissed
  <2>1. [type |-> "ERROR_MISSED_REQUEST", seq |-> dev_expected, id |-> 0] \in WireMessage(ReplyTypes)
    BY DEF DeviceOK, WireMessage, ReplyTypes
  <2> QED BY <1>5, <1>a, <2>1 DEF DeviceMissed, LineOK, DeviceOK
<1>6. CASE DeviceFinishAcked
  BY <1>6, <1>a DEF DeviceFinishAcked, LineOK, DeviceOK
<1>7. CASE DeviceFinish
  <2>1. Head(dev_queue) \in Nat /\ dev_queue' \in Seq(Nat)
    BY <1>7 DEF DeviceFinish, DeviceOK
  <2>2. Finish(Head(dev_queue)) \in WireMessage(ReplyTypes)
    BY <1>d, <2>1
  <2>3. LineOK'
    BY <1>7, <2>2 DEF DeviceFinish, LineOK
  <2>4. DeviceOK'
    BY <1>7, <2>1 DEF DeviceFinish, DeviceOK
  <2> QED BY <1>7, <2>3, <2>4 DEF DeviceFinish
<1>8. ASSUME NEW s \in dev_finishing, DeviceResendFinish(s)
      PROVE  LineOK' /\ DeviceOK' /\ UNCHANGED <<clientVars, threadVars, used>>
  <2>1. Finish(s) \in WireMessage(ReplyTypes)
    BY <1>d DEF DeviceOK
  <2> QED BY <1>8, <2>1 DEF DeviceResendFinish, LineOK, DeviceOK
<1> QED BY <1>1, <1>2, <1>3, <1>4, <1>5, <1>6, <1>7, <1>8 DEF DeviceStep, DeviceInput

LEMMA EnvironmentType ==
    ASSUME LineOK, DeviceOK, UsedOK, Environment
    PROVE  LineOK' /\ DeviceOK' /\ UsedOK' /\ UNCHANGED <<clientVars, threadVars>>
<1>1. CASE LoseToDevice
  BY <1>1 DEF LoseToDevice, LineOK, DeviceOK, UsedOK, deviceVars
<1>2. CASE LoseToClient
  BY <1>2 DEF LoseToClient, LineOK, DeviceOK, UsedOK, deviceVars
<1>3. CASE DeviceRestart
  <2>1. Wire(1) \in 0 .. (SeqnumModulus - 1)
    BY Division
  <2>2. dev_queue' \in Seq(Nat)
    BY <1>3, EmptySeq DEF DeviceRestart
  <2>3. DeviceOK'
    BY <1>3, <2>1, <2>2 DEF DeviceRestart, DeviceOK
  <2> QED BY <1>3, <2>3 DEF DeviceRestart, LineOK, UsedOK, line
<1> QED BY <1>1, <1>2, <1>3 DEF Environment

LEMMA StepType == TypeOK /\ [Next]_vars => TypeOK'
<1> SUFFICES ASSUME TypeOK, [Next]_vars
             PROVE  MapsOK' /\ FlagsOK' /\ ThreadsOK' /\ LineOK' /\ DeviceOK' /\ UsedOK'
  BY DEF TypeOK, MapsOK, FlagsOK, ThreadsOK, LineOK, DeviceOK, UsedOK, IsMap
<1>0. MapsOK /\ FlagsOK /\ ThreadsOK /\ LineOK /\ DeviceOK /\ UsedOK
  BY TypeParts
<1>f. /\ UNCHANGED clientVars => MapsOK' /\ FlagsOK'
      /\ UNCHANGED threadVars => ThreadsOK'
      /\ UNCHANGED deviceVars => DeviceOK'
      /\ UNCHANGED line => LineOK'
      /\ UNCHANGED used => UsedOK'
  BY <1>0 DEF MapsOK, FlagsOK, ThreadsOK, LineOK, DeviceOK, UsedOK,
              clientVars, pending, threadVars, deviceVars, line, used
<1>1. ASSUME NEW c \in Clients, ClientCall(c)
      PROVE  MapsOK' /\ FlagsOK' /\ ThreadsOK' /\ LineOK' /\ DeviceOK' /\ UsedOK'
  BY <1>0, <1>f, <1>1, CallType
<1>2. ASSUME NEW c \in Clients, ClientStep(c)
      PROVE  MapsOK' /\ FlagsOK' /\ ThreadsOK' /\ LineOK' /\ DeviceOK' /\ UsedOK'
  BY <1>0, <1>f, <1>2, ClientStepType
<1>3. ASSUME NEW c \in Clients, SpuriousWakeup(c)
      PROVE  MapsOK' /\ FlagsOK' /\ ThreadsOK' /\ LineOK' /\ DeviceOK' /\ UsedOK'
  <2>1. notify_all(pc) \in [Clients -> Labels]
    BY <1>0, NotifyAllType DEF ThreadsOK
  <2>2. ThreadsOK'
    BY <1>0, <1>3, <2>1 DEF SpuriousWakeup, ThreadsOK
  <2> QED BY <1>f, <1>3, <2>2 DEF SpuriousWakeup
<1>4. ASSUME NEW limit \in Live, Retransmit(limit)
      PROVE  MapsOK' /\ FlagsOK' /\ ThreadsOK' /\ LineOK' /\ DeviceOK' /\ UsedOK'
  BY <1>0, <1>f, <1>4, RetransmitType DEF Retransmit
<1>5. CASE RetransmitExit
  <2>1. MapsOK' /\ FlagsOK'
    BY <1>0, <1>5 DEF RetransmitExit, MapsOK, FlagsOK, pending
  <2> QED BY <1>f, <1>5, <2>1 DEF RetransmitExit
<1>6. CASE ReceiverStep
  BY <1>0, <1>f, <1>6, ReceiverType
<1>7. CASE DeviceStep
  BY <1>0, <1>f, <1>7, DeviceType
<1>8. CASE Environment
  BY <1>0, <1>f, <1>8, EnvironmentType
<1>9. CASE UNCHANGED vars
  BY <1>f, <1>9 DEF vars
<1> QED BY <1>1, <1>2, <1>3, <1>4, <1>5, <1>6, <1>7, <1>8, <1>9 DEF Next

\* Type invariant: in particular every live number has been given out.
THEOREM TypeCorrect == Spec => []TypeOK
BY InitType, StepType, PTL DEF Spec

-----------------------------------------------------------------------------
(* The limits.  A step either issues a message or lets the maps shrink.    *)

\* No new entry, and no command back in flight.
MapsShrink ==
    /\ m_send_seq' = m_send_seq
    /\ DOMAIN m_pending_requests' \subseteq DOMAIN m_pending_requests
    /\ DOMAIN m_pending_commands' \subseteq DOMAIN m_pending_commands
    /\ Unacked(m_pending_commands)' \subseteq Unacked(m_pending_commands)

LEMMA EraseShrinks ==
    ASSUME NEW map, NEW S
    PROVE  /\ DOMAIN Erase(map, S) \subseteq DOMAIN map
           /\ Unacked(Erase(map, S)) \subseteq Unacked(map)
BY DEF Erase, Unacked

LEMMA IssueOrShrink ==
    ASSUME TypeOK, [Next]_vars
    PROVE  MapsShrink \/ \E c \in Clients : TryIssue(c)
<1> USE DEF clientVars, pending, threadVars, deviceVars, line, used
<1>a. ASSUME UNCHANGED <<m_send_seq, m_pending_requests, m_pending_commands>> PROVE MapsShrink
  BY <1>a DEF MapsShrink, Unacked
<1>b. ASSUME UNCHANGED <<m_send_seq, m_pending_requests>>, NEW S,
             m_pending_commands' = Erase(m_pending_commands, S)
      PROVE  MapsShrink
  BY <1>b, EraseShrinks DEF MapsShrink, Unacked, Erase
<1>c. ASSUME UNCHANGED <<m_send_seq, m_pending_commands>>, NEW S,
             m_pending_requests' = Erase(m_pending_requests, S)
      PROVE  MapsShrink
  BY <1>c DEF MapsShrink, Unacked, Erase
<1>1. ASSUME NEW c \in Clients, ClientCall(c) PROVE MapsShrink
  BY <1>1, <1>a DEF ClientCall, CallIssue, CallCancel, CallWaitForAll, CallStop, Call
<1>2. ASSUME NEW c \in Clients, ClientStep(c) PROVE MapsShrink \/ TryIssue(c)
  <2>1. CASE clear_all_active_commands(c)
    BY <2>1, <1>b DEF clear_all_active_commands
  <2>2. CASE wait_for_request(c)
    BY <2>2, <1>a, <1>c DEF wait_for_request
  <2>3. CASE TryThrow(c) \/ TryRefused(c) \/ IssueSleep(c) \/ wait_for_all_requests(c)
    BY <2>3, <1>a DEF TryThrow, TryRefused, IssueSleep, wait_for_all_requests
  <2>4. CASE StopNotify(c) \/ StopJoin(c) \/ StopSend(c) \/ StopConnection(c)
    BY <2>4, <1>a DEF StopNotify, StopJoin, StopSend, StopConnection
  <2> QED BY <1>2, <2>1, <2>2, <2>3, <2>4 DEF ClientStep
<1>3. CASE \E c \in Clients : SpuriousWakeup(c)
  BY <1>3, <1>a DEF SpuriousWakeup
<1>4. CASE (\E limit \in Live : Retransmit(limit)) \/ RetransmitExit
  BY <1>4, <1>a DEF Retransmit, RetransmitExit
<1>5. CASE ReceiverStep
  <2>1. CASE process_ack_request
    <3>1. PICK S : m_pending_requests' = AckEntries(S)
      BY <2>1 DEF process_ack_request
    <3>2. DOMAIN m_pending_requests' \subseteq DOMAIN m_pending_requests
      BY <3>1 DEF AckEntries, Erase
    <3> QED BY <2>1, <3>2 DEF process_ack_request, MapsShrink, Unacked
  <2>2. CASE process_ack_command
    <3>1. DOMAIN m_pending_commands' = DOMAIN m_pending_commands
      BY <2>2 DEF process_ack_command
    <3>2. \A s \in DOMAIN m_pending_commands :
             m_pending_commands'[s].state = "NOT_ACKED" => m_pending_commands[s].state = "NOT_ACKED"
      BY <2>2 DEF process_ack_command, TypeOK, CommandEntry
    <3> QED BY <2>2, <3>1, <3>2 DEF process_ack_command, MapsShrink, Unacked
  <2>3. CASE process_command_finished
    BY <2>3, <1>b DEF process_command_finished
  <2>4. CASE MissedRequest \/ IgnoreMessage \/ ReceiverNotify
    BY <2>4, <1>a DEF MissedRequest, IgnoreMessage, ReceiverNotify
  <2> QED BY <1>5, <2>1, <2>2, <2>3, <2>4 DEF ReceiverStep
<1>6. CASE DeviceStep
  <2>1. UNCHANGED clientVars
    BY <1>6 DEF DeviceStep, DeviceInput, DeviceSeqnumReset, DeviceProcess, DeviceDropCommand, DeviceAckAgain,
                DeviceMissed, DeviceFinishAcked, DeviceFinish, DeviceResendFinish, DeviceUnchanged
  <2> QED BY <2>1, <1>a
<1>7. CASE Environment
  BY <1>7, <1>a DEF Environment, LoseToDevice, LoseToClient, DeviceRestart
<1>8. CASE UNCHANGED vars
  BY <1>8, <1>a DEF vars
<1> QED BY <1>1, <1>2, <1>3, <1>4, <1>5, <1>6, <1>7, <1>8 DEF Next

\* What TryIssue(c) does to the two maps.
LEMMA IssueAdds ==
    ASSUME TypeOK, NEW c \in Clients, TryIssue(c)
    PROVE  /\ m_send_seq' = m_send_seq + 1 /\ ~ Throttled(op[c])
           /\ \/ /\ op[c] \in CommandOps
                 /\ DOMAIN m_pending_requests' = DOMAIN m_pending_requests
                 /\ DOMAIN m_pending_commands' = DOMAIN m_pending_commands \cup {m_send_seq}
                 /\ Unacked(m_pending_commands)' = Unacked(m_pending_commands) \cup {m_send_seq}
              \/ /\ DOMAIN m_pending_requests' = DOMAIN m_pending_requests \cup {m_send_seq}
                 /\ DOMAIN m_pending_commands' = DOMAIN m_pending_commands
                 /\ Unacked(m_pending_commands)' = Unacked(m_pending_commands)
<1>1. m_send_seq' = m_send_seq + 1 /\ ~ Throttled(op[c])
  BY DEF TryIssue
<1>2. m_send_seq \notin DOMAIN m_pending_commands
  BY DEF TypeOK
<1>3. CASE op[c] \in CommandOps
  <2> DEFINE entry == [state |-> "NOT_ACKED", type |-> MessageType(op[c])]
  <2>1. m_pending_commands' = Emplace(m_pending_commands, m_send_seq, entry) /\ UNCHANGED m_pending_requests
    BY <1>3 DEF TryIssue
  <2> QED BY <1>1, <1>2, <1>3, <2>1 DEF Emplace, Unacked
<1>4. CASE op[c] \notin CommandOps
  <2>1. DOMAIN m_pending_requests' = DOMAIN m_pending_requests \cup {m_send_seq} /\ UNCHANGED m_pending_commands
    BY <1>4 DEF TryIssue, Emplace
  <2> QED BY <1>1, <2>1 DEF Unacked
<1> QED BY <1>3, <1>4

LEMMA MapsFinite ==
    ASSUME TypeOK
    PROVE  /\ IsFiniteSet(DOMAIN m_pending_requests) /\ Cardinality(DOMAIN m_pending_requests) \in Nat
           /\ IsFiniteSet(DOMAIN m_pending_commands) /\ Cardinality(DOMAIN m_pending_commands) \in Nat
           /\ IsFiniteSet(Unacked(m_pending_commands)) /\ Cardinality(Unacked(m_pending_commands)) \in Nat
<1>1. IsFiniteSet(1 .. (m_send_seq - 1))
  <2>1. 1 \in Int /\ m_send_seq - 1 \in Int
    BY DEF TypeOK
  <2> QED BY <2>1, FS_Interval
<1>2. ASSUME NEW S \in SUBSET (1 .. (m_send_seq - 1)) PROVE IsFiniteSet(S) /\ Cardinality(S) \in Nat
  BY <1>1, FS_Subset, FS_CardinalityType
<1>3. Unacked(m_pending_commands) \subseteq DOMAIN m_pending_commands
  BY DEF Unacked
<1> QED BY <1>2, <1>3 DEF TypeOK

LEMMA OneMore ==
    ASSUME NEW S, IsFiniteSet(S), Cardinality(S) \in Nat, NEW x, NEW T, T = S \cup {x}
    PROVE  Cardinality(T) <= Cardinality(S) + 1
<1>1. Cardinality(S \cup {x}) = IF x \in S THEN Cardinality(S) ELSE Cardinality(S) + 1
  BY FS_AddElement
<1> QED BY <1>1

LEMMA NextNumberType ==
    ASSUME TypeOK'
    PROVE  1 \in Int /\ m_send_seq' - 1 \in Int
<1>1. m_send_seq' \in Nat
  BY DEF TypeOK
<1> QED BY <1>1

LEMMA PendingBoundStep ==
    ASSUME TypeOK, TypeOK', PendingBound, [Next]_vars
    PROVE  PendingBound'
<1> DEFINE R == DOMAIN m_pending_requests
           C == DOMAIN m_pending_commands
           U == Unacked(m_pending_commands)
<1>1. /\ IsFiniteSet(R) /\ Cardinality(R) \in Nat
      /\ IsFiniteSet(C) /\ Cardinality(C) \in Nat
      /\ IsFiniteSet(U) /\ Cardinality(U) \in Nat
  BY MapsFinite
<1>2. SUFFICES /\ Cardinality(C') <= MAX_PENDING_REQUESTS
               /\ Cardinality(R') + Cardinality(U') <= MAX_PENDING_REQUESTS
  BY DEF PendingBound, inflight_requests
<1>3. /\ Cardinality(C) <= MAX_PENDING_REQUESTS
      /\ Cardinality(R) + Cardinality(U) <= MAX_PENDING_REQUESTS
  BY DEF PendingBound, inflight_requests
<1>4. Cardinality(R') \in Nat /\ Cardinality(C') \in Nat /\ Cardinality(U') \in Nat
  <2>1. R' \subseteq 1 .. (m_send_seq' - 1) /\ C' \subseteq 1 .. (m_send_seq' - 1) /\ U' \subseteq C'
    BY DEF TypeOK, Unacked
  <2>2. IsFiniteSet(1 .. (m_send_seq' - 1))
    BY NextNumberType, FS_Interval
  <2>3. IsFiniteSet(R') /\ IsFiniteSet(C') /\ IsFiniteSet(U')
    BY <2>1, <2>2, FS_Subset
  <2> QED BY <2>3, FS_CardinalityType
<1>5. CASE MapsShrink
  <2>1. R' \subseteq R /\ C' \subseteq C /\ U' \subseteq U
    BY <1>5 DEF MapsShrink
  <2>2. Cardinality(R') <= Cardinality(R)
    BY <1>1, <2>1, FS_Subset
  <2>3. Cardinality(C') <= Cardinality(C)
    BY <1>1, <2>1, FS_Subset
  <2>4. Cardinality(U') <= Cardinality(U)
    BY <1>1, <2>1, FS_Subset
  <2> HIDE DEF R, C, U
  <2> QED BY <1>1, <1>3, <1>4, <2>2, <2>3, <2>4, PABotBaseAssumption
<1>6. ASSUME NEW c \in Clients, TryIssue(c)
      PROVE  /\ Cardinality(C') <= MAX_PENDING_REQUESTS
             /\ Cardinality(R') + Cardinality(U') <= MAX_PENDING_REQUESTS
  <2>1. ~ Throttled(op[c])
    BY <1>6, IssueAdds
  <2>2. Cardinality(R) + Cardinality(U) < MAX_PENDING_REQUESTS
    <3>1. Cardinality(R) + Cardinality(U) \in Nat /\ MAX_PENDING_REQUESTS \in Nat
      BY <1>1, PABotBaseAssumption
    <3>2. ~ (Cardinality(R) + Cardinality(U) >= MAX_PENDING_REQUESTS)
      BY <2>1 DEF Throttled, inflight_requests
    <3> QED BY <3>1, <3>2
  <2>3. CASE op[c] \in CommandOps /\ R' = R /\ C' = C \cup {m_send_seq} /\ U' = U \cup {m_send_seq}
    <3>1. ~ (Cardinality(C) >= MAX_PENDING_REQUESTS)
      BY <2>1, <2>3 DEF Throttled
    <3>2. Cardinality(C') <= Cardinality(C) + 1
      BY <1>1, <2>3, OneMore
    <3>3. Cardinality(U') <= Cardinality(U) + 1
      BY <1>1, <2>3, OneMore
    <3> HIDE DEF C, U
    <3> QED BY <1>1, <1>4, <2>2, <2>3, <3>1, <3>2, <3>3, PABotBaseAssumption
  <2>4. CASE R' = R \cup {m_send_seq} /\ C' = C /\ U' = U
    <3>1. Cardinality(R') <= Cardinality(R) + 1
      BY <1>1, <2>4, OneMore
    <3> HIDE DEF R
    <3> QED BY <1>1, <1>3, <1>4, <2>2, <2>4, <3>1, PABotBaseAssumption
  <2> QED BY <1>6, <2>3, <2>4, IssueAdds
<1> QED BY <1>5, <1>6, IssueOrShrink

\* The client never has more commands unfinished, nor more messages in
\* flight, than its limit, for any number of threads.
THEOREM LimitsHold == Spec => []PendingBound
<1>1. Init => PendingBound
  <2> SUFFICES ASSUME Init PROVE PendingBound
    OBVIOUS
  <2>1. DOMAIN m_pending_requests = {} /\ DOMAIN m_pending_commands = {} /\ Unacked(m_pending_commands) = {}
    BY DEF Init, EmptyMap, Unacked
  <2> QED BY <2>1, FS_EmptySet, PABotBaseAssumption DEF PendingBound, inflight_requests
<1>2. TypeOK /\ TypeOK' /\ PendingBound /\ [Next]_vars => PendingBound'
  BY PendingBoundStep
<1> QED BY <1>1, <1>2, TypeCorrect, PTL DEF Spec

-----------------------------------------------------------------------------
(* The window of live numbers.                                             *)

\* What the gap check of try_issue_request() maintains.
WithinGap == \A s \in Live : m_send_seq - 1 - s <= MAX_SEQNUM_GAP

LEMMA WithinGapStep ==
    ASSUME TypeOK, WithinGap, [Next]_vars
    PROVE  WithinGap'
<1>1. CASE MapsShrink
  <2>1. Live' \subseteq Live /\ m_send_seq' = m_send_seq
    BY <1>1 DEF MapsShrink, Live
  <2> QED BY <2>1 DEF WithinGap
<1>2. ASSUME NEW c \in Clients, TryIssue(c) PROVE WithinGap'
  <2>1. m_send_seq' = m_send_seq + 1 /\ Live' \subseteq Live \cup {m_send_seq}
    BY <1>2, IssueAdds DEF Live
  <2>2. ~ TooFarAhead
    BY <1>2, IssueAdds DEF Throttled
  <2>3. ASSUME NEW s \in Live' PROVE m_send_seq' - 1 - s <= MAX_SEQNUM_GAP
    <3>1. m_send_seq \in Nat /\ MAX_SEQNUM_GAP \in Nat
      BY SeqNumAssumption DEF TypeOK
    <3>2. CASE s = m_send_seq
      BY <2>1, <3>1, <3>2
    <3>3. CASE s \in Live
      <4>1. s \in Nat
        BY <3>3 DEF TypeOK, Live
      <4>2. ~ (m_send_seq - s > MAX_SEQNUM_GAP)
        BY <2>2, <3>3 DEF TooFarAhead
      <4> QED BY <2>1, <3>1, <4>1, <4>2
    <3> QED BY <2>1, <2>3, <3>2, <3>3
  <2> QED BY <2>3 DEF WithinGap
<1> QED BY <1>1, <1>2, IssueOrShrink

LEMMA GapFinds ==
    ASSUME TypeOK, WithinGap
    PROVE  LiveIsFound
<1>1. ASSUME NEW map, DOMAIN map \subseteq Live, NEW s \in DOMAIN map
      PROVE  Found(map, Wire(s)) = {s}
  <2>1. m_send_seq - 1 \in Nat /\ DOMAIN map \subseteq 1 .. (m_send_seq - 1)
    BY <1>1 DEF TypeOK, Live
  <2>2. \A a, b \in DOMAIN map : a - b <= MAX_SEQNUM_GAP
    <3>1. SUFFICES ASSUME NEW a \in DOMAIN map, NEW b \in DOMAIN map PROVE a - b <= MAX_SEQNUM_GAP
      OBVIOUS
    <3>2. a <= m_send_seq - 1 /\ m_send_seq - 1 - b <= MAX_SEQNUM_GAP
      BY <1>1, <2>1 DEF WithinGap
    <3>3. a \in Nat /\ b \in Nat /\ m_send_seq \in Nat /\ MAX_SEQNUM_GAP \in Nat
      BY SMTT(20), <2>1, SeqNumAssumption DEF TypeOK
    <3> QED BY <3>2, <3>3
  <2>3. InferFullSeqnum(DOMAIN map, Wire(s)) = s
    BY <1>1, <2>1, <2>2, InferFindsLive
  <2> QED BY <1>1, <2>3 DEF Found
<1> QED BY <1>1 DEF LiveIsFound, Live

\* infer_full_seqnum() finds every live entry, for every modulus and gap
\* that SeqNumAssumption allows and however many numbers have been used.
THEOREM LiveAlwaysFound == Spec => []LiveIsFound
<1>1. Init => WithinGap
  BY DEF Init, WithinGap, Live, EmptyMap
<1>2. TypeOK /\ WithinGap /\ [Next]_vars => WithinGap'
  BY WithinGapStep
<1>3. TypeOK /\ WithinGap => LiveIsFound
  BY GapFinds
<1> QED BY <1>1, <1>2, <1>3, TypeCorrect, PTL DEF Spec

-----------------------------------------------------------------------------
(* Waiters and their entries.                                              *)

Waiters == {c \in Clients : pc[c] \in {"reply", "reply_wait"}}
Awaited == {s \in DOMAIN m_pending_requests : ~ m_pending_requests[s].silent}

LEMMA WaiterParts ==
    OneWaiterPerReply <=> /\ Awaited = {seq[c] : c \in Waiters}
                          /\ \A c, d \in Waiters : seq[c] = seq[d] => c = d
BY DEF OneWaiterPerReply, Waiters, Awaited

\* A notification takes nobody in or out of wait_for_request().
LEMMA NotifyKeepsWaiters ==
    ASSUME NEW pcs \in [Clients -> Labels], NEW c \in Clients
    PROVE  notify_all(pcs)[c] \in {"reply", "reply_wait"} <=> pcs[c] \in {"reply", "reply_wait"}
BY DEF notify_all, Labels

LEMMA WaiterStep ==
    ASSUME TypeOK, OneWaiterPerReply, [Next]_vars
    PROVE  OneWaiterPerReply'
<1> USE DEF clientVars, pending, threadVars, deviceVars, line, used
<1>0. /\ Awaited = {seq[c] : c \in Waiters}
      /\ \A c, d \in Waiters : seq[c] = seq[d] => c = d
  BY WaiterParts
<1>t. /\ pc \in [Clients -> Labels] /\ seq \in [Clients -> Nat] /\ notify_all(pc) \in [Clients -> Labels]
      /\ \A c \in Clients : notify_all(pc)[c] \in {"reply", "reply_wait"} <=> pc[c] \in {"reply", "reply_wait"}
  BY NotifyAllType, NotifyKeepsWaiters DEF TypeOK
<1>s. ASSUME Waiters' = Waiters, Awaited' = Awaited, \A c \in Waiters : seq'[c] = seq[c]
      PROVE  OneWaiterPerReply'
  <2>1. /\ Awaited' = {seq'[c] : c \in Waiters'}
        /\ \A c, d \in Waiters' : seq'[c] = seq'[d] => c = d
    BY <1>0, <1>s
  <2> QED BY <2>1 DEF OneWaiterPerReply, Waiters, Awaited
\* A thread outside wait_for_request() moves, and stays outside.
<1>m. ASSUME NEW c \in Clients, pc[c] \notin {"reply", "reply_wait"}, NEW label \in Labels \ {"reply", "reply_wait"},
             \/ pc' = [pc EXCEPT ![c] = label]
             \/ pc' = [notify_all(pc) EXCEPT ![c] = label],
             seq' = seq \/ \E n : seq' = [seq EXCEPT ![c] = n],
             Awaited' = Awaited
      PROVE  OneWaiterPerReply'
  <2>1. \A d \in Clients : pc'[d] \in {"reply", "reply_wait"} <=> pc[d] \in {"reply", "reply_wait"}
    BY <1>m, <1>t
  <2>2. Waiters' = Waiters /\ \A d \in Waiters : seq'[d] = seq[d]
    BY <1>m, <1>t, <2>1 DEF Waiters
  <2> QED BY <1>s, <1>m, <2>2
<1>u. UNCHANGED m_pending_requests => Awaited' = Awaited
  BY DEF Awaited
<1>1. ASSUME NEW c \in Clients, ClientCall(c) PROVE OneWaiterPerReply'
  <2>1. pc[c] = "idle" /\ UNCHANGED <<m_pending_requests, seq>>
    BY <1>1 DEF ClientCall, CallIssue, CallCancel, CallWaitForAll, CallStop, Call
  <2>2. \E label \in {"try", "all", "stop_notify"} : pc' = [pc EXCEPT ![c] = label]
    BY <1>1 DEF ClientCall, CallIssue, CallCancel, CallWaitForAll, CallStop, Goto
  <2> QED BY <1>m, <1>u, <2>1, <2>2 DEF Labels
<1>2. ASSUME NEW c \in Clients, TryIssue(c) PROVE OneWaiterPerReply'
  <2> DEFINE s == m_send_seq
  <2>1. pc[c] = "try" /\ s \notin DOMAIN m_pending_requests
    BY <1>2 DEF TryIssue, TypeOK
  <2>2. CASE op[c] \in WaitedOps
    <3> DEFINE entry == [state |-> "NOT_ACKED", silent |-> op[c] \notin WaitedOps, type |-> MessageType(op[c])]
    <3>1. op[c] \notin CommandOps /\ op[c] \notin ClearOps
      BY <2>2 DEF WaitedOps, CommandOps, ClearOps, StopOps, InterruptOps
    <3>2. m_pending_requests' = Emplace(m_pending_requests, s, entry)
      BY <1>2, <3>1 DEF TryIssue
    <3>3. Awaited' = Awaited \cup {s}
      BY <2>1, <2>2, <3>2 DEF Awaited, Emplace
    <3>4. pc' = [pc EXCEPT ![c] = "reply"] /\ seq' = [seq EXCEPT ![c] = s]
      BY <1>2, <2>2, <3>1 DEF TryIssue, Goto
    <3>5. Waiters' = Waiters \cup {c} /\ c \notin Waiters
      BY <1>t, <2>1, <3>4 DEF Waiters
    <3>6. seq'[c] = s /\ \A d \in Waiters : seq'[d] = seq[d] /\ seq[d] # s
      <4>1. \A d \in Waiters : d \in Clients /\ seq[d] \in Awaited
        BY <1>0 DEF Waiters
      <4>2. s \notin Awaited
        BY <2>1 DEF Awaited
      <4> QED BY <1>t, <3>4, <3>5, <4>1, <4>2
    <3>7. /\ Awaited' = {seq'[d] : d \in Waiters'}
          /\ \A d, e \in Waiters' : seq'[d] = seq'[e] => d = e
      BY <1>0, <3>3, <3>5, <3>6
    <3> QED BY <3>7 DEF OneWaiterPerReply, Waiters, Awaited
  <2>3. CASE op[c] \notin WaitedOps
    <3>1. Awaited' = Awaited
      <4>1. CASE op[c] \in CommandOps
        BY <1>2, <1>u, <4>1 DEF TryIssue
      <4>2. CASE op[c] \notin CommandOps
        <5> DEFINE entry == [state |-> "NOT_ACKED", silent |-> op[c] \notin WaitedOps, type |-> MessageType(op[c])]
        <5>1. m_pending_requests' = Emplace(m_pending_requests, s, entry)
          BY <1>2, <4>2 DEF TryIssue
        <5>2. entry.silent
          BY <2>3
        <5> HIDE DEF entry, s
        <5>3. /\ DOMAIN m_pending_requests' = DOMAIN m_pending_requests \cup {s}
              /\ m_pending_requests'[s] = entry
              /\ \A k \in DOMAIN m_pending_requests : k # s => m_pending_requests'[k] = m_pending_requests[k]
          BY <5>1 DEF Emplace
        <5> QED BY <2>1, <5>2, <5>3 DEF Awaited
      <4> QED BY <4>1, <4>2
    <3>2. \/ pc' = [pc EXCEPT ![c] = "clear"] /\ seq' = [seq EXCEPT ![c] = s]
          \/ pc' = [pc EXCEPT ![c] = "idle"] /\ seq' = [seq EXCEPT ![c] = 0]
      BY <1>2, <2>3 DEF TryIssue, Goto, Return
    <3> QED BY <1>m, <2>1, <3>1, <3>2 DEF Labels
  <2> QED BY <2>2, <2>3
<1>3. ASSUME NEW c \in Clients, wait_for_request(c) PROVE OneWaiterPerReply'
  <2> DEFINE s == seq[c]
  <2>1. pc[c] = "reply" /\ c \in Waiters /\ s \in Awaited /\ s \in DOMAIN m_pending_requests
    <3>1. pc[c] = "reply" /\ c \in Waiters
      BY <1>3 DEF wait_for_request, Waiters
    <3> QED BY <1>0, <3>1 DEF Awaited
  <2>2. CASE /\ m_pending_requests' = Erase(m_pending_requests, {s})
             /\ Return(c, notify_all(pc))
    <3>1. Awaited' = Awaited \ {s}
      BY <2>2 DEF Awaited, Erase
    <3>2. Waiters' = Waiters \ {c}
      BY <1>t, <2>2 DEF Waiters, Return, Goto
    <3>3. \A d \in Waiters' : seq'[d] = seq[d] /\ seq[d] # s
      BY <1>0, <1>t, <2>1, <2>2, <3>2 DEF Waiters, Return, Goto
    <3>4. /\ Awaited' = {seq'[d] : d \in Waiters'}
          /\ \A d, e \in Waiters' : seq'[d] = seq'[e] => d = e
      BY <1>0, <3>1, <3>2, <3>3
    <3> QED BY <3>4 DEF OneWaiterPerReply, Waiters, Awaited
  <2>3. CASE Goto(c, "reply_wait", pc) /\ UNCHANGED <<op, seq, m_pending_requests>>
    <3>1. Waiters' = Waiters
      BY <1>t, <2>1, <2>3 DEF Waiters, Goto
    <3> QED BY <1>s, <1>u, <2>3, <3>1
  <2> QED BY <1>3, <2>1, <2>2, <2>3 DEF wait_for_request
<1>4. ASSUME NEW c \in Clients, ClientStep(c), ~ TryIssue(c), ~ wait_for_request(c) PROVE OneWaiterPerReply'
  <2>1. UNCHANGED m_pending_requests
    BY <1>4 DEF ClientStep, TryThrow, TryRefused, IssueSleep, clear_all_active_commands, wait_for_all_requests,
                StopNotify, StopJoin, StopSend, StopConnection
  <2>2. pc[c] \notin {"reply", "reply_wait"}
    BY <1>4 DEF ClientStep, TryThrow, TryRefused, IssueSleep, clear_all_active_commands, wait_for_all_requests,
                StopNotify, StopJoin, StopSend, StopConnection
  <2>3. \E label \in Labels \ {"reply", "reply_wait"} :
           \/ pc' = [pc EXCEPT ![c] = label]
           \/ pc' = [notify_all(pc) EXCEPT ![c] = label]
    <3>1. CASE TryThrow(c) \/ TryRefused(c)
      BY <3>1 DEF TryThrow, TryRefused, Return, Goto, Labels
    <3>2. CASE IssueSleep(c) \/ wait_for_all_requests(c)
      BY <3>2 DEF IssueSleep, wait_for_all_requests, Return, Goto, Labels
    <3>3. CASE clear_all_active_commands(c) \/ StopNotify(c)
      BY <3>3 DEF clear_all_active_commands, StopNotify, Return, Goto, Labels
    <3>4. CASE StopJoin(c) \/ StopSend(c) \/ StopConnection(c)
      BY <3>4 DEF StopJoin, StopSend, StopConnection, Return, Goto, Labels
    <3> QED BY <1>4, <3>1, <3>2, <3>3, <3>4 DEF ClientStep
  <2>4. seq' = seq \/ \E n : seq' = [seq EXCEPT ![c] = n]
    <3>1. CASE TryThrow(c) \/ TryRefused(c)
      BY <3>1 DEF TryThrow, TryRefused, Return
    <3>2. CASE IssueSleep(c) \/ wait_for_all_requests(c)
      BY <3>2 DEF IssueSleep, wait_for_all_requests, Return
    <3>3. CASE clear_all_active_commands(c) \/ StopNotify(c)
      BY <3>3 DEF clear_all_active_commands, StopNotify, Return
    <3>4. CASE StopJoin(c) \/ StopSend(c) \/ StopConnection(c)
      BY <3>4 DEF StopJoin, StopSend, StopConnection, Return
    <3> QED BY <1>4, <3>1, <3>2, <3>3, <3>4 DEF ClientStep
  <2> QED BY <1>m, <1>u, <2>1, <2>2, <2>3, <2>4
<1>5. ASSUME NEW c \in Clients, SpuriousWakeup(c) PROVE OneWaiterPerReply'
  <2>1. pc' = [pc EXCEPT ![c] = notify_all(pc)[c]] /\ UNCHANGED <<m_pending_requests, seq>>
    BY <1>5 DEF SpuriousWakeup
  <2>2. Waiters' = Waiters
    BY <1>t, <2>1 DEF Waiters
  <2> QED BY <1>s, <1>u, <2>1, <2>2
<1>6. ASSUME UNCHANGED <<m_pending_requests, seq>>, pc' = pc \/ pc' = notify_all(pc) PROVE OneWaiterPerReply'
  <2>1. Waiters' = Waiters
    BY <1>t, <1>6 DEF Waiters
  <2> QED BY <1>s, <1>u, <1>6, <2>1
<1>7. CASE (\E limit \in Live : Retransmit(limit)) \/ RetransmitExit
  BY <1>6, <1>7 DEF Retransmit, RetransmitExit
<1>8. CASE ReceiverStep
  <2>1. CASE process_ack_request
    <3> DEFINE S == {s \in Found(m_pending_requests, Head(toClient).seq) : m_pending_requests[s].state = "NOT_ACKED"}
    <3>1. m_pending_requests' = AckEntries(S) /\ UNCHANGED <<pc, seq>>
      BY <2>1 DEF process_ack_request
    <3>2. S \subseteq DOMAIN m_pending_requests /\ \A a, b \in S : a = b
      BY DEF Found
    <3> HIDE DEF S
    <3>3. CASE \E s \in S : m_pending_requests[s].silent
      <4>1. m_pending_requests' = Erase(m_pending_requests, S) /\ \A s \in S : m_pending_requests[s].silent
        BY <3>1, <3>2, <3>3 DEF AckEntries
      <4>2. Awaited' = Awaited
        BY <4>1 DEF Awaited, Erase
      <4>3. Waiters' = Waiters
        BY <3>1 DEF Waiters
      <4> QED BY <1>s, <3>1, <4>2, <4>3
    <3>4. CASE ~ \E s \in S : m_pending_requests[s].silent
      <4>1. m_pending_requests' = [s \in DOMAIN m_pending_requests |->
               IF s \in S THEN [m_pending_requests[s] EXCEPT !.state = "ACKED"] ELSE m_pending_requests[s]]
        BY <3>1, <3>4 DEF AckEntries
      <4>2. \A s \in DOMAIN m_pending_requests : m_pending_requests'[s].silent = m_pending_requests[s].silent
        BY <4>1 DEF TypeOK, RequestEntry
      <4>3. Awaited' = Awaited
        BY <4>1, <4>2 DEF Awaited
      <4>4. Waiters' = Waiters
        BY <3>1 DEF Waiters
      <4> QED BY <1>s, <3>1, <4>3, <4>4
    <3> QED BY <3>3, <3>4
  <2>2. CASE process_command_finished
    BY <1>6, <2>2 DEF process_command_finished
  <2>3. CASE process_ack_command \/ MissedRequest \/ IgnoreMessage \/ ReceiverNotify
    BY <1>6, <2>3 DEF process_ack_command, MissedRequest, IgnoreMessage, ReceiverNotify
  <2> QED BY <1>8, <2>1, <2>2, <2>3 DEF ReceiverStep
<1>9. CASE DeviceStep
  <2>1. UNCHANGED <<clientVars, threadVars>>
    BY <1>9 DEF DeviceStep, DeviceInput, DeviceSeqnumReset, DeviceProcess, DeviceDropCommand, DeviceAckAgain,
                DeviceMissed, DeviceFinishAcked, DeviceFinish, DeviceResendFinish, DeviceUnchanged
  <2> QED BY <1>6, <2>1
<1>10. CASE Environment
  BY <1>6, <1>10 DEF Environment, LoseToDevice, LoseToClient, DeviceRestart
<1>11. CASE UNCHANGED vars
  BY <1>6, <1>11 DEF vars
<1> QED BY <1>1, <1>2, <1>3, <1>4, <1>5, <1>7, <1>8, <1>9, <1>10, <1>11 DEF Next

\* A request that is not silent and the thread waiting for it are in one to
\* one correspondence.
THEOREM WaitersMatchEntries == Spec => []OneWaiterPerReply
<1>1. Init => OneWaiterPerReply
  BY DEF Init, OneWaiterPerReply, EmptyMap
<1>2. TypeOK /\ OneWaiterPerReply /\ [Next]_vars => OneWaiterPerReply'
  BY WaiterStep
<1> QED BY <1>1, <1>2, TypeCorrect, PTL DEF Spec
=============================================================================
